------------------------ MODULE BridgeSystem_proofs ------------------------
(***************************************************************************)
(* Proofs about the bridge in its surroundings: what a restarted process   *)
(* does before it serves, and how long a robot without a command can go    *)
(* on moving, however often the process dies and whatever the link loses,  *)
(* for every value of the constants.                                       *)
(***************************************************************************)
EXTENDS BridgeSystem, Go2NavBridge_proofs

\* The link holds one command at most.
LinkTypes ==
  /\ link = <<>> \/ \E c \in Commands : link = <<c>>
  /\ mcu \in Commands /\ lost \in 0 .. MaxLossBurst
  /\ down \in 0 .. RespawnDelay /\ crashes \in Nat

SysTypeOK == TypeOK /\ LinkTypes

-----------------------------------------------------------------------------
\* Every step of the system is one of the bridge, or none of its, or the death
\* and the restart of the process.
LEMMA SysSteps == [SysNext]_sysVars => [Next]_vars \/ Crash \/ Respawn
BY DEF SysNext, Publishing, NotPublishing, SysTick, Terminate, Deliver, Lose, sysVars,
       Next, Constructor, CmdCallback, Watchdog, Shutdown, Destructor

\* One step: the types are kept.
LEMMA SysTypeStep == SysTypeOK /\ [SysNext]_sysVars => SysTypeOK'
<1> SUFFICES ASSUME SysTypeOK, [SysNext]_sysVars PROVE SysTypeOK'
  OBVIOUS
<1> USE DEF SysTypeOK
<1>1. TypeOK'
  <2>1. CASE [Next]_vars
    BY <2>1, TypeOKStep
  <2>2. CASE Crash
    BY <2>2 DEF Crash, TypeOK, flagVars, clockVars, histVars, InCmd, Gone
  <2>3. CASE Respawn
    <3>1. Cap \in Nat /\ Period \in Nat
      BY ParametersUsable
    <3>2. cmd_vel' \in Seq(Twists) /\ Len(cmd_vel') <= CmdVelDepth
      BY <2>3, InputAssumption DEF Respawn
    <3>3. /\ busy' \in 0 .. Exec /\ flushed' \in 0 .. FlushMs
          /\ elapsed' \in Int /\ elapsed' <= Cap /\ since_stop' \in Int /\ since_stop' <= Cap
          /\ timer' \in Int /\ timer' <= Period
      BY <2>3, <3>1, TimeAssumption DEF Respawn
    <3>4. IF InCmd' THEN msg' \in Twists ELSE msg' = NoMsg' \/ Gone'
      BY <2>3 DEF Respawn, InCmd, NoMsg
    <3> QED
      BY <2>3, <3>2, <3>3, <3>4 DEF Respawn, TypeOK, histVars
  <2> QED
    BY <2>1, <2>2, <2>3, SysSteps
<1>2. LinkTypes'
  <2> USE SystemAssumption DEF LinkTypes, linkVars
  <2>1. CASE Publishing
    <3>1. wire' \in Commands
      BY <1>1 DEF TypeOK
    <3>2. link' = <<wire'>> \/ link' = link
      BY <2>1 DEF Publishing
    <3> QED
      BY <2>1, <3>1, <3>2 DEF Publishing
  <2>2. CASE NotPublishing \/ Terminate \/ Crash \/ Respawn
    BY <2>2 DEF NotPublishing, Terminate, Crash, Respawn
  <2>3. CASE SysTick
    BY <2>3 DEF SysTick
  <2>4. CASE Deliver
    <3>1. PICK c \in Commands : link = <<c>>
      BY <2>4 DEF Deliver
    <3>2. mcu' = c /\ link' = <<>>
      BY <2>4, <3>1 DEF Deliver
    <3> QED
      BY <2>4, <3>2 DEF Deliver
  <2>5. CASE Lose
    BY <2>5 DEF Lose
  <2>6. CASE UNCHANGED sysVars
    BY <2>6 DEF sysVars
  <2> QED
    BY <2>1, <2>2, <2>3, <2>4, <2>5, <2>6 DEF SysNext
<1> QED
  BY <1>1, <1>2

\* Every variable of the system keeps its type.
THEOREM SysTypeCorrect == SysSpec => []SysTypeOK
<1>1. SysInit => SysTypeOK
  <2> SUFFICES ASSUME SysInit PROVE SysTypeOK
    OBVIOUS
  <2>1. TypeOK
    BY TypeOKInit DEF SysInit
  <2>2. LinkTypes
    BY StopCmdIsCommand, SystemAssumption DEF SysInit, LinkTypes
  <2> QED
    BY <2>1, <2>2 DEF SysTypeOK
<1> QED
  BY <1>1, SysTypeStep, PTL DEF SysSpec

-----------------------------------------------------------------------------
\* StartInv: from the constructor's stop to the first command there is nothing
\* but a stop on the wire and on the link.
Started == ContextOk /\ (pc = "ctor_stamp" \/ Serving)

StartInv ==
  /\ InCmd => cmd_vel_received_
  /\ Started /\ ~cmd_vel_received_ => wire = StopCmd /\ (link = <<>> \/ link = <<StopCmd>>)

\* One step: a node that has just started has sent its stop command, and no other.
LEMMA StartStep == SysTypeOK /\ StartInv /\ [SysNext]_sysVars => StartInv'
<1> SUFFICES ASSUME SysTypeOK, StartInv, [SysNext]_sysVars PROVE StartInv'
  OBVIOUS
<1> USE DEF StartInv, Started, Serving, ContextOk, InCmd, InWd, Goto, flagVars, clockVars,
            histVars, linkVars
<1>1. CASE Publishing
  <2>1. CASE CtorPublish
    BY <1>1, <2>1 DEF Publishing, CtorPublish, StopPublish, Publish
  <2>2. CASE CmdPublish
    BY <1>1, <2>2 DEF Publishing, CmdPublish, Publish
  <2>3. CASE WdPublish
    BY <1>1, <2>3 DEF Publishing, WdPublish, StopPublish, Publish
  <2>4. CASE SendStopPublish
    BY <1>1, <2>4 DEF Publishing, SendStopPublish, StopPublish, Publish
  <2>5. CASE DtorPublish
    BY <1>1, <2>5 DEF Publishing, DtorPublish, StopPublish, Publish
  <2> QED
    BY <1>1, <2>1, <2>2, <2>3, <2>4, <2>5 DEF Publishing
<1>2. CASE NotPublishing
  <2>1. UNCHANGED link
    BY <1>2 DEF NotPublishing
  <2>2. CASE CtorStamp \/ CmdBegin \/ CmdStamp \/ CmdThrows
    BY <2>1, <2>2 DEF CtorStamp, CmdBegin, CmdStamp, CmdThrows, StopStamp, PublishThrows
  <2>3. CASE WdBegin \/ WdStamp \/ WdThrows
    BY <2>1, <2>3 DEF WdBegin, WdFresh, WdStopSent, WdTimeout, WdDue, WdStamp, WdThrows,
                      StopStamp, StopThrows, PublishThrows
  <2>4. CASE Sigint \/ SendStopStamp \/ FlushDone \/ SpinReturns \/ DtorStamp
    BY <2>1, <2>4 DEF Sigint, SendStopStamp, FlushDone, SpinReturns, DtorStamp, StopStamp
  <2>5. ASSUME NEW m \in Twists, CmdVelArrives(m) PROVE StartInv'
    BY <2>1, <2>5 DEF CmdVelArrives
  <2>6. ASSUME NEW d \in 1 .. MaxJump, ClockBack(d) \/ ClockForward(d) PROVE StartInv'
    BY <2>1, <2>6 DEF ClockBack, ClockForward
  <2> QED
    BY <1>2, <2>2, <2>3, <2>4, <2>5, <2>6 DEF NotPublishing
<1>3. CASE SysTick
  BY <1>3 DEF SysTick, Tick
<1>4. CASE Deliver \/ Lose
  BY <1>4 DEF Deliver, Lose, vars
<1>5. CASE Terminate
  BY <1>5 DEF Terminate, CtorThrows, StopThrows, PublishThrows
<1>6. CASE Crash \/ Respawn
  BY <1>6 DEF Crash, Respawn
<1>7. CASE UNCHANGED sysVars
  BY <1>7 DEF sysVars, vars
<1> QED
  BY <1>1, <1>2, <1>3, <1>4, <1>5, <1>6, <1>7 DEF SysNext

\* Whatever the process that died had left on the wire, the one that replaces it
\* sends a stop before it serves (the constructor's publish_stop_command).
THEOREM RespawnStopsHolds == SysSpec => []RespawnStops
<1>1. SysInit => StartInv
  BY DEF SysInit, Init, StartInv, Started, Serving, InCmd, InWd
<1>2. StartInv => RespawnStops
  BY DEF StartInv, Started, RespawnStops, Serving
<1> QED
  BY <1>1, <1>2, StartStep, SysTypeCorrect, PTL DEF SysSpec


-----------------------------------------------------------------------------
\* OrderInv: where the flags and the stamps stand in a process, whichever it is.
CallInv ==
  /\ InCmd => cmd_vel_received_ /\ ~timeout_stop_sent_
  /\ pc = "wd_stop" => timeout_stop_sent_
  /\ InCtor => ~timeout_stop_sent_ /\ ~cmd_vel_received_ /\ sig \in {"none", "done"}
  /\ pc = "dead" => sig = "dead"
  /\ sig = "dead" => pc = "dead"

\* A command that has been stamped is no older than it looks, and one that is
\* about to be published is as old as its callback.
FreshInv ==
  /\ cmd_vel_received_ /\ pc \notin {"cmd_stamp", "dead"} => elapsed >= silence - back
  /\ pc = "cmd_pub" => silence <= busy
  /\ pc = "cmd_pub" /\ ContextOk => silence + timer <= Period /\ silence <= Period + Lag

OrderInv == StampInv /\ CallInv /\ FreshInv

\* One step: what the control flow says of the call in progress stays true.
LEMMA CallStep == SysTypeOK /\ StampInv /\ CallInv /\ [SysNext]_sysVars => CallInv'
<1> SUFFICES ASSUME SysTypeOK, StampInv, CallInv, [SysNext]_sysVars PROVE CallInv'
  OBVIOUS
<1> USE DEF CallInv, StampInv, InCmd, InCtor, InDtor, Gone, ContextOk, Goto, flagVars,
            clockVars, histVars, linkVars
<1>1. CASE Publishing
  BY <1>1 DEF Publishing, CtorPublish, CmdPublish, WdPublish, SendStopPublish, DtorPublish,
              StopPublish
<1>2. CASE NotPublishing
  <2>1. CASE CtorStamp \/ CmdBegin \/ CmdStamp \/ CmdThrows
    BY <2>1 DEF CtorStamp, CmdBegin, CmdStamp, CmdThrows, StopStamp
  <2>2. CASE WdBegin \/ WdStamp \/ WdThrows
    BY <2>2 DEF WdBegin, WdFresh, WdStopSent, WdTimeout, WdDue, WdStamp, WdThrows, StopStamp
  <2>3. CASE Sigint \/ SendStopStamp \/ FlushDone \/ SpinReturns \/ DtorStamp
    BY <2>3 DEF Sigint, SendStopStamp, FlushDone, SpinReturns, DtorStamp, StopStamp
  <2>4. ASSUME NEW m \in Twists, CmdVelArrives(m) PROVE CallInv'
    BY <2>4 DEF CmdVelArrives
  <2>5. ASSUME NEW d \in 1 .. MaxJump, ClockBack(d) \/ ClockForward(d) PROVE CallInv'
    BY <2>5 DEF ClockBack, ClockForward
  <2> QED
    BY <1>2, <2>1, <2>2, <2>3, <2>4, <2>5 DEF NotPublishing
<1>3. CASE SysTick
  BY <1>3 DEF SysTick, Tick
<1>4. CASE Deliver \/ Lose
  BY <1>4 DEF Deliver, Lose, vars
<1>5. CASE Terminate
  BY <1>5 DEF Terminate, CtorThrows, StopThrows, PublishThrows
<1>6. CASE Crash \/ Respawn
  BY <1>6 DEF Crash, Respawn
<1>7. CASE UNCHANGED sysVars
  BY <1>7 DEF sysVars, vars
<1> QED
  BY <1>1, <1>2, <1>3, <1>4, <1>5, <1>6, <1>7 DEF SysNext

\* One step: a command is as old as its stamp says, or its callback.
LEMMA FreshStep ==
  SysTypeOK /\ StampInv /\ CallInv /\ FreshInv /\ [SysNext]_sysVars => FreshInv'
<1> SUFFICES ASSUME SysTypeOK, StampInv, CallInv, FreshInv, [SysNext]_sysVars PROVE FreshInv'
  OBVIOUS
<1>1. /\ silence \in Nat /\ silence <= Cap /\ back \in Nat /\ busy \in Nat /\ Cap \in Nat
      /\ elapsed \in Int /\ elapsed <= Cap /\ timer \in Int /\ timer <= Period
      /\ Period \in Nat /\ Lag \in Nat /\ MaxJump \in Nat
  BY ParametersUsable, TimeAssumption, BudgetAssumption DEF SysTypeOK, TypeOK
<1> USE <1>1
<1> USE DEF FreshInv, CallInv, InCmd, InCtor, ContextOk, Goto, flagVars, clockVars, histVars
<1>2. CASE Publishing
  BY <1>2 DEF Publishing, CtorPublish, CmdPublish, WdPublish, SendStopPublish, DtorPublish,
              StopPublish, Publish
<1>3. CASE NotPublishing
  <2>1. CASE CtorStamp \/ CmdBegin \/ CmdStamp \/ CmdThrows
    BY <2>1 DEF CtorStamp, CmdBegin, CmdStamp, CmdThrows, StopStamp, PublishThrows
  <2>2. CASE WdBegin \/ WdStamp \/ WdThrows
    BY <2>2 DEF WdBegin, WdFresh, WdStopSent, WdTimeout, WdDue, WdStamp, WdThrows, StopStamp,
                StopThrows, PublishThrows
  <2>3. CASE Sigint \/ SendStopStamp \/ FlushDone \/ SpinReturns \/ DtorStamp
    BY <2>3 DEF Sigint, SendStopStamp, FlushDone, SpinReturns, DtorStamp, StopStamp
  <2>4. ASSUME NEW m \in Twists, CmdVelArrives(m) PROVE FreshInv'
    BY <2>4 DEF CmdVelArrives
  <2>5. ASSUME NEW d \in 1 .. MaxJump, ClockBack(d) \/ ClockForward(d) PROVE FreshInv'
    BY <2>5 DEF ClockBack, ClockForward, Older
  <2> QED
    BY <1>3, <2>1, <2>2, <2>3, <2>4, <2>5 DEF NotPublishing
<1>4. CASE SysTick
  <2>1. /\ elapsed' = Older(elapsed, 1) /\ silence' = Older(silence, 1)
        /\ UNCHANGED <<pc, sig, cmd_vel_received_, back>>
        /\ pc = "cmd_pub" => busy' = busy + 1
        /\ pc = "cmd_pub" /\ ContextOk => timer' = timer - 1 /\ timer > -Lag
    BY <1>4 DEF SysTick, Tick, InCallback, Gone
  <2> QED
    BY <2>1 DEF Older
<1>5. CASE Deliver \/ Lose
  BY <1>5 DEF Deliver, Lose, vars
<1>6. CASE Terminate
  BY <1>6 DEF Terminate, CtorThrows, StopThrows, PublishThrows
<1>7. CASE Crash \/ Respawn
  BY <1>7 DEF Crash, Respawn
<1>8. CASE UNCHANGED sysVars
  BY <1>8 DEF sysVars, vars
<1> QED
  BY <1>2, <1>3, <1>4, <1>5, <1>6, <1>7, <1>8 DEF SysNext

\* One step: so do the time stamps.
LEMMA OrderStep == SysTypeOK /\ OrderInv /\ [SysNext]_sysVars => OrderInv'
<1> SUFFICES ASSUME SysTypeOK, OrderInv, [SysNext]_sysVars PROVE StampInv'
  BY CallStep, FreshStep DEF OrderInv
<1>1. CASE [Next]_vars
  BY <1>1, StampStep DEF SysTypeOK, OrderInv
<1>2. CASE Crash
  BY <1>2 DEF Crash, OrderInv, StampInv, InDtor, Gone, clockVars, histVars
<1>3. CASE Respawn
  <2>1. Cap \in Nat /\ back \in Nat
    BY ParametersUsable, BudgetAssumption DEF SysTypeOK, TypeOK
  <2> QED
    BY <1>3, <2>1 DEF Respawn, StampInv, InDtor, Gone, histVars
<1> QED
  BY <1>1, <1>2, <1>3, SysSteps

-----------------------------------------------------------------------------
\* What the robot's motion has been charged for so far: the stops that were lost
\* since the link last delivered anything (one in flight counts as lost until it
\* arrives, a command in flight makes a fresh start), the publish() calls that
\* threw, the crashes, and the clock's steps back.
Coming == link # <<>> /\ link # <<StopCmd>>

Runs == mcu # StopCmd \/ Coming

Charged == IF Coming THEN 0 ELSE IF link = <<>> THEN lost ELSE lost + 1

Costs == (Charged + faults) * LossCost + crashes * CrashCost + back

Allowed == StopBound + Costs

\* The costs are times.
LEMMA CostTypes ==
  /\ Period \in Nat /\ Lag \in Nat /\ Exec \in Nat /\ RespawnDelay \in Nat
  /\ watchdog_timeout_ms_ \in Nat /\ kStopRepublishMs \in Nat /\ Cap \in Nat
  /\ LossCost \in Nat /\ LossCost = kStopRepublishMs + Period + Lag + 2 * Exec
  /\ CrashCost \in Nat /\ CrashCost = RespawnDelay + Exec
  /\ StopBound \in Nat /\ StopBound = watchdog_timeout_ms_ + Period + Lag + Exec
BY ParametersUsable, TimeAssumption, SystemAssumption DEF LossCost, CrashCost, StopBound

\* One fault more costs once more.
LEMMA Multiples ==
  ASSUME NEW c \in Nat, NEW m \in Nat, NEW n \in Nat, m <= n
  PROVE  m * c \in Nat /\ (m + 1) * c = m * c + c /\ m * c <= n * c
<1>1. m * c \in Nat /\ (m + 1) * c = m * c + c
  OBVIOUS
<1>2. n = m + (n - m) /\ n - m \in Nat
  OBVIOUS
<1>3. (n - m) * c \in Nat /\ (m + (n - m)) * c = m * c + (n - m) * c
  BY <1>2
<1> QED
  BY <1>1, <1>2, <1>3

\* The charge of k stops, f failures, n crashes and b of clock.
Charge(k, f, n, b) == (k + f) * LossCost + n * CrashCost + b

\* What a fault, a crash and the time down add to the charge.
LEMMA ChargeGrows ==
  ASSUME NEW k \in Nat, NEW f \in Nat, NEW n \in Nat, NEW b \in Nat
  PROVE  /\ Charge(k, f, n, b) \in Nat /\ Charge(k, f, n, b) >= b
         /\ Charge(k + 1, f, n, b) = Charge(k, f, n, b) + LossCost
         /\ Charge(k, f + 1, n, b) = Charge(k, f, n, b) + LossCost
         /\ Charge(k, f, n + 1, b) = Charge(k, f, n, b) + CrashCost
         /\ \A d \in Nat : Charge(k, f, n, b + d) = Charge(k, f, n, b) + d
         /\ \A j \in Nat : j <= k => Charge(j, f, n, b) <= Charge(k, f, n, b)
         /\ k >= 1 => Charge(k, f, n, b) >= LossCost
<1>1. /\ k + f \in Nat /\ (k + f) * LossCost \in Nat
      /\ (k + f + 1) * LossCost = (k + f) * LossCost + LossCost
  BY CostTypes, Multiples
<1>2. /\ n * CrashCost \in Nat /\ (n + 1) * CrashCost = n * CrashCost + CrashCost
  BY CostTypes, Multiples
<1>3. k + 1 + f = k + f + 1 /\ k + (f + 1) = k + f + 1
  OBVIOUS
<1>4. ASSUME NEW j \in Nat, j <= k PROVE Charge(j, f, n, b) <= Charge(k, f, n, b)
  <2>1. (j + f) * LossCost \in Nat /\ (j + f) * LossCost <= (k + f) * LossCost
    BY <1>4, CostTypes, Multiples
  <2> QED
    BY <1>1, <1>2, <2>1 DEF Charge
<1>5. k >= 1 => (k + f) * LossCost >= LossCost
  <2>1. k >= 1 => 1 * LossCost <= (k + f) * LossCost
    BY CostTypes, Multiples
  <2> QED
    BY CostTypes, <2>1
<1> QED
  BY <1>1, <1>2, <1>3, <1>4, <1>5, CostTypes DEF Charge

\* The costs of RunawayBound are such a charge.
LEMMA CostsIs ==
  ASSUME SysTypeOK
  PROVE  /\ Costs = Charge(Charged, faults, crashes, back)
         /\ Charged \in Nat /\ faults \in Nat /\ crashes \in Nat /\ back \in Nat
         /\ lost \in Nat /\ Costs \in Nat /\ Costs >= back
<1>1. faults \in Nat /\ crashes \in Nat /\ back \in Nat /\ lost \in Nat
  BY BudgetAssumption, SystemAssumption DEF SysTypeOK, TypeOK, LinkTypes
<1>2. Charged \in Nat
  BY <1>1 DEF Charged
<1>3. Costs = Charge(Charged, faults, crashes, back)
  BY DEF Costs, Charge
<1> QED
  BY <1>1, <1>2, <1>3, ChargeGrows

-----------------------------------------------------------------------------
\* RunInv: how old the robot's command may be, wherever the process is.  It
\* holds as long as nobody shuts the process down and the robot moves or is
\* about to.
Undisturbed == sig \in {"none", "dead"}

\* A timer call, a callback, a downtime: each begins in time for its own delay.
PlaceInv ==
  /\ pc \in {"spin", "cmd_stamp"} =>
       silence + timer <= Allowed - Exec - Lag /\ silence <= Allowed - Exec
  /\ pc = "wd_stop" => silence <= Allowed - Exec + busy
  /\ pc = "wd_stamp" => silence <= Allowed - LossCost + busy
  /\ pc = "ctor_stop" => silence <= Allowed - Exec + busy
  /\ pc = "ctor_stamp" => silence <= Allowed - LossCost - Exec + busy
  /\ pc = "dead" => silence <= Allowed - RespawnDelay - Exec + down

\* The stop in flight has not been lost yet, and no time passes until it is.
FlightInv ==
  link = <<StopCmd>> =>
    /\ silence <= Allowed - LossCost
    /\ pc = "ctor_stop" => silence <= Allowed - LossCost - Exec + busy
    /\ pc = "dead" => silence <= Allowed - LossCost - RespawnDelay - Exec + down

\* A watchdog that has set timeout_stop_sent_ counts from the last stop, which is
\* no younger than what has been charged.
SinceInv ==
  /\ pc \in {"spin", "cmd_stamp", "cmd_pub", "wd_stop"} =>
       silence <= since_stop + watchdog_timeout_ms_ + Costs + LossCost - kStopRepublishMs
  /\ pc = "wd_stamp" => Costs >= LossCost
  /\ pc = "spin" /\ timeout_stop_sent_ =>
       /\ Costs >= LossCost
       /\ silence <= since_stop + watchdog_timeout_ms_ + Costs - kStopRepublishMs

RunInv == Undisturbed /\ Runs => PlaceInv /\ FlightInv /\ SinceInv

\* What each kind of step adds to the charge.
LEMMA CostsMove ==
  ASSUME SysTypeOK, SysTypeOK'
  PROVE  /\ UNCHANGED <<link, lost, faults, crashes, back>> => Costs' = Costs
         /\ link' = <<StopCmd>> /\ UNCHANGED <<lost, faults, crashes, back>> =>
              /\ Costs' >= Costs /\ Costs' >= LossCost
              /\ link # <<StopCmd>> => Costs' >= Costs + LossCost
         /\ faults' = faults + 1 /\ UNCHANGED <<link, lost, crashes, back>> =>
              Costs' = Costs + LossCost
         /\ crashes' = crashes + 1 /\ faults' \in {faults, faults + 1}
                /\ UNCHANGED <<link, lost, back>> =>
              Costs' >= Costs + CrashCost
         /\ link' = <<>> /\ lost' = lost + 1 /\ UNCHANGED <<faults, crashes, back>> =>
              Costs' >= Costs
         /\ Coming /\ link' = <<>> /\ lost' = 0 /\ UNCHANGED <<faults, crashes, back>> =>
              Costs' = Costs
         /\ \A d \in Nat : back' = back + d /\ UNCHANGED <<link, lost, faults, crashes>> =>
              Costs' = Costs + d
<1>1. /\ Costs = Charge(Charged, faults, crashes, back)
      /\ Charged \in Nat /\ faults \in Nat /\ crashes \in Nat /\ back \in Nat /\ lost \in Nat
      /\ Costs \in Nat
  BY CostsIs
<1>2. Costs' = Charge(Charged', faults', crashes', back')
  BY DEF Costs, Charge
<1>3. /\ faults' \in Nat /\ crashes' \in Nat /\ back' \in Nat /\ lost' \in Nat
  BY BudgetAssumption, SystemAssumption DEF SysTypeOK, TypeOK, LinkTypes
<1>4. Charged' = IF Coming' THEN 0 ELSE IF link' = <<>> THEN lost' ELSE lost' + 1
  BY DEF Charged
<1>5. ASSUME UNCHANGED <<link, lost, faults, crashes, back>>
      PROVE  Costs' = Costs
  <2>1. Charged' = Charged
    BY <1>4, <1>5 DEF Charged, Coming
  <2>2. faults' = faults /\ crashes' = crashes /\ back' = back
    BY <1>5
  <2> QED
    BY <1>1, <1>2, <2>1, <2>2
<1>6. ASSUME link' = <<StopCmd>>, UNCHANGED <<lost, faults, crashes, back>>
      PROVE  /\ Costs' >= Costs /\ Costs' >= LossCost
             /\ link # <<StopCmd>> => Costs' >= Costs + LossCost
  <2>1. Charged' = lost + 1
    BY <1>4, <1>6 DEF Coming
  <2>2. Costs' = Charge(lost + 1, faults, crashes, back)
    BY <1>2, <1>6, <2>1
  <2>3. /\ Charge(lost + 1, faults, crashes, back) = Charge(lost, faults, crashes, back) + LossCost
        /\ Charge(lost, faults, crashes, back) \in Nat
        /\ Charge(0, faults, crashes, back) <= Charge(lost, faults, crashes, back)
        /\ Charge(0, faults, crashes, back) \in Nat
    <3>1. 0 \in Nat /\ 0 <= lost
      BY <1>1
    <3>2. Charge(0, faults, crashes, back) \in Nat
      BY <1>1, <3>1, ChargeGrows
    <3>3. \A j \in Nat : j <= lost =>
            Charge(j, faults, crashes, back) <= Charge(lost, faults, crashes, back)
      BY <1>1, ChargeGrows
    <3>4. Charge(lost, faults, crashes, back) \in Nat
      BY <1>1, ChargeGrows
    <3>5. Charge(lost + 1, faults, crashes, back) = Charge(lost, faults, crashes, back) + LossCost
      BY <1>1, ChargeGrows
    <3> QED
      BY <3>1, <3>2, <3>3, <3>4, <3>5
  <2>4. CASE link = <<StopCmd>>
    BY <1>1, <2>2, <2>3, <2>4, CostTypes DEF Charged, Coming
  <2>5. CASE link # <<StopCmd>>
    <3>1. Charged = 0 \/ Charged = lost
      BY <2>5 DEF Charged, Coming
    <3> QED
      BY <1>1, <2>2, <2>3, <3>1, CostTypes
  <2> QED
    BY <2>4, <2>5
<1>7. ASSUME faults' = faults + 1, UNCHANGED <<link, lost, crashes, back>>
      PROVE  Costs' = Costs + LossCost
  <2>1. Charged' = Charged
    BY <1>4, <1>7 DEF Charged, Coming
  <2> QED
    BY <1>1, <1>2, <1>7, <2>1, ChargeGrows
<1>8. ASSUME crashes' = crashes + 1, faults' \in {faults, faults + 1}, UNCHANGED <<link, lost, back>>
      PROVE  Costs' >= Costs + CrashCost
  <2>1. Charged' = Charged
    BY <1>4, <1>8 DEF Charged, Coming
  <2>2. /\ Charge(Charged, faults + 1, crashes, back) = Costs + LossCost
        /\ Charge(Charged, faults, crashes + 1, back) = Costs + CrashCost
        /\ Charge(Charged, faults + 1, crashes + 1, back) = Costs + LossCost + CrashCost
    <3>1. faults + 1 \in Nat
      BY <1>1
    <3>2. Charge(Charged, faults + 1, crashes + 1, back)
            = Charge(Charged, faults + 1, crashes, back) + CrashCost
      BY <1>1, <3>1, ChargeGrows
    <3> QED
      BY <1>1, <3>2, ChargeGrows
  <2> QED
    BY <1>1, <1>2, <1>8, <2>1, <2>2, CostTypes
<1>9. ASSUME link' = <<>>, lost' = lost + 1, UNCHANGED <<faults, crashes, back>>
      PROVE  Costs' >= Costs
  <2>1. Charged' = lost + 1
    BY <1>4, <1>9 DEF Coming
  <2>2. Charged <= lost + 1 /\ lost + 1 \in Nat
    BY <1>1 DEF Charged
  <2>3. Charge(Charged, faults, crashes, back) <= Charge(lost + 1, faults, crashes, back)
    BY <1>1, <2>2, ChargeGrows
  <2> QED
    BY <1>1, <1>2, <1>9, <2>1, <2>3
<1>10. ASSUME Coming, link' = <<>>, lost' = 0, UNCHANGED <<faults, crashes, back>>
       PROVE  Costs' = Costs
  <2>1. Charged' = 0 /\ Charged = 0
    BY <1>4, <1>10 DEF Charged, Coming
  <2> QED
    BY <1>1, <1>2, <1>10, <2>1
<1>11. ASSUME NEW d \in Nat, back' = back + d, UNCHANGED <<link, lost, faults, crashes>>
       PROVE  Costs' = Costs + d
  <2>1. Charged' = Charged
    BY <1>4, <1>11 DEF Charged, Coming
  <2> QED
    BY <1>1, <1>2, <1>11, <2>1, ChargeGrows
<1> QED
  BY <1>5, <1>6, <1>7, <1>8, <1>9, <1>10, <1>11

RunTyped ==
  /\ silence \in Nat /\ silence <= Cap /\ busy \in Nat /\ busy <= Exec
  /\ since_stop \in Int /\ since_stop <= Cap /\ timer \in Int /\ timer <= Period
  /\ elapsed \in Int /\ back \in Nat
  /\ down \in Nat /\ down <= RespawnDelay
  /\ Costs \in Nat /\ Costs >= back
  /\ Allowed \in Nat /\ Allowed = StopBound + Costs

\* The numbers that the bound is made of, now ...
LEMMA RunTypes == SysTypeOK => RunTyped
<1> SUFFICES ASSUME SysTypeOK PROVE RunTyped
  OBVIOUS
<1>1. /\ silence \in Nat /\ silence <= Cap /\ busy \in Nat /\ busy <= Exec
      /\ since_stop \in Int /\ since_stop <= Cap /\ timer \in Int /\ timer <= Period
      /\ elapsed \in Int /\ back \in Nat
  BY TimeAssumption, BudgetAssumption, ParametersUsable DEF SysTypeOK, TypeOK
<1>2. down \in Nat /\ down <= RespawnDelay
  BY SystemAssumption DEF SysTypeOK, LinkTypes
<1>3. Costs \in Nat /\ Costs >= back
  BY CostsIs
<1>4. Allowed \in Nat /\ Allowed = StopBound + Costs
  BY <1>3, CostTypes DEF Allowed
<1> QED
  BY <1>1, <1>2, <1>3, <1>4 DEF RunTyped

\* ... and after a step.
LEMMA RunTypesNext == SysTypeOK' => RunTyped'
BY RunTypes, PTL

-----------------------------------------------------------------------------
\* One step: the robot has moved no longer than the faults so far allow.
LEMMA RunStep ==
  SysTypeOK /\ SysTypeOK' /\ OrderInv /\ RunInv /\ [SysNext]_sysVars => RunInv'
<1> SUFFICES ASSUME SysTypeOK, SysTypeOK', OrderInv, RunInv, [SysNext]_sysVars,
                    Undisturbed', Runs'
             PROVE  PlaceInv' /\ FlightInv' /\ SinceInv'
  BY DEF RunInv
<1>1. StampInv /\ CallInv /\ FreshInv
  BY DEF OrderInv
<1>2. Undisturbed
  <2> USE <1>1 DEF CallInv, Undisturbed
  <2>1. CASE Publishing
    BY <2>1 DEF Publishing, CtorPublish, CmdPublish, WdPublish, SendStopPublish, DtorPublish
  <2>2. CASE NotPublishing
    BY <2>2 DEF NotPublishing, CtorStamp, CmdBegin, CmdStamp, CmdThrows, WdBegin, WdFresh,
                WdStopSent, WdTimeout, WdStamp, WdThrows, Sigint, SendStopStamp, FlushDone,
                SpinReturns, DtorStamp, CmdVelArrives, ClockBack, ClockForward
  <2>3. CASE SysTick \/ Terminate \/ Crash \/ Respawn
    BY <2>3 DEF SysTick, Tick, Terminate, CtorThrows, StopThrows,
                PublishThrows, ContextOk, Crash, Respawn
  <2> QED
    BY <2>1, <2>2, <2>3 DEF SysNext, Deliver, Lose, sysVars, vars
<1>3. (sig = "none" \/ sig = "dead") /\ (pc # "dead" => ContextOk)
  BY <1>1, <1>2 DEF Undisturbed, CallInv, ContextOk
<1>4. Runs => PlaceInv /\ FlightInv /\ SinceInv
  BY <1>2 DEF RunInv
<1>5. RunTyped /\ RunTyped'
  BY RunTypes, RunTypesNext
<1>6. since_stop + back >= 0
  BY <1>1 DEF StampInv
<1>7. pc \notin {"dtor_stop", "dtor_stamp", "exited"}
  BY <1>1, <1>3 DEF StampInv, CallInv, InDtor, Gone
<1>8. UNCHANGED linkVars => link' = link /\ mcu' = mcu /\ lost' = lost /\ Runs
  BY DEF linkVars, Runs, Coming
<1>9. link' = <<StopCmd>> /\ mcu' = mcu => Runs
  BY DEF Runs, Coming
<1> DEFINE Still == UNCHANGED <<link, lost, faults, crashes, back>>
<1>10. Still => Costs' = Costs
  BY CostsMove
<1>11. PICK costs \in Nat : Costs' = costs
  BY <1>5 DEF RunTyped
<1> DEFINE allowed == StopBound + costs
<1>12. Allowed' = allowed /\ allowed \in Nat
  BY <1>5, <1>11, CostTypes DEF RunTyped
<1>13. costs >= back'
  BY <1>5, <1>11 DEF RunTyped
<1>14. RunTyped /\ costs \in Nat
  BY <1>5, <1>11
<1> USE <1>14, CostTypes DEF RunTyped
<1>15. CASE Publishing
  <2>1. UNCHANGED <<mcu, lost, down, crashes>>
    BY <1>15 DEF Publishing
  <2>2. CASE CtorPublish
    <3>1. /\ pc = "ctor_stop" /\ pc' = "ctor_stamp" /\ sig' = sig
          /\ busy' = busy /\ silence' = silence
          /\ UNCHANGED <<faults, back>> /\ wire' = StopCmd
      BY <1>1, <1>2, <1>3, <2>2
      DEF CtorPublish, Goto, StopPublish, Publish, CallInv, InCtor
    <3>2. link' = <<StopCmd>>
      BY <1>1, <1>2, <1>3, <1>15, <3>1 DEF Publishing, CallInv, InCtor
    <3>3. costs >= Costs /\ (link # <<StopCmd>> => costs >= Costs + LossCost)
      BY <1>11, <2>1, <3>1, <3>2, CostsMove
    <3>4. Runs
      BY <1>9, <2>1, <3>1, <3>2
    <3>5. silence <= Allowed - Exec + busy
      BY <1>4, <3>1, <3>4 DEF PlaceInv
    <3>6. link = <<StopCmd>> => silence <= Allowed - LossCost - Exec + busy
      BY <1>4, <3>1, <3>4 DEF FlightInv
    <3>7. silence <= allowed - LossCost - Exec + busy
      BY <3>3, <3>4, <3>5, <3>6
    <3>8. PlaceInv' /\ FlightInv'
      BY <1>12, <3>1, <3>7 DEF PlaceInv, FlightInv
    <3>9. SinceInv'
      BY <3>1 DEF SinceInv
    <3> QED
      BY <3>8, <3>9
  <2>3. CASE WdPublish
    <3>1. /\ pc = "wd_stop" /\ pc' = "wd_stamp" /\ sig' = sig
          /\ busy' = busy /\ silence' = silence
          /\ UNCHANGED <<faults, back>> /\ wire' = StopCmd /\ ContextOk
      BY <1>1, <1>3, <2>3
      DEF WdPublish, Goto, StopPublish, Publish, CallInv
    <3>2. link' = <<StopCmd>>
      BY <1>15, <3>1 DEF Publishing
    <3>3. costs >= Costs /\ (link # <<StopCmd>> => costs >= Costs + LossCost)
      BY <1>11, <2>1, <3>1, <3>2, CostsMove
    <3>4. Runs
      BY <1>9, <2>1, <3>1, <3>2
    <3>5. silence <= Allowed - Exec + busy
      BY <1>4, <3>1, <3>4 DEF PlaceInv
    <3>6. link = <<StopCmd>> => silence <= Allowed - LossCost
      BY <1>4, <3>1, <3>4 DEF FlightInv
    <3>7. silence <= allowed - LossCost
      BY <3>3, <3>4, <3>5, <3>6
    <3>8. PlaceInv' /\ FlightInv'
      BY <1>12, <3>1, <3>7 DEF PlaceInv, FlightInv
    <3>9. costs >= LossCost
      BY <1>11, <2>1, <3>1, <3>2, CostsMove
    <3>10. SinceInv'
      BY <1>11, <3>1, <3>9 DEF SinceInv
    <3> QED
      BY <3>8, <3>10
  <2>4. CASE SendStopPublish
    BY <1>3, <2>4 DEF SendStopPublish
  <2>5. CASE CmdPublish
    <3>1. /\ pc = "cmd_pub" /\ pc' = "spin" /\ sig' = sig
          /\ silence' = silence /\ since_stop' = since_stop /\ timer' = timer
          /\ timeout_stop_sent_' = FALSE
          /\ UNCHANGED <<faults, back>> /\ wire' = VelocityFor(msg) /\ ContextOk
      BY <1>1, <1>3, <2>5
      DEF CmdPublish, Goto, Publish, flagVars, clockVars, CallInv, InCmd
    <3>2. silence <= Exec /\ silence + timer <= Period /\ silence <= Period + Lag
      BY <1>1, <3>1 DEF FreshInv
    <3>3. link' = <<StopCmd>> => costs >= LossCost
      BY <1>11, <2>1, <3>1, CostsMove
    <3>4. costs >= back
      BY <1>13, <3>1
    <3>5. PlaceInv'
      <4>1. silence + timer <= allowed - Exec - Lag /\ silence <= allowed - Exec
        BY <3>2
      <4> QED
        BY <1>12, <3>1, <4>1 DEF PlaceInv
    <3>6. FlightInv'
      BY <1>12, <3>1, <3>2, <3>3 DEF FlightInv
    <3>7. SinceInv'
      BY <1>6, <1>11, <3>1, <3>2, <3>4 DEF SinceInv
    <3> QED
      BY <3>5, <3>6, <3>7
  <2>6. CASE DtorPublish
    BY <1>7, <2>6 DEF DtorPublish, Goto
  <2> QED
    BY <1>15, <2>2, <2>3, <2>4, <2>5, <2>6 DEF Publishing

\* Steps that leave the link alone.
<1> DEFINE Same == costs = Costs /\ allowed = Allowed
<1>16. ASSUME Still PROVE Same
  BY <1>10, <1>11, <1>16
<1>17. CASE NotPublishing
  <2>1. link' = link /\ lost' = lost /\ crashes' = crashes /\ down' = down /\ Runs
    BY <1>8, <1>17 DEF NotPublishing, linkVars
  <2>2. PlaceInv /\ FlightInv /\ SinceInv
    BY <1>4, <2>1
  <2>3. CASE CtorStamp
    <3>1. /\ pc = "ctor_stamp" /\ pc' = "spin" /\ sig' = sig /\ silence' = silence
          /\ timer' = timer /\ since_stop' = 0 /\ timeout_stop_sent_' = FALSE
          /\ UNCHANGED <<faults, back>>
      BY <1>1, <2>3 DEF CtorStamp, Goto, StopStamp, flagVars, histVars, CallInv, InCtor
    <3>2. Same
      BY <1>16, <2>1, <3>1
    <3>3. silence <= Allowed - LossCost
      BY <2>2, <3>1 DEF PlaceInv
    <3>4. PlaceInv'
      <4>1. silence + timer <= allowed - Exec - Lag /\ silence <= allowed - Exec
        BY <3>2, <3>3
      <4> QED
        BY <1>12, <3>1, <4>1 DEF PlaceInv
    <3>5. FlightInv'
      BY <1>12, <3>1, <3>2, <3>3 DEF FlightInv
    <3>6. SinceInv'
      BY <1>11, <3>1, <3>2, <3>3 DEF SinceInv
    <3> QED
      BY <3>4, <3>5, <3>6
  <2>4. CASE CmdBegin
    <3>1. /\ pc = "spin" /\ pc' = "cmd_stamp" /\ sig' = sig /\ silence' = silence
          /\ timer' = timer /\ since_stop' = since_stop /\ UNCHANGED <<faults, back>>
      BY <2>4 DEF CmdBegin, Goto, clockVars, histVars
    <3>2. Same
      BY <1>16, <2>1, <3>1
    <3> QED
      BY <1>11, <1>12, <2>1, <2>2, <3>1, <3>2 DEF PlaceInv, FlightInv, SinceInv
  <2>5. CASE CmdStamp
    <3>1. /\ pc = "cmd_stamp" /\ pc' = "cmd_pub" /\ sig' = sig /\ silence' = 0
          /\ since_stop' = since_stop /\ UNCHANGED <<faults, back>>
      BY <2>5 DEF CmdStamp, Goto
    <3>2. Same
      BY <1>16, <2>1, <3>1
    <3>3. SinceInv'
      BY <1>6, <1>11, <3>1, <3>2 DEF SinceInv
    <3>4. FlightInv'
      BY <1>12, <2>1, <2>2, <3>1, <3>2 DEF FlightInv
    <3> QED
      BY <3>1, <3>3, <3>4 DEF PlaceInv
  <2>6. CASE CmdThrows
    <3>1. /\ pc = "cmd_pub" /\ pc' = "spin" /\ sig' = sig /\ silence' = silence
          /\ timer' = timer /\ since_stop' = since_stop /\ timeout_stop_sent_' = FALSE
          /\ faults' = faults + 1 /\ back' = back /\ ContextOk
      BY <1>1, <2>6 DEF CmdThrows, Goto, PublishThrows, flagVars, clockVars, CallInv, InCmd
    <3>2. costs = Costs + LossCost
      BY <1>11, <2>1, <3>1, CostsMove
    <3>3. silence <= Exec /\ silence + timer <= Period
      BY <1>1, <3>1 DEF FreshInv
    <3>4. PlaceInv'
      <4>1. silence + timer <= allowed - Exec - Lag /\ silence <= allowed - Exec
        BY <3>2, <3>3
      <4> QED
        BY <1>12, <3>1, <4>1 DEF PlaceInv
    <3>5. FlightInv'
      BY <1>12, <3>1, <3>2, <3>3 DEF FlightInv
    <3>6. SinceInv'
      BY <1>11, <2>2, <3>1, <3>2 DEF SinceInv
    <3> QED
      BY <3>4, <3>5, <3>6
  <2>7. CASE WdBegin
    <3>1. /\ pc = "spin" /\ sig' = sig /\ silence' = silence /\ since_stop' = since_stop
          /\ UNCHANGED <<faults, back>> /\ state_mutex_ = "free"
          /\ timer' = TimerAfterCall /\ pc' \in {"spin", "wd_stop"}
      BY <2>7 DEF WdBegin, WdFresh, WdStopSent, WdTimeout, WdDue, clockVars, histVars
    <3>2. Same
      BY <1>16, <2>1, <3>1
    <3>3. PICK rearmed \in 0 .. Period : timer' = rearmed
      BY <3>1, TimerRearmed
    <3>4. silence <= Allowed - Exec
      BY <2>2, <3>1 DEF PlaceInv
    <3>5. FlightInv'
      BY <1>12, <2>1, <2>2, <3>1, <3>2 DEF FlightInv
    <3>6. CASE WdFresh
      <4>1. pc' = "spin" /\ timeout_stop_sent_' = FALSE
        BY <3>1, <3>6 DEF WdFresh
      <4>2. silence <= watchdog_timeout_ms_ + Costs
        BY <1>1, <3>1, <3>6
        DEF WdFresh, TimedOut, watchdog_timeout_elapsed, FreshInv
      <4>3. silence + rearmed <= allowed - Exec - Lag /\ silence <= allowed - Exec
        BY <3>2, <3>3, <4>2
      <4>4. PlaceInv'
        BY <1>12, <3>1, <3>3, <4>1, <4>3 DEF PlaceInv
      <4>5. SinceInv'
        BY <1>11, <2>2, <3>1, <3>2, <4>1 DEF SinceInv
      <4> QED
        BY <3>5, <4>4, <4>5
    <3>7. CASE WdStopSent
      <4>1. /\ pc' = "spin" /\ timeout_stop_sent_' = timeout_stop_sent_ /\ timeout_stop_sent_
            /\ since_stop < kStopRepublishMs
        BY <3>1, <3>7 DEF WdStopSent, PeriodicRepublish, flagVars
      <4>2. silence <= watchdog_timeout_ms_ + Costs
        BY <2>2, <3>1, <4>1 DEF SinceInv
      <4>3. silence + rearmed <= allowed - Exec - Lag /\ silence <= allowed - Exec
        BY <3>2, <3>3, <4>2
      <4>4. PlaceInv'
        BY <1>12, <3>1, <3>3, <4>1, <4>3 DEF PlaceInv
      <4>5. SinceInv'
        BY <1>11, <2>2, <3>1, <3>2, <4>1 DEF SinceInv
      <4> QED
        BY <3>5, <4>4, <4>5
    <3>8. CASE WdTimeout
      <4>1. pc' = "wd_stop" /\ busy' = 0
        BY <3>8 DEF WdTimeout
      <4>2. PlaceInv'
        BY <1>12, <3>1, <3>2, <3>4, <4>1 DEF PlaceInv
      <4>3. SinceInv'
        BY <1>11, <2>2, <3>1, <3>2, <4>1 DEF SinceInv
      <4> QED
        BY <3>5, <4>2, <4>3
    <3> QED
      BY <2>7, <3>6, <3>7, <3>8 DEF WdBegin
  <2>8. CASE WdStamp
    <3>1. /\ pc = "wd_stamp" /\ pc' = "spin" /\ sig' = sig /\ silence' = silence
          /\ timer' = timer /\ since_stop' = 0 /\ state_mutex_ = "main"
          /\ UNCHANGED <<faults, back>>
      BY <2>8 DEF WdStamp, Goto, StopStamp, histVars
    <3>2. Same
      BY <1>16, <2>1, <3>1
    <3>3. silence <= Allowed - LossCost + Exec /\ Costs >= LossCost
      BY <2>2, <3>1 DEF PlaceInv, SinceInv
    <3>4. PlaceInv'
      <4>1. silence + timer <= allowed - Exec - Lag /\ silence <= allowed - Exec
        BY <3>2, <3>3
      <4> QED
        BY <1>12, <3>1, <4>1 DEF PlaceInv
    <3>5. FlightInv'
      BY <1>12, <2>1, <2>2, <3>1, <3>2 DEF FlightInv
    <3>6. SinceInv'
      BY <1>11, <3>1, <3>2, <3>3 DEF SinceInv
    <3> QED
      BY <3>4, <3>5, <3>6
  <2>9. CASE WdThrows
    <3>1. /\ pc = "wd_stop" /\ pc' = "spin" /\ sig' = sig /\ silence' = silence
          /\ timer' = timer /\ since_stop' = since_stop /\ state_mutex_ = "free"
          /\ faults' = faults + 1 /\ back' = back
      BY <2>9 DEF WdThrows, Goto, StopThrows, PublishThrows, clockVars
    <3>2. costs = Costs + LossCost
      BY <1>11, <2>1, <3>1, CostsMove
    <3>3. silence <= Allowed
      BY <2>2, <3>1 DEF PlaceInv
    <3>4. PlaceInv'
      <4>1. silence + timer <= allowed - Exec - Lag /\ silence <= allowed - Exec
        BY <3>2, <3>3
      <4> QED
        BY <1>12, <3>1, <4>1 DEF PlaceInv
    <3>5. FlightInv'
      BY <1>12, <3>1, <3>2, <3>3 DEF FlightInv
    <3>6. SinceInv'
      BY <1>11, <2>2, <3>1, <3>2 DEF SinceInv
    <3> QED
      BY <3>4, <3>5, <3>6
  <2>10. CASE Sigint
    BY <2>10 DEF Sigint, Undisturbed
  <2>11. CASE SendStopStamp \/ FlushDone \/ SpinReturns \/ DtorStamp
    BY <1>3, <1>7, <2>11 DEF SendStopStamp, FlushDone, SpinReturns, DtorStamp, Goto
  <2>12. ASSUME NEW m \in Twists, CmdVelArrives(m)
         PROVE  PlaceInv' /\ FlightInv' /\ SinceInv'
    <3>1. /\ UNCHANGED <<pc, sig, busy, silence, timer, since_stop, timeout_stop_sent_, faults, back>>
      BY <2>12 DEF CmdVelArrives, flagVars, clockVars, histVars
    <3>2. Same
      BY <1>16, <2>1, <3>1
    <3> QED
      BY <1>11, <1>12, <2>1, <2>2, <3>1, <3>2 DEF PlaceInv, FlightInv, SinceInv
  <2>13. ASSUME NEW d \in 1 .. MaxJump, ClockBack(d)
         PROVE  PlaceInv' /\ FlightInv' /\ SinceInv'
    <3>1. /\ UNCHANGED <<pc, sig, busy, silence, timer, timeout_stop_sent_, faults>>
          /\ since_stop' = since_stop - d /\ back' = back + d /\ d \in Nat
      BY <2>13, BudgetAssumption DEF ClockBack, flagVars
    <3>2. costs = Costs + d
      BY <1>11, <2>1, <3>1, CostsMove
    <3>3. PlaceInv'
      BY <1>12, <2>1, <2>2, <3>1, <3>2 DEF PlaceInv
    <3>4. FlightInv'
      BY <1>12, <2>1, <2>2, <3>1, <3>2 DEF FlightInv
    <3>5. SinceInv'
      BY <1>11, <2>2, <3>1, <3>2 DEF SinceInv
    <3> QED
      BY <3>3, <3>4, <3>5
  <2>14. ASSUME NEW d \in 1 .. MaxJump, ClockForward(d)
         PROVE  PlaceInv' /\ FlightInv' /\ SinceInv'
    <3>1. /\ UNCHANGED <<pc, sig, busy, silence, timer, timeout_stop_sent_, faults, back>>
          /\ since_stop' = Older(since_stop, d) /\ d \in Nat
      BY <2>14, BudgetAssumption DEF ClockForward, flagVars
    <3>2. Same
      BY <1>16, <2>1, <3>1
    <3>3. PICK older \in Int : since_stop' = older /\ (older >= since_stop \/ older = Cap)
      BY <3>1 DEF Older
    <3>4. PlaceInv' /\ FlightInv'
      BY <1>12, <2>1, <2>2, <3>1, <3>2 DEF PlaceInv, FlightInv
    <3>5. SinceInv'
      BY <1>11, <2>2, <3>1, <3>2, <3>3 DEF SinceInv
    <3> QED
      BY <3>4, <3>5
  <2> QED
    BY <1>17, <2>3, <2>4, <2>5, <2>6, <2>7, <2>8, <2>9, <2>10, <2>11, <2>12, <2>13, <2>14
    DEF NotPublishing

<1>18. CASE SysTick
  <2>1. /\ UNCHANGED linkVars /\ link = <<>> /\ Runs
        /\ pc = "dead" => down' = down + 1
        /\ UNCHANGED <<crashes, pc, sig, faults, back, timeout_stop_sent_>>
    BY <1>8, <1>18 DEF SysTick, Tick, flagVars
  <2>2. Same
    BY <1>16, <2>1 DEF linkVars
  <2>3. PlaceInv /\ SinceInv
    BY <1>4, <2>1
  <2>4. PICK older \in Nat : silence' = older /\ older <= silence + 1 /\ older <= Cap
    <3>1. silence' = Older(silence, 1)
      BY <1>18 DEF SysTick, Tick
    <3>2. /\ Older(silence, 1) \in Nat
          /\ Older(silence, 1) <= silence + 1 /\ Older(silence, 1) <= Cap
      BY DEF Older
    <3> QED
      BY <3>1, <3>2
  <2>5. PICK since \in Int : since_stop' = since /\ (since = since_stop + 1 \/ since = Cap)
    BY <1>18 DEF SysTick, Tick, Older
  <2>6. pc \in {"spin", "cmd_stamp"} => timer' = timer - 1 /\ timer > -Lag
    BY <1>1, <1>3, <1>18 DEF SysTick, Tick, InCmd, Gone, CallInv
  <2>7. pc \in {"wd_stop", "wd_stamp", "ctor_stop", "ctor_stamp"} => busy' = busy + 1
    BY <1>18 DEF SysTick, Tick, InCallback, InWd, InCtor
  <2>8. FlightInv'
    BY <2>1 DEF FlightInv, linkVars
  <2>9. PlaceInv'
    BY <1>12, <2>1, <2>2, <2>3, <2>4, <2>6, <2>7 DEF PlaceInv
  <2>10. SinceInv'
    BY <1>11, <2>1, <2>2, <2>3, <2>4, <2>5, <2>6 DEF SinceInv
  <2> QED
    BY <2>8, <2>9, <2>10
<1>19. CASE Deliver
  <2>1. UNCHANGED vars /\ UNCHANGED <<down, crashes>> /\ link' = <<>> /\ lost' = 0
    BY <1>19 DEF Deliver
  <2>2. Coming
    BY <1>19, <2>1 DEF Deliver, Runs, Coming
  <2>3. costs = Costs
    BY <1>11, <2>1, <2>2, CostsMove DEF vars, histVars
  <2>4. PlaceInv /\ SinceInv
    BY <1>4, <2>2 DEF Runs
  <2>5. UNCHANGED <<pc, sig, busy, silence, timer, since_stop, timeout_stop_sent_, down>>
    BY <2>1 DEF vars, flagVars, clockVars, histVars
  <2>6. PlaceInv'
    BY <1>12, <2>3, <2>4, <2>5 DEF PlaceInv
  <2>7. SinceInv'
    BY <1>11, <2>3, <2>4, <2>5 DEF SinceInv
  <2> QED
    BY <2>1, <2>6, <2>7 DEF FlightInv
<1>20. CASE Lose
  <2>1. /\ UNCHANGED vars /\ UNCHANGED <<mcu, down, crashes>> /\ link' = <<>>
        /\ lost' = lost + 1
    BY <1>20 DEF Lose
  <2>2. Runs
    BY <2>1 DEF Runs, Coming
  <2>3. costs >= Costs
    BY <1>11, <2>1, CostsMove DEF vars, histVars
  <2>4. PlaceInv /\ SinceInv
    BY <1>4, <2>2
  <2>5. UNCHANGED <<pc, sig, busy, silence, timer, since_stop, timeout_stop_sent_, down>>
    BY <2>1 DEF vars, flagVars, clockVars, histVars
  <2>6. PlaceInv'
    BY <1>12, <2>3, <2>4, <2>5 DEF PlaceInv
  <2>7. SinceInv'
    BY <1>11, <2>3, <2>4, <2>5 DEF SinceInv
  <2> QED
    BY <2>1, <2>6, <2>7 DEF FlightInv
<1>21. CASE Terminate \/ Crash
  <2>1. /\ UNCHANGED linkVars /\ Runs
        /\ pc' = "dead" /\ sig' = "dead" /\ down' = 0
        /\ crashes' = crashes + 1 /\ faults' \in {faults, faults + 1}
        /\ back' = back /\ silence' = silence
    BY <1>8, <1>21
    DEF Terminate, CtorThrows, StopThrows, PublishThrows, Goto, Crash, histVars
  <2>2. link' = link /\ lost' = lost
    BY <2>1 DEF linkVars
  <2>3. costs >= Costs + CrashCost
    BY <1>11, <2>1, <2>2, CostsMove
  <2>4. PlaceInv /\ FlightInv
    BY <1>4, <2>1
  <2>5. pc # "dead" /\ (pc = "cmd_pub" => silence <= Exec)
    BY <1>1, <1>21 DEF Terminate, CtorThrows, Crash, Goto, Gone, CallInv, FreshInv
  <2>6. pc \in {"ctor_stop", "ctor_stamp", "spin", "cmd_stamp", "cmd_pub", "wd_stop", "wd_stamp"}
    BY <1>7, <2>5 DEF SysTypeOK, TypeOK
  <2>7. silence <= Allowed
    BY <2>4, <2>5, <2>6 DEF PlaceInv
  <2>8. allowed >= Allowed + RespawnDelay + Exec
    BY <2>3
  <2>9. PlaceInv'
    BY <1>12, <2>1, <2>7, <2>8 DEF PlaceInv
  <2>10. FlightInv'
    BY <1>12, <2>1, <2>2, <2>4, <2>8 DEF FlightInv
  <2> QED
    BY <2>1, <2>9, <2>10 DEF SinceInv
<1>22. CASE Respawn
  <2>1. /\ UNCHANGED linkVars /\ Runs /\ UNCHANGED <<crashes, faults, back>>
        /\ pc = "dead" /\ pc' = "ctor_stop" /\ sig' = "none" /\ busy' = 0
        /\ silence' = silence /\ down = RespawnDelay
    BY <1>8, <1>22 DEF Respawn, histVars
  <2>2. sig = "dead"
    BY <1>1, <2>1 DEF CallInv
  <2>3. Same
    BY <1>10, <1>11, <2>1, <2>2 DEF linkVars
  <2>4. PlaceInv /\ FlightInv /\ link' = link
    BY <1>4, <2>1 DEF linkVars
  <2> QED
    BY <1>12, <2>1, <2>3, <2>4 DEF PlaceInv, FlightInv, SinceInv
<1>23. CASE UNCHANGED sysVars
  <2>1. /\ UNCHANGED <<pc, sig, busy, silence, timer, since_stop, timeout_stop_sent_, down>>
        /\ UNCHANGED <<faults, back, crashes>> /\ UNCHANGED linkVars /\ Runs
    BY <1>8, <1>23 DEF sysVars, vars, flagVars, clockVars, histVars
  <2>2. Same
    BY <1>16, <2>1 DEF linkVars
  <2>3. PlaceInv /\ FlightInv /\ SinceInv /\ link' = link
    BY <1>4, <2>1 DEF linkVars
  <2>4. PlaceInv' /\ FlightInv'
    BY <1>12, <2>1, <2>2, <2>3 DEF PlaceInv, FlightInv
  <2>5. SinceInv'
    BY <1>11, <2>1, <2>2, <2>3 DEF SinceInv
  <2> QED
    BY <2>4, <2>5
<1> QED
  BY <1>15, <1>17, <1>18, <1>19, <1>20, <1>21, <1>22, <1>23 DEF SysNext

-----------------------------------------------------------------------------
\* In all of those places the robot's command is within the bound of the run.
LEMMA RunBounds ==
  ASSUME SysTypeOK, OrderInv, RunInv PROVE RunawayBound
<1> SUFFICES ASSUME sig \in {"none", "dead"}, mcu # StopCmd
             PROVE  silence <= StopBound + back + (MaxLossBurst + faults) * LossCost
                                 + crashes * CrashCost
  BY DEF RunawayBound
<1>1. PlaceInv /\ FlightInv
  BY DEF RunInv, Runs, Undisturbed
<1>2. StampInv /\ CallInv /\ FreshInv
  BY DEF OrderInv
<1>3. RunTyped /\ Allowed = StopBound + Costs
  BY RunTypes DEF RunTyped
<1>4. silence <= Allowed
  <2> USE <1>3, CostTypes DEF RunTyped
  <2>1. pc = "cmd_pub" => silence <= Exec
    BY <1>2 DEF FreshInv
  <2>2. pc \notin {"dtor_stop", "dtor_stamp", "exited"}
    BY <1>2 DEF StampInv, CallInv, InDtor, Gone
  <2>3. pc \in {"ctor_stop", "ctor_stamp", "spin", "cmd_stamp", "cmd_pub", "wd_stop",
                "wd_stamp", "dead"}
    BY <2>2 DEF SysTypeOK, TypeOK
  <2> QED
    BY <1>1, <2>1, <2>3 DEF PlaceInv
<1>5. /\ Costs = Charge(Charged, faults, crashes, back)
      /\ Charged \in Nat /\ faults \in Nat /\ crashes \in Nat /\ back \in Nat
      /\ lost \in Nat /\ lost <= MaxLossBurst /\ MaxLossBurst \in Nat
  BY CostsIs, SystemAssumption DEF SysTypeOK, LinkTypes
<1> DEFINE Worst == Charge(MaxLossBurst, faults, crashes, back)
<1>6. Worst \in Nat
  BY <1>5, ChargeGrows
<1>7. silence <= StopBound + Worst
  <2>1. CASE link = <<StopCmd>>
    <3>1. Charged = lost + 1
      BY <2>1 DEF Charged, Coming
    <3>2. Costs = Charge(lost, faults, crashes, back) + LossCost
      BY <1>5, <3>1, ChargeGrows
    <3>3. /\ Charge(lost, faults, crashes, back) \in Nat
          /\ Charge(lost, faults, crashes, back) <= Worst
      BY <1>5, ChargeGrows
    <3>4. silence <= Allowed - LossCost
      BY <1>1, <2>1 DEF FlightInv
    <3> HIDE DEF Worst
    <3> QED
      BY <1>3, <1>6, <3>2, <3>3, <3>4, CostTypes DEF RunTyped
  <2>2. CASE link # <<StopCmd>>
    <3>1. Charged <= MaxLossBurst
      BY <1>5, <2>2 DEF Charged, Coming
    <3>2. Costs <= Worst
      BY <1>5, <3>1, ChargeGrows
    <3> HIDE DEF Worst
    <3> QED
      BY <1>3, <1>4, <1>6, <3>2, CostTypes DEF RunTyped
  <2> QED
    BY <2>1, <2>2
<1> QED
  <2>1. /\ Worst = (MaxLossBurst + faults) * LossCost + crashes * CrashCost + back
        /\ (MaxLossBurst + faults) * LossCost \in Nat /\ crashes * CrashCost \in Nat
    <3>1. MaxLossBurst + faults \in Nat
      BY <1>5
    <3> QED
      BY <1>5, <3>1, CostTypes, Multiples DEF Charge
  <2> HIDE DEF Worst
  <2> QED
    BY <1>3, <1>5, <1>6, <1>7, <2>1, CostTypes DEF RunTyped

\* At first the robot rests.
LEMMA RunInit == SysInit => OrderInv /\ RunInv
<1> SUFFICES ASSUME SysInit PROVE OrderInv /\ RunInv
  OBVIOUS
<1>1. Init /\ link = <<>> /\ mcu = StopCmd
  BY DEF SysInit
<1>2. StampInv
  BY <1>1, ParametersUsable DEF Init, StampInv, InDtor, Gone
<1>3. CallInv /\ FreshInv
  BY <1>1 DEF Init, CallInv, FreshInv, InCmd, InCtor
<1>4. ~Runs
  BY <1>1 DEF Runs, Coming
<1> QED
  BY <1>2, <1>3, <1>4 DEF OrderInv, RunInv

\* How long a robot without a command goes on moving is bounded, however many stops
\* the link loses and however often the process dies (watchdog_callback, the
\* constructor's stop, respawn), until SIGINT has invalidated the context: then
\* publish() sends nothing and nothing bounds it.
THEOREM RunawayBounded == SysSpec => []RunawayBound
<1>1. SysTypeOK /\ OrderInv /\ RunInv => RunawayBound
  BY RunBounds
<1> QED
  BY <1>1, RunInit, RunStep, OrderStep, SysTypeCorrect, PTL DEF SysSpec

=============================================================================
