--------------------------- MODULE MCBlockingRing ---------------------------
(***************************************************************************)
(* BlockingRing for TLC, with two casts in one run: every kind of caller,  *)
(* and those that a ring of the driver has (one thread that pushes, one    *)
(* that pops with a timeout, and clears).  In a third cast nobody uses the *)
(* ring, and the SDK's other queue with a condition variable, that of the  *)
(* Logger, is at work.                                                     *)
(***************************************************************************)
EXTENDS BlockingRing

CONSTANTS
  Driver,           \* the second cast
  Lidars, MaxLines

ASSUME CastAssumption == Driver \subseteq Threads /\ "free" \notin Lidars

VARIABLES cast      \* the threads that take part

\* Of Logger.
VARIABLES
  lidar, log_Target, log_target_rule_, fp_, running_, exit_, mutex_running, thread,
  queue_, file, logged, owed, missed

loggerVars ==
  <<lidar, log_Target, log_target_rule_, fp_, running_, exit_, mutex_running, thread,
    queue_, file, logged, owed, missed>>

L == INSTANCE Logger

LoggerRests ==
  /\ lidar = [l \in Lidars |-> "deleted"] /\ log_Target = [l \in Lidars |-> FALSE]
  /\ log_target_rule_ = FALSE /\ fp_ = FALSE /\ running_ = FALSE /\ exit_ = TRUE
  /\ mutex_running = "free" /\ thread = "exited"
  /\ queue_ = <<>> /\ file = <<>> /\ logged = 0 /\ owed = 0 /\ missed = FALSE

MCInit ==
  /\ Init /\ cast \in {Threads, Driver, {}}
  /\ IF cast = {} THEN L!Init ELSE LoggerRests

\* Deadlock is looked for in the ring; where the logger ends LoggerServes says.
LoggerIdle == cast = {} /\ UNCHANGED <<vars, loggerVars>>

MCNext ==
  /\ \/ (\E t \in cast : Step(t)) /\ UNCHANGED loggerVars
     \/ cast = {} /\ L!Next /\ UNCHANGED vars
     \/ LoggerIdle
  /\ UNCHANGED cast

\* The fairness of BlockingRing, for the threads that take part.
CastFairness ==
  /\ \A t \in Threads :
       /\ WF_vars(t \in cast /\ (Resume(t) \/ GiveUp(t)))
       /\ WF_vars(t \in cast /\ Timeout(t))
  /\ \A t \in TimedPoppers : WF_vars(t \in cast /\ Enter(t))

MCSpec == MCInit /\ [][MCNext]_<<vars, cast, loggerVars>> /\ CastFairness /\ L!Fairness

-----------------------------------------------------------------------------
\* TypesOK: the variables of the ring and of the logger have their types.
TypesOK == TypeOK /\ (cast = {} => L!TypeOK)

\* DriverServed: in the driver's cast a push that waits for room gets through,
\* although pops and pushes notify on one condition variable and eff_clear
\* notifies nobody.
DriverServed == cast = Driver => PushersServed

\* LoggerServes: lines are written in their turn, and Stop returns.
LoggerServes == L!LoggerServes

=============================================================================
