------------------------------- MODULE Logger -------------------------------
(***************************************************************************)
(* The SDK's logger (logger.cc): one for the whole process, which every    *)
(* Lidar starts in Init and stops in its destructor.  Any thread queues    *)
(* lines; one thread writes them to a file, if there is one.               *)
(*                                                                         *)
(* Lines for the file are numbered as they are queued.  exit_ is set and   *)
(* read without the mutex that the condition variable goes with, and is    *)
(* never reset.                                                            *)
(***************************************************************************)
EXTENDS Integers, Sequences

CONSTANTS
  Lidars,    \* those of the node
  MaxLines   \* bound: lines that are logged

VARIABLES
  lidar,            \* where each is, between its Init and the end of its destructor
  log_Target,       \* of each: the log goes to a file, not to the console
  log_target_rule_, fp_, running_, exit_,
  mutex_running,    \* "free", or the Lidar in Stop
  thread,           \* where threadfunc is
  queue_, file,     \* lines queued, and written
  logged, owed,     \* lines so far, and notifications still to be made for them
  missed            \* history: Stop notified when nobody waited yet

rules == <<log_Target, log_target_rule_>>
life == <<fp_, running_, exit_, mutex_running>>
lines == <<queue_, file, logged, owed>>
vars == <<lidar, rules, life, thread, lines, missed>>

\* notify_one: there is only one thread to be woken.
Woken == IF thread = "waits" THEN "test" ELSE thread

\* Only about to wait does threadfunc keep the mutex from one step to the next.
Unlocked == thread # "about to wait"

-----------------------------------------------------------------------------
\* Lidar::Init: the rule of the logger is that of the last Lidar, ...
SetLogTargetRule(l) ==
  /\ lidar[l] = "new" /\ lidar' = [lidar EXCEPT ![l] = "start"]
  /\ log_target_rule_' = log_Target[l]
  /\ UNCHANGED <<log_Target, life, thread, lines, missed>>

\* ... Start, once and no more while it runs; opening the file empties it, ...
Start(l) ==
  /\ lidar[l] = "start" /\ lidar' = [lidar EXCEPT ![l] = "up"]
  /\ mutex_running = "free"
  /\ IF running_ THEN UNCHANGED <<fp_, running_, thread, file>>
     ELSE /\ running_' = TRUE /\ thread' = "begin"
          /\ IF log_target_rule_ THEN fp_' = TRUE /\ file' = <<>>
                                 ELSE UNCHANGED <<fp_, file>>
  /\ UNCHANGED <<rules, exit_, mutex_running, queue_, logged, owed, missed>>

\* ... if it can be opened.
StartFails(l) ==
  /\ lidar[l] = "start" /\ lidar' = [lidar EXCEPT ![l] = "up"]
  /\ mutex_running = "free" /\ ~running_ /\ log_target_rule_
  /\ fp_' = FALSE
  /\ UNCHANGED <<rules, running_, exit_, mutex_running, thread, lines, missed>>

\* ~Lidar: Stop does nothing to a logger that does not run, ...
StopNothing(l) ==
  /\ lidar[l] = "up" /\ lidar' = [lidar EXCEPT ![l] = "deleted"]
  /\ mutex_running = "free" /\ ~running_
  /\ UNCHANGED <<rules, life, thread, lines, missed>>

\* ... sets exit_, ...
Stop(l) ==
  /\ lidar[l] = "up" /\ lidar' = [lidar EXCEPT ![l] = "notify"]
  /\ mutex_running = "free" /\ mutex_running' = l /\ running_
  /\ exit_' = TRUE
  /\ UNCHANGED <<rules, fp_, running_, thread, lines, missed>>

\* Mutant: nobody is notified.
StopNotifiesNobody(l) ==
  /\ lidar[l] = "notify" /\ lidar' = [lidar EXCEPT ![l] = "join"]
  /\ missed' = (thread = "about to wait")
  /\ UNCHANGED <<rules, life, thread, lines>>

\* ... notifies without the mutex, ...
StopNotifies(l) ==
  /\ lidar[l] = "notify" /\ lidar' = [lidar EXCEPT ![l] = "join"]
  /\ thread' = Woken /\ missed' = (thread = "about to wait")
  /\ UNCHANGED <<rules, life, lines>>

\* ... and joins.
StopJoins(l) ==
  /\ lidar[l] = "join" /\ lidar' = [lidar EXCEPT ![l] = "deleted"]
  /\ thread = "exited"
  /\ running_' = FALSE /\ mutex_running' = "free"
  /\ UNCHANGED <<rules, fp_, exit_, thread, lines, missed>>

-----------------------------------------------------------------------------
\* AddToQueue, in any thread: the line under the mutex, ...
AddToQueue ==
  /\ log_target_rule_ /\ logged < MaxLines /\ Unlocked
  /\ logged' = logged + 1 /\ queue_' = Append(queue_, logged') /\ owed' = owed + 1
  /\ UNCHANGED <<lidar, rules, life, thread, file, missed>>

\* ... then the notification without it.
AddNotifies ==
  /\ owed > 0 /\ owed' = owed - 1 /\ thread' = Woken
  /\ UNCHANGED <<lidar, rules, life, queue_, file, logged, missed>>

\* threadfunc: without a file it returns, ...
Begin ==
  /\ thread = "begin" /\ thread' = IF fp_ THEN "loop" ELSE "exited"
  /\ UNCHANGED <<lidar, rules, life, lines, missed>>

\* ... with exit_ too, whatever is queued; ...
Loop ==
  /\ thread = "loop" /\ thread' = IF exit_ THEN "exited" ELSE "test"
  /\ UNCHANGED <<lidar, rules, life, lines, missed>>

\* ... under the mutex it looks for a line, and then at exit_; ...
Empty ==
  /\ thread = "test" /\ queue_ = <<>>
  /\ thread' = IF exit_ THEN "exited" ELSE "about to wait"
  /\ UNCHANGED <<lidar, rules, life, lines, missed>>

\* ... it waits, giving the mutex back, ...
Wait ==
  /\ thread = "about to wait" /\ thread' = "waits"
  /\ UNCHANGED <<lidar, rules, life, lines, missed>>

\* ... or writes the line that has waited longest.
Write ==
  /\ thread = "test" /\ queue_ # <<>> /\ thread' = "loop"
  /\ file' = Append(file, Head(queue_)) /\ queue_' = Tail(queue_)
  /\ UNCHANGED <<lidar, rules, life, logged, owed, missed>>

LidarStep(l) ==
  \/ SetLogTargetRule(l) \/ Start(l) \/ StartFails(l)
  \/ StopNothing(l) \/ Stop(l) \/ StopNotifies(l) \/ StopJoins(l)
Writer == Begin \/ Loop \/ Empty \/ Wait \/ Write

Init ==
  /\ lidar = [l \in Lidars |-> "new"] /\ log_Target \in [Lidars -> BOOLEAN]
  /\ log_target_rule_ = FALSE /\ fp_ = FALSE /\ running_ = FALSE /\ exit_ = FALSE
  /\ mutex_running = "free" /\ thread = "none"
  /\ queue_ = <<>> /\ file = <<>> /\ logged = 0 /\ owed = 0 /\ missed = FALSE

Next == (\E l \in Lidars : LidarStep(l)) \/ AddToQueue \/ AddNotifies \/ Writer

Spec == Init /\ [][Next]_vars

\* The threads are scheduled; nothing obliges anyone to start, to log or to stop.
Fairness ==
  /\ WF_vars(AddNotifies) /\ WF_vars(Writer)
  /\ \A l \in Lidars : WF_vars(StopNotifies(l)) /\ WF_vars(StopJoins(l))

-----------------------------------------------------------------------------
TypeOK ==
  /\ lidar \in [Lidars -> {"new", "start", "up", "notify", "join", "deleted"}]
  /\ mutex_running \in Lidars \cup {"free"}
  /\ \A l \in Lidars : (mutex_running = l) <=> (lidar[l] \in {"notify", "join"})
  /\ thread \in {"none", "begin", "loop", "test", "about to wait", "waits", "exited"}
  /\ thread \notin {"none", "exited"} => running_
  /\ owed \in 0 .. logged

\* LoggerServes: while the logger runs with a file what is queued is written, in
\* the order of the calls, unless some Lidar stops the logger, after which it
\* writes no more, started again or not; and Stop returns, unless it notified
\* while the thread stood between its test of exit_ and the wait, and nobody logs
\* any more.
AllWritten == queue_ = <<>> /\ file = [i \in DOMAIN file |-> logged - Len(file) + i]

LoggerServes ==
  /\ (queue_ # <<>> /\ running_ /\ fp_) ~> (AllWritten \/ exit_)
  /\ mutex_running # "free" ~> mutex_running = "free" \/ (missed /\ thread = "waits")

=============================================================================
