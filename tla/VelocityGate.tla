--------------------------- MODULE VelocityGate ---------------------------
(***************************************************************************)
(* What the bridge promises to whoever stands next to the robot, without   *)
(* flags, timers or threads: a command is passed on while it is fresh, and *)
(* a robot in motion does not outlive its last command by more than Bound. *)
(***************************************************************************)
EXTENDS Integers

CONSTANTS
  Command,    \* the commands that can be sent, Stop among them
  Stop,
  Fresh,      \* how old a command may be when it is passed on
  Bound,      \* how long the robot may move without a new command
  AgeMax      \* ages stop growing here

VARIABLES
  sent,       \* the last command sent to the robot
  age,        \* how old the last command received is
  live        \* the promise holds; it ends with the process that gives it

gateVars == <<sent, age, live>>

GateInit == sent = Stop /\ age = 0 /\ live = TRUE

Receive == live /\ age' = 0 /\ UNCHANGED <<sent, live>>

Send ==
  /\ live /\ age <= Fresh
  /\ sent' \in Command /\ UNCHANGED <<age, live>>

SendStop == live /\ sent' = Stop /\ UNCHANGED <<age, live>>

PassTime ==
  /\ live /\ sent # Stop => age < Bound
  /\ age' = IF age < AgeMax THEN age + 1 ELSE age
  /\ UNCHANGED <<sent, live>>

\* From here on nothing is promised.
End == live' = FALSE /\ sent' \in Command /\ age' \in 0..AgeMax

GateNext == Receive \/ Send \/ SendStop \/ PassTime \/ End

GateSpec == GateInit /\ [][GateNext]_gateVars

=============================================================================
