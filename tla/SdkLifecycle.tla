---------------------------- MODULE SdkLifecycle ----------------------------
(***************************************************************************)
(* The life of the lidar driver: the node's main (hesai_ros_driver_node.cc)*)
(* calls Init, Start and Stop of HesaiLidarSdk, which create, hand over to *)
(* and join the initialisation thread (InitThread, Lidar::Init), the PTC   *)
(* set-up thread (InitSetPtc), Run, and the receivers of LidarReceive.     *)
(*                                                                         *)
(* Ctrl-C only sets sig_recv, which main looks at when Start has returned, *)
(* as at the end of a pcap file: a Stop at any moment from then on is the  *)
(* same as a signal at any moment.                                         *)
(* main's Stop is followed by those of the destructors, which find the     *)
(* pointers null and do nothing.                                           *)
(***************************************************************************)
EXTENDS LidarReceive

CONSTANT Timeouts     \* are recv_point_cloud_timeout and ptc_connect_timeout set?

ASSUME LifecycleAssumption == Timeouts \in BOOLEAN

VARIABLES
  late,               \* the time-out of the present wait of Lidar::Init is over
  init,               \* where the initialisation thread is
  init_finish_,       \* the milestones it has reported
  init_running,
  ptc,                \* where InitSetPtc is
  ptc_open,           \* ptc_client_->IsOpen()
  run,                \* where Run is; "none" if runing_thread_ptr_ is null
  is_thread_runing_,
  main                \* where the node's main is

initVars == <<late, init, init_finish_, init_running>>
ptcVars == <<ptc, ptc_open>>
runVars == <<run, is_thread_runing_>>
vars == <<receiveVars, initVars, ptcVars, runVars, main>>

\* NodeManager::Init has returned: there is a Lidar, and its initialisation
\* thread has been created.
Init ==
  /\ ReceiveInit
  /\ late = FALSE /\ init = "open" /\ init_finish_ = {} /\ init_running = TRUE
  /\ ptc = "none" /\ ptc_open = FALSE
  /\ run = "none" /\ is_thread_runing_ = FALSE
  /\ main = "start"

\* delete lidar_ptr_ has freed what the initialisation thread may still be using.
Deleted == main \in {"join init", "stopped"}

-----------------------------------------------------------------------------
\* Lidar::Init: the sources, SetThreadNum and the PTC client, or FailInit.
OpenSource ==
  /\ init = "open"
  /\ init' = "packets" /\ SetThreadNum
  /\ ptc' = IF source_type_ = "udp" THEN "polling" ELSE "none"
  /\ UNCHANGED <<origin, packet, is_timeout_, flags, late, init_finish_,
                 init_running, ptc_open, runVars, main>>

FailInit ==
  /\ init \in {"open", "no parser"}
  /\ init' = "done" /\ init_finish_' = init_finish_ \cup {"FailInit"}
  /\ UNCHANGED <<receiveVars, late, init_running, ptcVars, runVars, main>>

\* Mutant: a packet that comes is a packet, however late.
DecodedAtLast ==
  init' = CASE call'["init"] # Origin!NoCall -> "popping"
            [] returned'["init"] = "cloud"   -> "parser"
            [] OTHER                         -> "packets"

\* What follows GetOnePacket: too late is too late, even for a packet; the first
\* point cloud makes the parser.
Decoded ==
  init' = CASE call'["init"] # Origin!NoCall -> "popping"
            [] call'["init"] = Origin!NoCall /\ late -> "no parser"
            [] call'["init"] = Origin!NoCall /\ ~late /\ returned'["init"] = "cloud" -> "parser"
            [] OTHER -> "packets"

\* while (GetGeneralParser() == nullptr) GetOnePacket, DecodePacket
AwaitPacket ==
  /\ \/ init = "packets" /\ Origin!Attempt("init", [op |-> "try_pop_front"])
     \/ init = "popping" /\ (Origin!Resume("init") \/ Origin!GiveUp("init"))
  /\ Decoded
  /\ UNCHANGED <<receiver, flags, late, init_finish_, init_running, ptcVars,
                 runVars, main>>

\* "finish 0": fault messages may be received and parsed.
BasicReady ==
  /\ init = "parser"
  /\ source_fault_message_waiting_' = FALSE
  /\ init_finish_' = init_finish_ \cup {"FaultMessParse"}
  /\ init' = IF source_type_ = "udp" THEN "ptc" ELSE "load"
  /\ late' = FALSE
  /\ UNCHANGED <<origin, receiver, running_, source_type_, source_fault_message_,
                 init_running, ptcVars, runVars, main>>

\* The wait for the PTC connection; on a deleted lidar it may go either way.
AwaitPtc ==
  /\ init = "ptc" /\ (ptc_open \/ ~init_running \/ late \/ Deleted)
  /\ init' = "load"
  /\ UNCHANGED <<receiveVars, late, init_finish_, init_running, ptcVars,
                 runVars, main>>

\* Mutant: everything is said to be ready before InitThread has returned.
LoadAndFinish ==
  /\ init = "load"
  /\ init' = "loaded" /\ init_running' = FALSE
  /\ init_finish_' = init_finish_ \cup {"PointCloudParse", "AllInitFinish"}
  /\ UNCHANGED <<receiveVars, late, ptcVars, runVars, main>>

\* "finish 2": the corrections and firetimes, from the lidar or from a file.
LoadCorrection ==
  /\ init = "load"
  /\ init' = "loaded" /\ init_running' = FALSE
  /\ init_finish_' = init_finish_ \cup {"PointCloudParse"}
  /\ UNCHANGED <<receiveVars, late, ptcVars, runVars, main>>

\* InitThread: "finish 3".
SetAllFinishReady ==
  /\ init = "loaded"
  /\ init' = "done" /\ init_finish_' = init_finish_ \cup {"AllInitFinish"}
  /\ UNCHANGED <<receiveVars, late, init_running, ptcVars, runVars, main>>

InitStep ==
  OpenSource \/ FailInit \/ AwaitPacket \/ BasicReady \/ AwaitPtc
    \/ LoadCorrection \/ SetAllFinishReady

\* The clock: elapsed_seconds passes the time-out, if there is one.
Elapse ==
  /\ Timeouts /\ source_type_ = "udp" /\ ~late
  /\ init \in {"packets", "popping", "ptc"}
  /\ late' = TRUE
  /\ UNCHANGED <<receiveVars, init, init_finish_, init_running, ptcVars,
                 runVars, main>>

-----------------------------------------------------------------------------
\* The PTC client connects, if ever; later than this nobody asks it.
Connect ==
  /\ ptc = "polling" /\ ~ptc_open /\ init # "done"
  /\ ptc_open' = TRUE
  /\ UNCHANGED <<receiveVars, initVars, ptc, runVars, main>>

\* InitSetPtc, which polls both: it sets the lidar's mode and speed and leaves when
\* the client is open, and leaves when init_running is reset.
InitSetPtc ==
  /\ ptc = "polling" /\ (ptc_open \/ ~init_running)
  /\ ptc' = "exited"
  /\ UNCHANGED <<receiveVars, initVars, ptc_open, runVars, main>>

-----------------------------------------------------------------------------
\* HesaiLidarSdk::Run, as far as the decision to parse a point cloud; what it
\* does then is LidarPipeline.
RunBegin ==
  /\ run = "created"
  /\ run' = "loop" /\ is_thread_runing_' = TRUE
  /\ UNCHANGED <<receiveVars, initVars, ptcVars, main>>

RunExit ==
  /\ run = "loop" /\ ~is_thread_runing_
  /\ run' = "exited"
  /\ UNCHANGED <<receiveVars, initVars, ptcVars, is_thread_runing_, main>>

\* Fault messages are parsed in any case, point clouds only after "finish 3".
RunNext ==
  /\ run' = CASE call'["run"] # Origin!NoCall -> "popping"
              [] call'["run"] = Origin!NoCall /\ returned'["run"] \in {"cloud", "timeout"}
                   /\ "AllInitFinish" \in init_finish_ -> "decode"
              [] OTHER -> "loop"
  /\ UNCHANGED <<receiver, flags, initVars, ptcVars, is_thread_runing_, main>>

GetOnePacket ==
  \/ /\ run = "loop" /\ is_thread_runing_
     /\ Origin!Attempt("run", [op |-> "try_pop_front"])
     /\ RunNext
  \/ /\ run = "popping"
     /\ (Origin!Resume("run") \/ Origin!GiveUp("run"))
     /\ RunNext

DecodePacket ==
  /\ run = "decode"
  /\ run' = "loop"
  /\ UNCHANGED <<receiveVars, initVars, ptcVars, is_thread_runing_, main>>

RunStep == RunBegin \/ RunExit \/ GetOnePacket \/ DecodePacket

\* Start: Run begins once fault messages can be parsed, if the source is a lidar
\* on udp, and else once everything can.
MayStart ==
  \/ source_type_ = "udp" /\ "FaultMessParse" \in init_finish_
  \/ "AllInitFinish" \in init_finish_

Start ==
  /\ main = "start"
  /\ \/ MayStart /\ run' = "created"
     \/ "FailInit" \in init_finish_ /\ UNCHANGED run
  /\ main' = "serving"
  /\ UNCHANGED <<receiveVars, initVars, ptcVars, is_thread_runing_>>

\* Stop, when sig_recv is seen: runing_thread_ptr_ first, if there is one.
Stop ==
  /\ main = "serving"
  /\ IF run # "none"
       THEN main' = "join run" /\ is_thread_runing_' = FALSE
            /\ UNCHANGED <<running_, init_running>>
       ELSE main' = "delete" /\ running_' = FALSE /\ init_running' = FALSE
            /\ UNCHANGED is_thread_runing_
  /\ UNCHANGED <<origin, receiver, source_fault_message_, source_fault_message_waiting_,
                 source_type_, late, init, init_finish_, ptcVars, run>>

\* delete lidar_ptr_: the flags of ~Lidar ...
JoinRun ==
  /\ main = "join run" /\ run = "exited"
  /\ main' = "delete" /\ running_' = FALSE /\ init_running' = FALSE
  /\ UNCHANGED <<origin, receiver, source_fault_message_, source_fault_message_waiting_,
                 source_type_, late, init, init_finish_, ptcVars, runVars>>

\* Mutant: ~Lidar forgets init_set_ptc_ptr_.
JoinReceivers ==
  /\ main = "delete" /\ \A r \in Receivers : pc[r] \in {"none", "exited"}
  /\ main' = "join init"
  /\ UNCHANGED <<receiveVars, initVars, ptcVars, runVars>>

\* ... and its joins, which the initialisation thread is not among.
JoinAll ==
  /\ main = "delete"
  /\ ptc \in {"none", "exited"} /\ \A r \in Receivers : pc[r] \in {"none", "exited"}
  /\ main' = "join init"
  /\ UNCHANGED <<receiveVars, initVars, ptcVars, runVars>>

JoinInit ==
  /\ main = "join init" /\ init = "done"
  /\ main' = "stopped"
  /\ UNCHANGED <<receiveVars, initVars, ptcVars, runVars>>

MainStep == Start \/ JoinRun \/ JoinAll \/ JoinInit

-----------------------------------------------------------------------------
lifeVars == <<initVars, ptcVars, runVars, main>>

Arrival(r) == Receive(r) /\ UNCHANGED lifeVars

Receiving(r) == ReceiverStep(r) /\ UNCHANGED lifeVars

\* wait_for ends.  (That a condition variable may wake a thread for no reason is
\* BlockingRing's to check: it looks at its predicate and waits again.)
PopTimeout(t) ==
  Origin!Timeout(t) /\ UNCHANGED <<receiver, flags, lifeVars>>

Next ==
  \/ InitStep \/ Elapse \/ Connect \/ InitSetPtc \/ RunStep \/ Stop \/ MainStep
  \/ \E r \in Receivers : Arrival(r) \/ Receiving(r)
  \/ \E t \in Consumers : PopTimeout(t)

Spec == Init /\ [][Next]_vars

\* Every thread is scheduled, time passes, and select and wait_for return; that
\* the initialisation thread comes to its end is claimed only while there is a
\* lidar for it to run on.  Nobody is obliged to press Ctrl-C, the lidar to send
\* anything, nor the PTC client to connect.
FairSpec ==
  /\ Spec
  /\ \A r \in Receivers : WF_vars(Receiving(r))
  /\ WF_vars((InitStep \/ PopTimeout("init")) /\ ~Deleted) /\ WF_vars(Elapse)
  /\ WF_vars(RunStep \/ PopTimeout("run"))
  /\ WF_vars(InitSetPtc) /\ WF_vars(MainStep)

-----------------------------------------------------------------------------
Milestones == {"FaultMessParse", "PointCloudParse", "AllInitFinish", "FailInit"}

TypeOK ==
  /\ Origin!TypeOK
  /\ pc \in [Receivers -> {"none", "receive", "store", "storing", "exited"}]
  /\ \A r \in Receivers : pc[r] = "storing" <=> call[r] # Origin!NoCall
  /\ packet \in [Receivers -> Items \cup {NoItem}]
  /\ {is_timeout_, source_fault_message_, source_fault_message_waiting_, running_,
      late, init_running, ptc_open, is_thread_runing_} \subseteq BOOLEAN
  /\ source_type_ \in {"udp", "pcap"}
  /\ init \in {"open", "packets", "popping", "no parser", "parser", "ptc", "load", "loaded", "done"}
  /\ init_finish_ \subseteq Milestones
  /\ ptc \in {"none", "polling", "exited"}
  /\ run \in {"none", "created", "loop", "popping", "decode", "exited"}
  /\ main \in {"start", "serving", "join run", "delete", "join init", "stopped"}

\* Handover: the packets go from the initialisation thread to Run: Run takes none
\* as long as the other looks for its first, and parses no point cloud before
\* the other is done with the parser ("Wait for initialization to complete
\* before starting to parse the point cloud", hesai_lidar_sdk.hpp:261).
Handover ==
  /\ run # "none" => init \in {"ptc", "load", "loaded", "done"}
  /\ run = "decode" => init = "done"

\* DeletedUnused: when Stop has deleted the lidar no thread uses it, but for the
\* initialisation thread of a lidar on udp, which Start does not wait for and
\* Stop joins only afterwards.
DeletedUnused ==
  Deleted =>
    /\ run \in {"none", "exited"} /\ ptc \in {"none", "exited"}
    /\ \A r \in Receivers : pc[r] \in {"none", "exited"}
    /\ init = "done" \/ (source_type_ = "udp" /\ init \in {"ptc", "load", "loaded"})

\* StartReturns: with time-outs, Start comes back whatever the lidar does (for a
\* file none can be configured, and the file may hold no point cloud).
StartReturns == (Timeouts /\ source_type_ = "udp") ~> main # "start"

\* StopCompletes: Stop ends every thread and returns, if Run had begun, the
\* initialisation was over, and the udp receiver is alone.
StopCompletes ==
  (/\ ~source_fault_message_ /\ init = "done"
   /\ main \in {"join run", "delete"} /\ run # "created" /\ ~is_thread_runing_)
     ~> main = "stopped"

\* ReceiveExits: "Receive udp data thread, this function will Receive udp data
\* in while(),exit when variable running_ is false" (lidar.h:167).
ReceiveExits == ~running_ ~> \A r \in Receivers : pc[r] \in {"none", "exited"}

\* StopEndsRun: "stop process thread" (hesai_lidar_sdk.hpp:179): Run does not
\* outlive a call of Stop.
StopEndsRun == main = "join run" ~> run = "exited"

=============================================================================
