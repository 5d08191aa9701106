-------------------------- MODULE MCLidarPipeline --------------------------
(***************************************************************************)
(* Three parts of the lidar driver for TLC, in casts of one run: from      *)
(* packets to frames (LidarPipeline), where frames begin and what was lost *)
(* (FrameSplit), and the control connection (PtcClient).  In a cast the    *)
(* other two parts are at rest.                                            *)
(***************************************************************************)
EXTENDS LidarPipeline

CONSTANTS
  Casts,
  Circle, Gaps, MaxFramePackets, RotationLimit, RotationShare, SeqRange,
  MaxSent, MaxLost, MaxRepeated, MaxOvertaken,
  MaxReopened, MaxBroken

VARIABLES cast

\* Of FrameSplit.
VARIABLES
  frame_start_azimuth_uint16_, direction, sent, position, held, packet, scan_complete,
  last_azimuth_, last_last_azimuth_, rotation_flag, frame_packet_num, frame_packet_index,
  seqnum, seen, at, before, turns, begun, newest, accepted, faults

\* Of PtcClient.
VARIABLES
  program, next, pc, rx, result, opener, InitOpen, lidar_ip_, ptc_connect_timeout_, _mutex,
  m_bLidarConnected, timed, orders, stream, broken, executed, opened, hung,
  init_running, correction, ptc_main

\* The default, and an azimuth for which turns begin elsewhere.
FrameAzimuths == {-1, 4}

S == INSTANCE FrameSplit
  WITH MaxPackets <- MaxFramePackets,
       packet_num <- frame_packet_num, packet_index <- frame_packet_index

\* The proofs of FrameSplit assume no more than this lidar does, ...
ASSUME LidarTurnsOn == S!SplitAssumption /\ S!CountAssumption /\ S!DirectionAssumption

\* A lidar whose settings are configured, and one whose PTP state is published.
Programs ==
  {[init |-> <<"calibration">>, set |-> <<"standby", "speed">>, run |-> <<>>],
   [init |-> <<"calibration">>, set |-> <<>>, run |-> <<"ptp", "offset", "ptp">>]}

P == INSTANCE PtcClient WITH main <- ptc_main

\* ... and those of PtcClient no more than what is asked of it.
ASSUME SettingsOnce == P!PtcAssumption

splitVars ==
  <<frame_start_azimuth_uint16_, direction, sent, position, held, packet, scan_complete,
    last_azimuth_, last_last_azimuth_, rotation_flag, frame_packet_num, frame_packet_index,
    seqnum, seen, at, before, turns, begun, newest, accepted, faults>>
ptcVars ==
  <<program, next, pc, rx, result, opener, InitOpen, lidar_ip_, ptc_connect_timeout_, _mutex,
    m_bLidarConnected, timed, orders, stream, broken, executed, opened, hung,
    init_running, correction, ptc_main>>

-----------------------------------------------------------------------------
PipelineRests ==
  /\ handle_thread_count_ = 1
  /\ run = "exited" /\ main = "deleted" /\ is_thread_runing_ = FALSE /\ running_ = FALSE
  /\ packet_index = 0 /\ packet_num = 0 /\ raw = {} /\ points = {}
  /\ compute_packet_num = 0
  /\ decoded = <<>> /\ parser = NoJob /\ nUDPCount = 0
  /\ handle = [h \in Handlers |-> <<>>]
  /\ job = [h \in Handlers |-> NoJob] /\ handler = [h \in Handlers |-> "exited"]

SplitRests ==
  /\ frame_start_azimuth_uint16_ = 0 /\ direction = 1
  /\ sent = 0 /\ position = [turn |-> 0, offset |-> 0] /\ held = S!None
  /\ packet = S!None /\ scan_complete = FALSE
  /\ last_azimuth_ = 0 /\ last_last_azimuth_ = 0 /\ rotation_flag = 0
  /\ frame_packet_num = 0 /\ frame_packet_index = 0
  /\ seqnum = [is_init |-> FALSE, last_seqnum |-> 0, total_packet_count |-> 0,
               total_loss_count |-> 0]
  /\ seen = 0 /\ at = S!Where(S!None) /\ before = S!Where(S!None)
  /\ turns = {} /\ begun = FALSE /\ newest = 0 /\ accepted = 0
  /\ faults = [lost |-> 0, repeated |-> 0, overtaken |-> 0]

PtcRests ==
  /\ program = [u \in P!Users |-> <<>>] /\ next = [u \in P!Users |-> 1]
  /\ pc = [u \in P!Users |-> "done"]
  /\ rx = [u \in P!Users |-> P!NoRx] /\ result = [u \in P!Users |-> P!NoResult]
  /\ opener = "exited" /\ InitOpen = FALSE /\ lidar_ip_ = FALSE
  /\ ptc_connect_timeout_ = FALSE
  /\ _mutex = "none" /\ m_bLidarConnected = FALSE /\ timed = FALSE
  /\ orders = <<>> /\ stream = <<>> /\ broken = FALSE /\ executed = {}
  /\ opened = 0 /\ hung = 0
  /\ init_running = FALSE /\ correction = "file" /\ ptc_main = "deleted"

MCInit ==
  /\ cast \in Casts
  /\ IF cast = "pipeline" THEN Init ELSE PipelineRests
  /\ IF cast = "split" THEN S!Init ELSE SplitRests
  /\ IF cast = "ptc" THEN P!Init ELSE PtcRests

MCNext ==
  /\ \/ cast = "pipeline" /\ Next /\ UNCHANGED <<splitVars, ptcVars>>
     \/ cast = "split" /\ S!Next /\ UNCHANGED <<vars, ptcVars>>
     \/ cast = "ptc" /\ P!Next /\ UNCHANGED <<vars, splitVars>>
  /\ UNCHANGED cast

MCSpec == MCInit /\ [][MCNext]_<<cast, vars, splitVars, ptcVars>> /\ Fairness /\ P!Fairness

-----------------------------------------------------------------------------
\* TypesOK: the variables of the part in the cast have their types.
TypesOK ==
  /\ TypeOK
  /\ cast = "split" => S!TypeOK
  /\ cast = "ptc" => P!TypeOK

\* SplitExact: a frame begins exactly where the lidar passes the frame's azimuth.
SplitExact == S!SplitExact

\* OneTurn: a frame that began in order has packets of one turn.
OneTurn == S!OneTurn

\* DirectionLearnt: the direction of rotation is known after a few packets.
DirectionLearnt == cast = "split" => S!DirectionLearnt

\* IndexMatches: the packets Run has queued are those decoded into the frame.
IndexMatches == S!IndexMatches

\* LossExact: the losses published are those that happened.
LossExact == S!LossExact

\* AnswerTrue: an answer that is taken is one whole answer to such a query.
AnswerTrue == P!AnswerTrue

\* QueryReturns: queries return and Stop ends, unless recv has no time-out.
QueryReturns == P!QueryReturns

=============================================================================
