--------------------------- MODULE LidarPipeline ---------------------------
(***************************************************************************)
(* From packets to frames: HesaiLidarSdk::Run decodes packets into the     *)
(* slots of a frame and queues their indices, ParserThread hands them to   *)
(* the HandleThreads, which compute the points and count; when the next    *)
(* frame begins Run waits until the count is the number of packets, and    *)
(* publishes.  Then Stop and ~Lidar end the threads.                       *)
(*                                                                         *)
(* Data is fresh, of the frame under way, or not: raw and points are the   *)
(* slots that hold fresh data.  decoded_packets_buffer_ is a bounded       *)
(* buffer, which BlockingRing implements.                                  *)
(***************************************************************************)
EXTENDS Integers, Sequences, FiniteSets

CONSTANTS
  MaxPackets,   \* maxPacketPerFrame
  MaxHandlers,  \* what SetThreadNum allows: the processors less two
  BufferSize,   \* kPacketBufferSize: of the ring and of a handler's list
  Overflowing,  \* may a frame have more packets than there is room for?
  SleepCovers   \* 100 us are enough for what is being computed to be done

ASSUME PipelineAssumption ==
  /\ MaxPackets \in Nat \ {0, 1} /\ MaxHandlers \in Nat \ {0} /\ BufferSize \in Nat \ {0}
  /\ Overflowing \in BOOLEAN /\ SleepCovers \in BOOLEAN

Handlers == 0 .. MaxHandlers - 1
Slots == 0 .. MaxPackets - 1

NoJob == [slot |-> -1, fresh |-> FALSE]
Jobs == [slot : Slots, fresh : BOOLEAN]

VARIABLES
  handle_thread_count_,
  run,                \* where Run is
  packet_index,       \* of Run: packets queued in this frame
  packet_num,         \* of the frame: packets decoded into it
  raw, points,        \* slots with fresh packets, and with points computed of them
  compute_packet_num, \* packets computed
  decoded,            \* decoded_packets_buffer_
  parser,             \* what ParserThread has popped
  nUDPCount,          \* the handler whose turn it is
  handle,             \* handle_thread_packet_buffer_
  job,                \* what each handler is computing
  handler,            \* where each handler is
  is_thread_runing_, running_,
  main                \* where Stop is

frame == <<packet_index, packet_num, raw, points, compute_packet_num>>
queues == <<decoded, parser, nUDPCount, handle, job, handler>>
flags == <<handle_thread_count_, is_thread_runing_, running_, main>>
vars == <<run, frame, queues, flags>>

\* With less than two handlers there is none.
Started == IF handle_thread_count_ < 2 THEN {} ELSE 0 .. handle_thread_count_ - 1

Init ==
  /\ handle_thread_count_ \in 1 .. MaxHandlers
  /\ run = "loop"
  /\ packet_index = 0 /\ packet_num = 0 /\ raw = {} /\ points = {}
  /\ compute_packet_num = 0
  /\ decoded = <<>> /\ parser = NoJob /\ nUDPCount = 0
  /\ handle = [h \in Handlers |-> <<>>]
  /\ job = [h \in Handlers |-> NoJob]
  /\ handler = [h \in Handlers |-> IF h \in Started THEN "test" ELSE "exited"]
  /\ is_thread_runing_ = TRUE /\ running_ = TRUE /\ main = "serving"

\* Indices on their way from Run to the count, wherever they are.
Computing(jobs) == {h \in Handlers : jobs[h] # NoJob}
Listed(lists) == {e \in Handlers \X (1 .. BufferSize) : e[2] <= Len(lists[e[1]])}
Pending ==
  Len(decoded) + (IF parser = NoJob THEN 0 ELSE 1)
  + Cardinality(Computing(job)) + Cardinality(Listed(handle))

-----------------------------------------------------------------------------
\* Run.  A packet of the frame under way is decoded into the next slot ...
DecodeMore ==
  /\ run = "loop" /\ is_thread_runing_
  /\ Overflowing \/ packet_index < MaxPackets - 1
  /\ raw' = raw \cup {packet_num} /\ packet_num' = packet_num + 1
  /\ run' = "queue"
  /\ UNCHANGED <<packet_index, points, compute_packet_num, queues, flags>>

\* ... and its index is queued.  A frame with no room left is given up.
Queue ==
  /\ run = "queue" /\ Len(decoded) < BufferSize
  /\ decoded' = Append(decoded, packet_index) /\ packet_index' = packet_index + 1
  /\ run' = IF packet_index' >= MaxPackets THEN "clear" ELSE "loop"
  /\ UNCHANGED <<packet_num, raw, points, compute_packet_num,
                 parser, nUDPCount, handle, job, handler, flags>>

\* The packet begins a new frame: scan_complete.
Split ==
  /\ run = "loop" /\ is_thread_runing_
  /\ run' = "complete?"
  /\ UNCHANGED <<frame, queues, flags>>

\* Mutant: all but the last are enough.
CompleteEarly ==
  /\ run = "complete?" /\ compute_packet_num + 1 >= packet_index
  /\ run' = "complete"
  /\ UNCHANGED <<frame, queues, flags>>

\* ComputeXYZIComplete: the count is tested, and then set to zero.
Complete ==
  /\ run = "complete?" /\ compute_packet_num = packet_index
  /\ run' = "complete"
  /\ UNCHANGED <<frame, queues, flags>>

\* Mutant: the count goes on from one frame to the next.
KeepCount ==
  /\ run = "complete" /\ run' = "publish"
  /\ UNCHANGED <<frame, queues, flags>>

ZeroCount ==
  /\ run = "complete" /\ run' = "publish" /\ compute_packet_num' = 0
  /\ UNCHANGED <<packet_index, packet_num, raw, points, queues, flags>>

\* What was fresh is of the last frame once a new one begins.
Stale(j) == [slot |-> j.slot, fresh |-> FALSE]
Age == parser' = Stale(parser) /\ job' = [h \in Handlers |-> Stale(job[h])]

\* The frame is published, and the packet decoded again as the first of the next.
Publish ==
  /\ run = "publish" /\ run' = "queue"
  /\ packet_index' = 0 /\ packet_num' = 1 /\ raw' = {0} /\ points' = {} /\ Age
  /\ UNCHANGED <<compute_packet_num, decoded, nUDPCount, handle, handler, flags>>

\* "fail to start a new frame": ClearPacketBuffer drops what is queued, ...
ClearPacketBuffer ==
  /\ run = "clear" /\ run' = "sleep"
  /\ packet_index' = 0
  /\ decoded' = <<>> /\ handle' = [h \in Handlers |-> <<>>]
  /\ UNCHANGED <<packet_num, raw, points, compute_packet_num,
                 parser, nUDPCount, job, handler, flags>>

\* ... what is being computed has 100 us, ...
Update ==
  /\ run = "sleep" /\ (SleepCovers => Pending = 0)
  /\ run' = "zero"
  /\ packet_num' = 0 /\ raw' = {} /\ points' = {} /\ Age
  /\ UNCHANGED <<packet_index, compute_packet_num, decoded, nUDPCount, handle,
                 handler, flags>>

\* Mutant: the count of the frame given up is kept.
RezeroNothing == run = "zero" /\ run' = "loop" /\ UNCHANGED <<frame, queues, flags>>

\* ... and SetComputePacketNumToZero.
Rezero ==
  /\ run = "zero" /\ run' = "loop" /\ compute_packet_num' = 0
  /\ UNCHANGED <<packet_index, packet_num, raw, points, queues, flags>>

RunExit ==
  /\ run = "loop" /\ ~is_thread_runing_ /\ run' = "exited"
  /\ UNCHANGED <<frame, queues, flags>>

\* A lidar need not send anything, but what Run has begun it goes on with.
RunWorks ==
  Queue \/ Complete \/ ZeroCount \/ Publish \/ ClearPacketBuffer \/ Update \/ Rezero
  \/ RunExit
RunStep == DecodeMore \/ Split \/ RunWorks

-----------------------------------------------------------------------------
\* ComputeXYZI(slot) reads the packet at some moment between its beginning,
\* when it was fresh or not, and its end, and counts (FrameNumAdd).
Compute(j) ==
  /\ \E fresh \in {j.fresh, j.slot \in raw} :
       points' = IF fresh THEN points \cup {j.slot} ELSE points \ {j.slot}
  /\ compute_packet_num' = compute_packet_num + 1

Job(slot) == [slot |-> slot, fresh |-> slot \in raw]

ParserPop ==
  /\ running_ /\ parser = NoJob /\ decoded # <<>>
  /\ parser' = Job(Head(decoded)) /\ decoded' = Tail(decoded)
  /\ UNCHANGED <<run, frame, nUDPCount, handle, job, handler, flags>>

\* With less than two handlers ParserThread computes by itself.
ParserCompute ==
  /\ Started = {} /\ parser # NoJob /\ Compute(parser)
  /\ parser' = NoJob
  /\ UNCHANGED <<run, packet_index, packet_num, raw, decoded, nUDPCount, handle, job,
                 handler, flags>>

\* The handlers take turns.  A list that overflows loses its oldest index.
\* A handler about to wait still has its mutex.
Dispatch(h) ==
  /\ h \in Started /\ h = nUDPCount /\ parser # NoJob /\ handler[h] # "about to wait"
  /\ LET list == Append(handle[h], parser.slot)
     IN  handle' = [handle EXCEPT ![h] = IF Len(list) > BufferSize THEN Tail(list) ELSE list]
  /\ handler' = [handler EXCEPT ![h] = IF @ = "waits" THEN "test" ELSE @]
  /\ parser' = NoJob /\ nUDPCount' = (nUDPCount + 1) % handle_thread_count_
  /\ UNCHANGED <<run, frame, decoded, job, flags>>

-----------------------------------------------------------------------------
\* HandleThread(h): the predicate of condition_vars_[h].wait, and what follows.
HandlerTest(h) ==
  /\ handler[h] = "test"
  /\ IF ~running_
       THEN handler' = [handler EXCEPT ![h] = "exited"] /\ UNCHANGED <<handle, job>>
     ELSE IF handle[h] # <<>>
       THEN /\ job' = [job EXCEPT ![h] = Job(Head(handle[h]))]
            /\ handle' = [handle EXCEPT ![h] = Tail(@)]
            /\ handler' = [handler EXCEPT ![h] = "computes"]
       ELSE handler' = [handler EXCEPT ![h] = "about to wait"] /\ UNCHANGED <<handle, job>>
  /\ UNCHANGED <<run, frame, decoded, parser, nUDPCount, flags>>

\* The mutex is released and the thread waits, in one step.
HandlerWait(h) ==
  /\ handler[h] = "about to wait"
  /\ handler' = [handler EXCEPT ![h] = "waits"]
  /\ UNCHANGED <<run, frame, decoded, parser, nUDPCount, handle, job, flags>>

HandlerCompute(h) ==
  /\ handler[h] = "computes" /\ Compute(job[h])
  /\ job' = [job EXCEPT ![h] = NoJob]
  /\ handler' = [handler EXCEPT ![h] = "test"]
  /\ UNCHANGED <<run, packet_index, packet_num, raw, decoded, parser, nUDPCount, handle,
                 flags>>

HandlerStep(h) == HandlerTest(h) \/ HandlerWait(h) \/ HandlerCompute(h)
ParserStep == ParserPop \/ ParserCompute \/ \E h \in Handlers : Dispatch(h)

-----------------------------------------------------------------------------
\* Stop: Run first; then ~Lidar: running_, the parser, and each handler in turn.
StopBegin ==
  /\ main = "serving"
  /\ main' = "join run" /\ is_thread_runing_' = FALSE
  /\ UNCHANGED <<run, frame, queues, handle_thread_count_, running_>>

JoinRun ==
  /\ main = "join run" /\ run = "exited"
  /\ main' = "join parser" /\ running_' = FALSE
  /\ UNCHANGED <<run, frame, queues, handle_thread_count_, is_thread_runing_>>

\* ParserThread leaves at the head of its loop.
JoinParser ==
  /\ main = "join parser" /\ parser = NoJob
  /\ main' = "notify"
  /\ UNCHANGED <<run, frame, queues, handle_thread_count_, is_thread_runing_, running_>>

\* Mutant: the destructor joins without notifying.
NotifyNobody ==
  /\ main = "notify" /\ main' = "join handlers"
  /\ UNCHANGED <<run, frame, queues, handle_thread_count_, is_thread_runing_, running_>>

\* condition_vars_[i].notify_all(), without the mutex.
NotifyHandlers ==
  /\ main = "notify" /\ main' = "join handlers"
  /\ handler' = [h \in Handlers |-> IF handler[h] = "waits" THEN "test" ELSE handler[h]]
  /\ UNCHANGED <<run, frame, decoded, parser, nUDPCount, handle, job,
                 handle_thread_count_, is_thread_runing_, running_>>

JoinHandlers ==
  /\ main = "join handlers" /\ \A h \in Handlers : handler[h] = "exited"
  /\ main' = "deleted"
  /\ UNCHANGED <<run, frame, queues, handle_thread_count_, is_thread_runing_, running_>>

MainStep == JoinRun \/ JoinParser \/ NotifyHandlers \/ JoinHandlers

Next == RunStep \/ ParserStep \/ (\E h \in Handlers : HandlerStep(h)) \/ StopBegin \/ MainStep

Spec == Init /\ [][Next]_vars

\* Every thread is scheduled; nothing obliges the lidar to send, or anyone to
\* call Stop.
Fairness ==
  /\ WF_vars(RunWorks) /\ WF_vars(ParserStep) /\ WF_vars(MainStep)
  /\ \A h \in Handlers : WF_vars(HandlerStep(h))

-----------------------------------------------------------------------------
FrameTypes ==
  /\ packet_index \in 0 .. MaxPackets /\ packet_num \in 0 .. MaxPackets
  /\ raw \subseteq Slots /\ points \subseteq Slots
  /\ compute_packet_num \in Nat
ListTypes ==
  /\ decoded \in Seq(Slots) /\ Len(decoded) <= BufferSize
  /\ handle \in [Handlers -> Seq(Slots)]
  /\ \A h \in Handlers : Len(handle[h]) <= BufferSize
JobTypes ==
  /\ parser \in Jobs \cup {NoJob}
  /\ job \in [Handlers -> Jobs \cup {NoJob}]
  /\ handler \in [Handlers -> {"test", "about to wait", "waits", "computes", "exited"}]
  /\ \A h \in Handlers : handler[h] = "computes" <=> job[h] # NoJob
FlagTypes ==
  /\ handle_thread_count_ \in 1 .. MaxHandlers
  /\ run \in {"loop", "queue", "complete?", "complete", "publish", "clear", "sleep",
              "zero", "exited"}
  /\ is_thread_runing_ \in BOOLEAN /\ running_ \in BOOLEAN
  /\ main \in {"serving", "join run", "join parser", "notify", "join handlers", "deleted"}

TypeOK == FrameTypes /\ ListTypes /\ JobTypes /\ FlagTypes

\* Accounting: every index that Run has queued in this frame is computed or on
\* its way, exactly once: the count can reach packet_index and not pass it.
Accounting ==
  run \in {"loop", "queue", "complete?"} =>
    packet_index = compute_packet_num + Pending

\* CompleteMeansParsed: ComputeXYZIComplete: "Determine whether all pointxyzi
\* info is parsed in this frame" (lidar.h:116): what is published are the points
\* of this frame, all of them, and nobody writes to them any more.
CompleteMeansParsed ==
  run \in {"complete", "publish"} /\ packet_num > 0 =>
    0 .. packet_num - 1 \subseteq points /\ Pending = 0

\* FrameCompletes: "waiting for parser thread compute xyzi of points in the same
\* frame" (Run): the wait, which no flag ends, comes to an end.
FrameCompletes == run = "complete?" ~> run = "publish"

\* HandlersExit: a handler that is between its test and its wait when ~Lidar
\* notifies misses it, since ~Lidar does not take its mutex; if none is, all end.
HandlersExit ==
  (main = "notify" /\ \A h \in Handlers : handler[h] # "about to wait")
    ~> main = "deleted"

=============================================================================
