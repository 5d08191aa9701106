------------------------ MODULE SdkLifecycle_proofs ------------------------
(***************************************************************************)
(* Proofs about LidarReceive and SdkLifecycle, which stand on those about  *)
(* the ring that the receivers fill and the consumers empty.               *)
(***************************************************************************)
EXTENDS SdkLifecycle, SequenceTheorems, TLAPS

\* The ring again, with what is proved about it; of the logger, which that module
\* treats as well, there is nothing here.
Queue == INSTANCE BlockingRing_proofs
  WITH Item <- Items, Pushers <- Receivers, TimedPoppers <- Consumers,
       Poppers <- {}, Clearers <- {}, Driver <- Consumers, cast <- {},
       Lidars <- {}, MaxLines <- 0, lidar <- <<>>, log_Target <- <<>>,
       log_target_rule_ <- FALSE, fp_ <- FALSE, running_ <- FALSE, exit_ <- FALSE,
       mutex_running <- "free", thread <- "none", queue_ <- <<>>, file <- <<>>,
       logged <- 0, owed <- 0, missed <- FALSE

\* The calls of try_pop_front and emplace_back.
Pop == [op |-> "try_pop_front"]
Push(p) == [op |-> "push_back", item |-> p]

-----------------------------------------------------------------------------
\* The inductive invariant.

\* The ring is well kept, each thread is in the call that its place in its loop
\* says, and what a receiver is about to store is something it has received.
QueueInv ==
  /\ Queue!RingInv
  /\ call["init"] = IF init = "popping" THEN Pop ELSE Queue!NoCall
  /\ call["run"] = IF run = "popping" THEN Pop ELSE Queue!NoCall
  /\ \A r \in Receivers : call[r] = IF pc[r] = "storing" THEN Push(packet[r]) ELSE Queue!NoCall
  /\ \A r \in Receivers : pc[r] \in {"store", "storing"} => packet[r] \in Items
  /\ pc["fault"] \in {"store", "storing"} => packet["fault"] = "fault"

\* The part of TypeOK that is not about the ring.
ReceiverTypes ==
  /\ pc \in [Receivers -> {"none", "receive", "store", "storing", "exited"}]
  /\ packet \in [Receivers -> Items \cup {NoItem}]
  /\ is_timeout_ \in BOOLEAN /\ source_fault_message_ \in BOOLEAN
  /\ source_fault_message_waiting_ \in BOOLEAN /\ running_ \in BOOLEAN
  /\ source_type_ \in {"udp", "pcap"}

\* The flags and the places of the other threads.
LifeFlags ==
  /\ late \in BOOLEAN /\ init_running \in BOOLEAN
  /\ ptc_open \in BOOLEAN /\ is_thread_runing_ \in BOOLEAN

LifePlaces ==
  /\ init \in {"open", "packets", "popping", "no parser", "parser", "ptc", "load", "loaded", "done"}
  /\ init_finish_ \subseteq Milestones
  /\ ptc \in {"none", "polling", "exited"}
  /\ run \in {"none", "created", "loop", "popping", "decode", "exited"}
  /\ main \in {"start", "serving", "join run", "delete", "join init", "stopped"}

LifeTypes == LifeFlags /\ LifePlaces

\* The milestones say how far the initialisation thread is, and who has waited
\* for one has it behind him for good.
Underway == {"ptc", "load", "loaded", "done"}

MilestoneInv ==
  /\ init = "open" => \A r \in Receivers : pc[r] = "none"
  /\ "FaultMessParse" \in init_finish_ => init \in Underway
  /\ "AllInitFinish" \in init_finish_ => init = "done"
  /\ "FailInit" \in init_finish_ => init = "done"
  /\ run # "none" => init \in Underway
  /\ run = "decode" => init = "done"
  /\ main # "start" => init = "done" \/ (source_type_ = "udp" /\ init \in Underway)

\* Start creates Run, and Stop joins it and then the others.
JoinedInv ==
  /\ main = "start" => run = "none"
  /\ main \in {"delete", "join init", "stopped"} => run \in {"none", "exited"}
  /\ Deleted => /\ ptc \in {"none", "exited"}
                /\ \A r \in Receivers : pc[r] \in {"none", "exited"}

\* Where there is one receiver, the room it has seen is still there when it
\* stores: the others only make more.
RoomInv ==
  ~source_fault_message_ =>
    /\ pc["fault"] = "none" /\ pc["udp"] # "storing"
    /\ pc["udp"] = "store" => ~Queue!IsFull(ring)

\* Between two time-outs in c there is a point cloud, ...
Apart(c) ==
  \A i, j \in 1 .. Len(c) :
    i < j /\ c[i] = "timeout" /\ c[j] = "timeout" => \E k \in i .. j : c[k] = "cloud"

\* ... and after every time-out in c.
Ended(c) ==
  \A i \in 1 .. Len(c) : c[i] = "timeout" => \E k \in i .. Len(c) : c[k] = "cloud"

\* While is_timeout_ is unset, every silence in the buffer has come to its end; and
\* only then is a time-out on its way there.
SilenceInv ==
  /\ Apart(Queue!Contents(ring))
  /\ ~is_timeout_ => Ended(Queue!Contents(ring))
  /\ pc["udp"] \in {"store", "storing"} /\ packet["udp"] = "timeout" => ~is_timeout_

LifeInv ==
  QueueInv /\ ReceiverTypes /\ LifeTypes /\ MilestoneInv /\ JoinedInv /\ RoomInv /\ SilenceInv

-----------------------------------------------------------------------------
\* The consumers use it.
LEMMA QueueCast == Consumers \subseteq Queue!Threads /\ "free" \notin {}
  BY DEF Queue!Threads

\* The ring of LidarReceive is that ring.
LEMMA SameRing ==
  /\ \A r, i : Origin!EmplaceBack(r, i) = Queue!EmplaceBack(r, i)
  /\ \A r : Origin!IsFull(r) <=> Queue!IsFull(r)
  /\ \A r : Origin!Contents(r) = Queue!Contents(r)
  /\ Origin!NoCall = Queue!NoCall
<1>1. \A r, i : Origin!EmplaceBack(r, i) = Queue!EmplaceBack(r, i)
  BY Zenon DEF Origin!EmplaceBack, Queue!EmplaceBack, Origin!Slot, Queue!Slot
<1>2. \A r : Origin!IsFull(r) <=> Queue!IsFull(r)
  BY DEF Origin!IsFull, Queue!IsFull
<1>3. \A r : Origin!Contents(r) = Queue!Contents(r)
  BY DEF Origin!Contents, Queue!Contents, Origin!Slot, Queue!Slot
<1> QED
  BY <1>1, <1>2, <1>3 DEF Origin!NoCall, Queue!NoCall

\* So is its type.
LEMMA SameTypes == Origin!TypeOK <=> Queue!TypeOK
  BY DEF Origin!TypeOK, Queue!TypeOK, Origin!Rings, Queue!Rings, Origin!NoCall,
         Queue!NoCall, Origin!Calls, Queue!Calls, Origin!Threads, Queue!Threads

\* So are the steps of its methods.
LEMMA SameSteps ==
  /\ \A t, c : Origin!Attempt(t, c) <=> Queue!Attempt(t, c)
  /\ \A t : Origin!Resume(t) <=> Queue!Resume(t)
  /\ \A t : Origin!GiveUp(t) <=> Queue!GiveUp(t)
  /\ \A t : Origin!Timeout(t) <=> Queue!Timeout(t)
<1>1. \A c : Origin!May(c) <=> Queue!May(c)
  BY DEF Origin!May, Queue!May, Origin!IsFull, Queue!IsFull, Origin!IsEmpty, Queue!IsEmpty
<1>2. \A t, c : Origin!Perform(t, c) <=> Queue!Perform(t, c)
  BY Zenon
  DEF Origin!Perform, Queue!Perform, Origin!EmplaceBack, Queue!EmplaceBack,
      Origin!PushFront, Queue!PushFront, Origin!EffPopFront, Queue!EffPopFront,
      Origin!PopFront, Queue!PopFront, Origin!PopBack, Queue!PopBack,
      Origin!PeekFront, Queue!PeekFront, Origin!PeekBack, Queue!PeekBack,
      Origin!Slot, Queue!Slot
<1>3. \A W, A : Origin!NotifyOne(W, A) <=> Queue!NotifyOne(W, A)
  BY DEF Origin!NotifyOne, Queue!NotifyOne
<1>4. \A t, c : Origin!Attempt(t, c) <=> Queue!Attempt(t, c)
  BY <1>1, <1>2, <1>3, SameRing DEF Origin!Attempt, Queue!Attempt
<1>5. \A t : Origin!Resume(t) <=> Queue!Resume(t)
  BY <1>4 DEF Origin!Resume, Queue!Resume
<1>6. \A t : Origin!GiveUp(t) <=> Queue!GiveUp(t)
  BY <1>1, <1>3, SameRing DEF Origin!GiveUp, Queue!GiveUp
<1>7. \A t : Origin!Timeout(t) <=> Queue!Timeout(t)
  BY DEF Origin!Timeout, Queue!Timeout
<1> QED
  BY <1>4, <1>5, <1>6, <1>7

-----------------------------------------------------------------------------
\* What the calls of the threads do to the ring.

\* The calls of the driver are calls of the ring.
LEMMA OurCalls ==
  /\ Receivers \cup Consumers = Queue!Threads
  /\ Pop \in Queue!Calls /\ Pop # Queue!NoCall
  /\ \A p \in Items : Push(p) \in Queue!Calls /\ Push(p) # Queue!NoCall
  BY DEF Pop, Push, Queue!Calls, Queue!NoCall, Queue!Threads

\* A thread in no call is not among those who wait.
LEMMA NotInCall ==
  ASSUME Queue!RingInv, NEW t \in Queue!Threads
  PROVE  call[t] = Queue!NoCall => t \notin waiting /\ t \notin awake
  BY DEF Queue!RingInv, Queue!TypeOK

\* An attempt to push stores the packet if there is room, and waits otherwise.
LEMMA PushMoves ==
  ASSUME Queue!RingInv, NEW r \in Receivers, NEW p \in Items, r \notin waiting,
         Queue!Attempt(r, Push(p))
  PROVE  /\ Queue!RingInv'
         /\ \/ /\ ~Queue!IsFull(ring) /\ ring' = Queue!EmplaceBack(ring, p)
               /\ call' = [call EXCEPT ![r] = Queue!NoCall]
            \/ /\ Queue!IsFull(ring) /\ ring' = ring /\ call' = [call EXCEPT ![r] = Push(p)]
<1>1. r \in Queue!Threads /\ Push(p) \in Queue!Calls
  BY OurCalls
<1>2. Queue!RingInv'
  BY <1>1, QueueCast, Queue!AttemptTypes, ReceiveAssumption
<1>3. Push(p).op = "push_back" /\ Push(p).item = p
  BY DEF Push
<1> QED
  BY <1>2, <1>3 DEF Queue!Attempt, Queue!May, Queue!Perform

\* A consumer's attempt takes the first packet, waits or gives up.
LEMMA PopMoves ==
  ASSUME Queue!RingInv, NEW t \in Consumers,
         \/ call[t] = Queue!NoCall /\ Queue!Attempt(t, Pop)
         \/ call[t] = Pop /\ (Queue!Resume(t) \/ Queue!GiveUp(t))
  PROVE  /\ Queue!RingInv'
         /\ \/ call' = [call EXCEPT ![t] = Queue!NoCall]
            \/ call' = [call EXCEPT ![t] = Pop]
         /\ \/ ring' = ring
            \/ ~Queue!IsEmpty(ring) /\ ring' = Queue!EffPopFront(ring)
<1>1. t \in Queue!Threads /\ Pop \in Queue!CallsOf(t)
  BY OurCalls DEF Queue!CallsOf, Pop
<1>2. Queue!Step(t)
  BY <1>1 DEF Queue!Step, Queue!Enter
<1>3. Queue!RingInv'
  BY <1>1, <1>2, QueueCast, Queue!StepRefines, ReceiveAssumption
<1>4. CASE Queue!Attempt(t, Pop)
  BY <1>3, <1>4 DEF Queue!Attempt, Queue!May, Queue!Perform, Pop
<1>5. CASE Queue!GiveUp(t)
  BY <1>3, <1>5 DEF Queue!GiveUp
<1> QED
  BY <1>4, <1>5 DEF Queue!Resume

\* Time-outs only wake.
LEMMA TimeoutMoves ==
  ASSUME Queue!RingInv, NEW t \in Consumers, Queue!Timeout(t)
  PROVE  Queue!RingInv' /\ UNCHANGED <<ring, call>>
<1>1. t \in Queue!Threads /\ Queue!Step(t)
  BY OurCalls DEF Queue!Step
<1> QED
  BY <1>1, QueueCast, Queue!StepRefines, ReceiveAssumption DEF Queue!Timeout

-----------------------------------------------------------------------------
\* Silences, in the sequence of the packets.

\* A packet that is no time-out divides no less than before, and a point cloud
\* ends every silence.
LEMMA AppendPacket ==
  ASSUME NEW c \in Seq(Items \cup {NoItem}), NEW p \in Items, Apart(c)
  PROVE  /\ p # "timeout" => Apart(Append(c, p))
         /\ p = "timeout" /\ Ended(c) => Apart(Append(c, p))
         /\ p # "timeout" /\ Ended(c) => Ended(Append(c, p))
         /\ p = "cloud" => Ended(Append(c, p))
<1> DEFINE d == Append(c, p)
           n == Len(c)
<1>1. /\ n \in Nat /\ Len(d) = n + 1 /\ d[n + 1] = p
      /\ \A k \in 1 .. n : d[k] = c[k]
  BY AppendProperties
<1> HIDE DEF d, n
<1>2. ASSUME NEW i \in 1 .. n, NEW j \in 1 .. n, i < j, d[i] = "timeout", d[j] = "timeout"
      PROVE  \E k \in i .. j : d[k] = "cloud"
  <2>1. c[i] = "timeout" /\ c[j] = "timeout"
    BY <1>1, <1>2
  <2>2. PICK k \in i .. j : c[k] = "cloud"
    BY <1>2, <2>1 DEF Apart, n
  <2> QED
    BY <1>1, <2>2
<1>3. ASSUME Ended(c), NEW i \in 1 .. n, d[i] = "timeout"
      PROVE  \E k \in i .. n : d[k] = "cloud"
  <2>1. c[i] = "timeout"
    BY <1>1, <1>3
  <2>2. PICK k \in i .. n : c[k] = "cloud"
    BY <1>3, <2>1 DEF Ended, n
  <2> QED
    BY <1>1, <2>2
<1>4. ASSUME p # "timeout" \/ Ended(c)
      PROVE  Apart(d)
  <2> SUFFICES ASSUME NEW i \in 1 .. n + 1, NEW j \in 1 .. n + 1, i < j,
                      d[i] = "timeout", d[j] = "timeout"
               PROVE  \E k \in i .. j : d[k] = "cloud"
    BY <1>1 DEF Apart
  <2>1. CASE j = n + 1
    <3>1. Ended(c) /\ i \in 1 .. n
      BY <1>1, <1>4, <2>1
    <3>2. PICK k \in i .. n : d[k] = "cloud"
      BY <1>3, <3>1
    <3> QED
      BY <1>1, <2>1, <3>2
  <2>2. CASE j # n + 1
    <3>1. i \in 1 .. n /\ j \in 1 .. n
      BY <1>1, <2>2
    <3> QED
      BY <1>2, <3>1
  <2> QED
    BY <2>1, <2>2
<1>5. ASSUME p = "cloud"
      PROVE  Ended(d)
  BY <1>1, <1>5 DEF Ended
<1>6. ASSUME p # "timeout", Ended(c)
      PROVE  Ended(d)
  <2> SUFFICES ASSUME NEW i \in 1 .. n + 1, d[i] = "timeout"
               PROVE  \E k \in i .. n + 1 : d[k] = "cloud"
    BY <1>1 DEF Ended
  <2>1. i \in 1 .. n
    BY <1>1, <1>6
  <2>2. PICK k \in i .. n : d[k] = "cloud"
    BY <1>3, <1>6, <2>1
  <2> QED
    BY <1>1, <2>2
<1> QED
  BY <1>4, <1>5, <1>6 DEF d

\* What is true of the packets is true of those that remain when one is taken.
LEMMA TailPackets ==
  ASSUME NEW c \in Seq(Items \cup {NoItem}), c # <<>>
  PROVE  /\ Apart(c) => Apart(Tail(c))
         /\ Ended(c) => Ended(Tail(c))
<1> DEFINE d == Tail(c)
           n == Len(c)
<1>1. /\ n \in Nat /\ n >= 1 /\ Len(d) = n - 1
      /\ \A k \in 1 .. n - 1 : d[k] = c[k + 1]
  BY HeadTailProperties, EmptySeq, LenProperties
<1> HIDE DEF d, n
<1>2. ASSUME Apart(c), NEW i \in 1 .. n - 1, NEW j \in 1 .. n - 1, i < j,
             d[i] = "timeout", d[j] = "timeout"
      PROVE  \E k \in i .. j : d[k] = "cloud"
  <2>1. /\ i + 1 \in 1 .. n /\ j + 1 \in 1 .. n /\ i + 1 < j + 1
        /\ c[i + 1] = "timeout" /\ c[j + 1] = "timeout"
    BY <1>1, <1>2
  <2>2. PICK k \in i + 1 .. j + 1 : c[k] = "cloud"
    BY <1>2, <2>1 DEF Apart, n
  <2>3. k - 1 \in i .. j /\ k - 1 \in 1 .. n - 1 /\ (k - 1) + 1 = k
    BY <1>1, <2>2
  <2>4. d[k - 1] = "cloud"
    BY <1>1, <2>2, <2>3
  <2> QED
    BY <2>3, <2>4
<1>3. ASSUME Ended(c), NEW i \in 1 .. n - 1, d[i] = "timeout"
      PROVE  \E k \in i .. n - 1 : d[k] = "cloud"
  <2>1. i + 1 \in 1 .. n /\ c[i + 1] = "timeout"
    BY <1>1, <1>3
  <2>2. PICK k \in i + 1 .. n : c[k] = "cloud"
    BY <1>3, <2>1 DEF Ended, n
  <2>3. k - 1 \in i .. n - 1 /\ k - 1 \in 1 .. n - 1 /\ (k - 1) + 1 = k
    BY <1>1, <2>2
  <2>4. d[k - 1] = "cloud"
    BY <1>1, <2>2, <2>3
  <2> QED
    BY <2>3, <2>4
<1> QED
  BY <1>1, <1>2, <1>3 DEF Apart, Ended, d

-----------------------------------------------------------------------------
\* What a step leaves alone.

\* The contents of a ring that changes are those of the new one.
LEMMA ContentsMove ==
  /\ Queue!Contents(ring)' = Queue!Contents(ring')
  /\ Queue!IsFull(ring)' <=> Queue!IsFull(ring')
  BY DEF Queue!Contents, Queue!Slot, Queue!IsFull

\* The queue is not disturbed by who neither enters nor leaves a call of it, ...
LEMMA QueueStays ==
  ASSUME QueueInv, UNCHANGED <<origin, pc, packet>>,
         init' = init \/ (init # "popping" /\ init' # "popping"),
         run' = run \/ (run # "popping" /\ run' # "popping")
  PROVE  QueueInv'
<1>1. Queue!RingInv'
  BY DEF QueueInv, origin, Queue!RingInv, Queue!TypeOK
<1> QED
  BY <1>1 DEF QueueInv, origin

\* ... what it holds by who leaves the ring and the receivers alone, ...
LEMMA BufferStays ==
  ASSUME RoomInv, SilenceInv, UNCHANGED <<ring, receiver, source_fault_message_>>
  PROVE  RoomInv' /\ SilenceInv'
<1>1. Queue!Contents(ring)' = Queue!Contents(ring) /\ (Queue!IsFull(ring)' <=> Queue!IsFull(ring))
  BY ContentsMove
<1> QED
  BY <1>1 DEF RoomInv, SilenceInv, receiver, Apart, Ended

\* ... nor the receivers' variables by who has none of them.
LEMMA ReceiverTypesStay ==
  ASSUME ReceiverTypes, UNCHANGED <<receiver, flags>>
  PROVE  ReceiverTypes'
  BY DEF ReceiverTypes, receiver, flags

\* The receivers, as long as none of them starts, leave the rest alone.
LEMMA LifeStays ==
  ASSUME LifeTypes, MilestoneInv, JoinedInv, UNCHANGED <<lifeVars, source_type_>>,
         \A r \in Receivers : pc[r] \in {"none", "exited"} => pc'[r] = pc[r]
  PROVE  LifeTypes' /\ MilestoneInv' /\ JoinedInv'
<1>1. UNCHANGED <<late, init, init_finish_, init_running, ptc, ptc_open, run,
                  is_thread_runing_, main, source_type_>>
  BY DEF lifeVars, initVars, ptcVars, runVars
<1>2. LifeFlags' /\ LifePlaces'
  <2>1. LifeFlags'
    BY <1>1 DEF LifeTypes, LifeFlags
  <2>2. LifePlaces'
    BY <1>1 DEF LifeTypes, LifePlaces, Milestones
  <2> QED
    BY <2>1, <2>2
<1>3. MilestoneInv'
  BY <1>1 DEF MilestoneInv
<1>4. JoinedInv'
  BY <1>1 DEF JoinedInv, Deleted
<1> QED
  BY <1>2, <1>3, <1>4 DEF LifeTypes

\* Whoever takes a packet leaves room, and every silence apart from the next.
LEMMA BufferPopped ==
  ASSUME Queue!RingInv, RoomInv, SilenceInv,
         UNCHANGED <<receiver, source_fault_message_>>,
         \/ ring' = ring
         \/ ~Queue!IsEmpty(ring) /\ ring' = Queue!EffPopFront(ring)
  PROVE  RoomInv' /\ SilenceInv'
<1>1. CASE ring' = ring
  BY <1>1, BufferStays
<1>2. CASE ~Queue!IsEmpty(ring) /\ ring' = Queue!EffPopFront(ring)
  <2> DEFINE c == Queue!Contents(ring)
  <2>1. ring \in Queue!Rings
    BY DEF Queue!RingInv, Queue!TypeOK
  <2>2. Queue!Contents(ring') = Tail(c)
    BY <1>2, <2>1, QueueCast, Queue!PopFrontTakesHead, ReceiveAssumption
  <2>3. c \in Seq(Items \cup {NoItem}) /\ c # <<>>
    BY <1>2, <2>1, QueueCast, Queue!ContentsIs, Queue!FrontIsHead, ReceiveAssumption DEF Queue!Values
  <2>4. /\ Apart(c) => Apart(Queue!Contents(ring'))
        /\ Ended(c) => Ended(Queue!Contents(ring'))
    BY <2>2, <2>3, TailPackets
  <2>5. Queue!IsFull(ring') => Queue!IsFull(ring)
    BY <1>2, <2>1, ReceiveAssumption DEF Queue!Rings, Queue!IsFull, Queue!EffPopFront
  <2>6. RoomInv'
    BY <2>5, ContentsMove DEF RoomInv, receiver
  <2>7. SilenceInv'
    BY <2>4, ContentsMove DEF SilenceInv, receiver, Apart, Ended
  <2> QED
    BY <2>6, <2>7
<1> QED
  BY <1>1, <1>2

-----------------------------------------------------------------------------
\* The initialisation thread.

\* A step that is not about the ring or the receivers leaves their part alone.
LEMMA QuietStep ==
  ASSUME LifeInv, UNCHANGED <<origin, receiver, running_, source_type_, source_fault_message_>>,
         source_fault_message_waiting_' \in BOOLEAN,
         init' = init \/ (init # "popping" /\ init' # "popping"),
         run' = run \/ (run # "popping" /\ run' # "popping")
  PROVE  QueueInv' /\ RoomInv' /\ SilenceInv' /\ ReceiverTypes'
<1>1. UNCHANGED <<ring, pc, packet, is_timeout_>>
  BY DEF origin, receiver
<1>2. QueueInv'
  BY <1>1, QueueStays DEF LifeInv
<1>3. RoomInv' /\ SilenceInv'
  BY <1>1, BufferStays DEF LifeInv
<1>4. ReceiverTypes'
  BY <1>1 DEF LifeInv, ReceiverTypes
<1> QED
  BY <1>2, <1>3, <1>4

\* OpenSource finds no receiver at work, and starts them.
LEMMA OpenKeeps ==
  ASSUME LifeInv, OpenSource
  PROVE  LifeInv'
<1> USE DEF OpenSource, LifeInv
<1>1. /\ init = "open" /\ init' = "packets" /\ ptc' \in {"none", "polling"}
      /\ UNCHANGED <<origin, packet, is_timeout_, running_, source_type_,
                     source_fault_message_, source_fault_message_waiting_,
                     late, init_finish_, init_running, ptc_open, run,
                     is_thread_runing_, main>>
  BY DEF flags, runVars
<1>2. \A r \in Receivers : pc[r] = "none" /\ call[r] = Queue!NoCall
  BY <1>1 DEF MilestoneInv, QueueInv
<1>3. /\ pc' \in [Receivers -> {"none", "receive"}]
      /\ ~source_fault_message_ => pc'["fault"] = "none"
  BY DEF SetThreadNum, Receivers
<1>4. UNCHANGED <<ring, call>> /\ Queue!Contents(ring)' = Queue!Contents(ring)
  BY <1>1, ContentsMove DEF origin
<1>5. QueueInv'
  <2>1. Queue!RingInv'
    BY <1>1 DEF QueueInv, origin, Queue!RingInv, Queue!TypeOK
  <2> QED
    BY <1>1, <1>2, <1>3, <1>4, <2>1 DEF QueueInv, Receivers
<1>6. ReceiverTypes'
  BY <1>1, <1>3 DEF ReceiverTypes
<1>7. LifeTypes'
  <2>1. LifeFlags'
    BY <1>1 DEF LifeTypes, LifeFlags
  <2>2. LifePlaces'
    BY <1>1 DEF LifeTypes, LifePlaces, Milestones
  <2> QED
    BY <2>1, <2>2 DEF LifeTypes
<1>8. MilestoneInv'
  BY <1>1 DEF MilestoneInv, Underway
<1>9. JoinedInv'
  BY <1>1 DEF JoinedInv, MilestoneInv, Underway, Deleted
<1>10. RoomInv' /\ SilenceInv'
  BY <1>1, <1>3, <1>4 DEF RoomInv, SilenceInv, Receivers, Apart, Ended
<1> QED
  BY <1>5, <1>6, <1>7, <1>8, <1>9, <1>10

\* Between the receivers and the parser nobody waits for this thread yet.
LEMMA AwaitPacketKeeps ==
  ASSUME LifeInv, AwaitPacket
  PROVE  LifeInv'
<1> USE DEF AwaitPacket, LifeInv
<1>1. /\ init \in {"packets", "popping"} /\ init' \in {"packets", "popping", "parser", "no parser"}
      /\ init' = "popping" <=> call'["init"] # Queue!NoCall
      /\ UNCHANGED <<pc, packet, is_timeout_, running_, source_type_,
                     source_fault_message_, source_fault_message_waiting_,
                     late, init_finish_, init_running, ptc, ptc_open, run,
                     is_thread_runing_, main>>
  BY SameRing DEF Decoded, flags, receiver, ptcVars, runVars
<1>2. /\ Queue!RingInv'
      /\ \/ call' = [call EXCEPT !["init"] = Queue!NoCall]
         \/ call' = [call EXCEPT !["init"] = Pop]
      /\ ring' = ring \/ (~Queue!IsEmpty(ring) /\ ring' = Queue!EffPopFront(ring))
  <2>1. CASE init = "packets" /\ Origin!Attempt("init", [op |-> "try_pop_front"])
    <3>1. call["init"] = Queue!NoCall /\ Queue!Attempt("init", Pop)
      BY <2>1, SameSteps DEF Pop, QueueInv
    <3> QED
      BY <3>1, PopMoves DEF QueueInv, Consumers
  <2>2. CASE init = "popping" /\ (Origin!Resume("init") \/ Origin!GiveUp("init"))
    <3>1. call["init"] = Pop /\ (Queue!Resume("init") \/ Queue!GiveUp("init"))
      BY <2>2, SameSteps DEF QueueInv
    <3> QED
      BY <3>1, PopMoves DEF QueueInv, Consumers
  <2> QED
    BY <2>1, <2>2
<1>3. QueueInv'
  <2>1. /\ DOMAIN call = Receivers \cup Consumers
        /\ Pop # Queue!NoCall
    BY OurCalls DEF QueueInv, Queue!RingInv, Queue!TypeOK
  <2>2. /\ \A t \in {"run", "udp", "fault"} : call'[t] = call[t]
        /\ call'["init"] = IF init' = "popping" THEN Pop ELSE Queue!NoCall
    BY <1>1, <1>2, <2>1 DEF Receivers, Consumers
  <2> QED
    BY <1>1, <1>2, <2>2 DEF QueueInv, Receivers
<1>4. ReceiverTypes'
  BY <1>1 DEF ReceiverTypes
<1>5. RoomInv' /\ SilenceInv'
  BY <1>1, <1>2, BufferPopped DEF QueueInv, receiver
<1>6. LifeTypes'
  <2>1. LifeFlags'
    BY <1>1 DEF LifeTypes, LifeFlags
  <2>2. LifePlaces'
    BY <1>1 DEF LifeTypes, LifePlaces, Milestones
  <2> QED
    BY <2>1, <2>2 DEF LifeTypes
<1>7. MilestoneInv'
  BY <1>1 DEF MilestoneInv, Underway
<1>8. JoinedInv'
  BY <1>1 DEF JoinedInv, Deleted
<1> QED
  BY <1>3, <1>4, <1>5, <1>6, <1>7, <1>8

\* The steps that only report how far it is.
LEMMA InitKeeps ==
  ASSUME LifeInv,
         FailInit \/ BasicReady \/ AwaitPtc \/ LoadCorrection \/ SetAllFinishReady \/ Elapse
  PROVE  LifeInv'
<1> USE DEF LifeInv
<1>1. UNCHANGED <<origin, receiver, running_, source_type_, source_fault_message_,
                  ptc, ptc_open, run, is_thread_runing_, main>>
  BY DEF FailInit, BasicReady, AwaitPtc, LoadCorrection, SetAllFinishReady, Elapse,
         receiveVars, flags, ptcVars, runVars
<1>2. /\ source_fault_message_waiting_' \in BOOLEAN
      /\ init' = init \/ (init # "popping" /\ init' # "popping")
  BY DEF FailInit, BasicReady, AwaitPtc, LoadCorrection, SetAllFinishReady, Elapse,
         receiveVars, flags, ReceiverTypes
<1>3. QueueInv' /\ RoomInv' /\ SilenceInv' /\ ReceiverTypes'
  BY <1>1, <1>2, QuietStep
<1>4. LifeTypes'
  <2>1. LifeFlags'
    BY <1>1 DEF FailInit, BasicReady, AwaitPtc, LoadCorrection, SetAllFinishReady, Elapse,
                LifeTypes, LifeFlags
  <2>2. LifePlaces'
    BY <1>1 DEF FailInit, BasicReady, AwaitPtc, LoadCorrection, SetAllFinishReady, Elapse,
                LifeTypes, LifePlaces, Milestones
  <2> QED
    BY <2>1, <2>2 DEF LifeTypes
<1>5. UNCHANGED pc
  BY <1>1 DEF receiver
<1>6. MilestoneInv'
  BY <1>1, <1>5
  DEF FailInit, BasicReady, AwaitPtc, LoadCorrection, SetAllFinishReady, Elapse,
      MilestoneInv, Underway
<1>7. JoinedInv'
  BY <1>1, <1>5 DEF JoinedInv, Deleted
<1> QED
  BY <1>3, <1>4, <1>6, <1>7

-----------------------------------------------------------------------------
\* The other threads.

\* Connect and InitSetPtc: the latter only ever leaves.
LEMMA PtcKeeps ==
  ASSUME LifeInv, Connect \/ InitSetPtc
  PROVE  LifeInv'
<1> USE DEF LifeInv
<1>1. /\ UNCHANGED <<origin, receiver, running_, source_type_, source_fault_message_,
                     source_fault_message_waiting_, late, init, init_finish_, init_running,
                     run, is_thread_runing_, main, pc>>
      /\ ptc = "polling" /\ ptc' \in {"polling", "exited"} /\ ptc_open' \in BOOLEAN
  BY DEF Connect, InitSetPtc, receiveVars, flags, initVars, runVars, receiver,
         LifeTypes, LifeFlags
<1>2. QueueInv' /\ RoomInv' /\ SilenceInv' /\ ReceiverTypes'
  BY <1>1, QuietStep DEF ReceiverTypes
<1>3. LifeTypes'
  <2>1. LifeFlags'
    BY <1>1 DEF LifeTypes, LifeFlags
  <2>2. LifePlaces'
    BY <1>1 DEF LifeTypes, LifePlaces, Milestones
  <2> QED
    BY <2>1, <2>2 DEF LifeTypes
<1>4. MilestoneInv'
  BY <1>1 DEF MilestoneInv
<1>5. JoinedInv'
  BY <1>1 DEF JoinedInv, Deleted
<1> QED
  BY <1>2, <1>3, <1>4, <1>5

\* Run takes its packets as the initialisation thread did, and only after it.
LEMMA GetOnePacketKeeps ==
  ASSUME LifeInv, GetOnePacket
  PROVE  LifeInv'
<1> USE DEF GetOnePacket, LifeInv
<1>1. /\ run \in {"loop", "popping"} /\ run' \in {"loop", "popping", "decode"}
      /\ run' = "popping" <=> call'["run"] # Queue!NoCall
      /\ run' = "decode" => "AllInitFinish" \in init_finish_
      /\ UNCHANGED <<pc, packet, is_timeout_, running_, source_type_,
                     source_fault_message_, source_fault_message_waiting_,
                     late, init, init_finish_, init_running, ptc, ptc_open,
                     is_thread_runing_, main>>
  BY SameRing DEF RunNext, flags, receiver, ptcVars, initVars
<1>2. /\ Queue!RingInv'
      /\ \/ call' = [call EXCEPT !["run"] = Queue!NoCall]
         \/ call' = [call EXCEPT !["run"] = Pop]
      /\ ring' = ring \/ (~Queue!IsEmpty(ring) /\ ring' = Queue!EffPopFront(ring))
  <2>1. CASE run = "loop" /\ Origin!Attempt("run", [op |-> "try_pop_front"])
    <3>1. call["run"] = Queue!NoCall /\ Queue!Attempt("run", Pop)
      BY <2>1, SameSteps DEF Pop, QueueInv
    <3> QED
      BY <3>1, PopMoves DEF QueueInv, Consumers
  <2>2. CASE run = "popping" /\ (Origin!Resume("run") \/ Origin!GiveUp("run"))
    <3>1. call["run"] = Pop /\ (Queue!Resume("run") \/ Queue!GiveUp("run"))
      BY <2>2, SameSteps DEF QueueInv
    <3> QED
      BY <3>1, PopMoves DEF QueueInv, Consumers
  <2> QED
    BY <2>1, <2>2
<1>3. QueueInv'
  <2>1. /\ DOMAIN call = Receivers \cup Consumers
        /\ Pop # Queue!NoCall
    BY OurCalls DEF QueueInv, Queue!RingInv, Queue!TypeOK
  <2>2. /\ \A t \in {"init", "udp", "fault"} : call'[t] = call[t]
        /\ call'["run"] = IF run' = "popping" THEN Pop ELSE Queue!NoCall
    BY <1>1, <1>2, <2>1 DEF Receivers, Consumers
  <2> QED
    BY <1>1, <1>2, <2>2 DEF QueueInv, Receivers
<1>4. ReceiverTypes'
  BY <1>1 DEF ReceiverTypes
<1>5. RoomInv' /\ SilenceInv'
  BY <1>1, <1>2, BufferPopped DEF QueueInv, receiver
<1>6. LifeTypes'
  <2>1. LifeFlags'
    BY <1>1 DEF LifeTypes, LifeFlags
  <2>2. LifePlaces'
    BY <1>1 DEF LifeTypes, LifePlaces, Milestones
  <2> QED
    BY <2>1, <2>2 DEF LifeTypes
<1>7. MilestoneInv'
  BY <1>1 DEF MilestoneInv
<1>8. JoinedInv'
  BY <1>1 DEF JoinedInv, Deleted
<1> QED
  BY <1>3, <1>4, <1>5, <1>6, <1>7, <1>8

\* main waits where it does for a milestone, an exit or a join.
LEMMA MainKeeps ==
  ASSUME LifeInv, RunBegin \/ RunExit \/ DecodePacket \/ Stop \/ MainStep
  PROVE  LifeInv'
<1> USE DEF LifeInv
<1>1. /\ UNCHANGED <<origin, receiver, source_type_, source_fault_message_,
                     source_fault_message_waiting_, late, init, init_finish_,
                     ptc, ptc_open, pc, packet, is_timeout_>>
      /\ run' = run \/ (run # "popping" /\ run' # "popping")
      /\ running_' \in BOOLEAN /\ init_running' \in BOOLEAN /\ is_thread_runing_' \in BOOLEAN
  <2> USE DEF receiveVars, flags, initVars, runVars, ptcVars, receiver
  <2>1. /\ running_ \in BOOLEAN /\ init_running \in BOOLEAN /\ is_thread_runing_ \in BOOLEAN
    BY DEF LifeTypes, LifeFlags, ReceiverTypes
  <2>2. CASE RunBegin \/ RunExit \/ DecodePacket
    BY <2>1, <2>2 DEF RunBegin, RunExit, DecodePacket
  <2>3. CASE Stop
    BY <2>1, <2>3 DEF Stop
  <2>4. CASE Start
    BY <2>1, <2>4 DEF Start, JoinedInv
  <2>5. CASE JoinRun
    BY <2>1, <2>5 DEF JoinRun
  <2>6. CASE JoinAll \/ JoinInit
    BY <2>1, <2>6 DEF JoinAll, JoinInit
  <2> QED
    BY <2>2, <2>3, <2>4, <2>5, <2>6 DEF MainStep
<1>2. QueueInv'
  BY <1>1, QueueStays
<1>3. RoomInv' /\ SilenceInv'
  BY <1>1, BufferStays DEF origin
<1>4. ReceiverTypes'
  BY <1>1 DEF ReceiverTypes
<1>5. LifeTypes'
  <2>1. LifeFlags'
    BY <1>1 DEF LifeTypes, LifeFlags
  <2>2. LifePlaces'
    BY <1>1
    DEF LifeTypes, LifePlaces, Milestones, RunBegin, RunExit, DecodePacket, Stop, MainStep,
        Start, JoinRun, JoinAll, JoinInit, runVars
  <2> QED
    BY <2>1, <2>2 DEF LifeTypes
<1>6. MilestoneInv'
  <2>1. /\ run' # "none" => run # "none" \/ MayStart
        /\ run' = "decode" => run = "decode"
        /\ main' # "start" => main # "start" \/ MayStart \/ "FailInit" \in init_finish_
    BY DEF RunBegin, RunExit, DecodePacket, Stop, MainStep, Start, JoinRun, JoinAll,
           JoinInit, runVars
  <2> QED
    BY <1>1, <2>1 DEF MilestoneInv, MayStart, Underway
<1>7. JoinedInv'
  BY <1>1
  DEF JoinedInv, Deleted, RunBegin, RunExit, DecodePacket, Stop, MainStep, Start, JoinRun,
      JoinAll, JoinInit, runVars
<1> QED
  BY <1>2, <1>3, <1>4, <1>5, <1>6, <1>7

\* wait_for ends, which moves nothing.
LEMMA PopTimeoutKeeps ==
  ASSUME LifeInv, NEW t \in Consumers, PopTimeout(t)
  PROVE  LifeInv'
<1> USE DEF LifeInv
<1>1. UNCHANGED <<receiver, flags, lifeVars, pc, packet, init, run, source_type_,
                  source_fault_message_>>
  BY DEF PopTimeout, receiver, lifeVars, initVars, runVars, flags
<1>2. Queue!RingInv' /\ UNCHANGED <<ring, call>>
  BY SameSteps, TimeoutMoves DEF PopTimeout, QueueInv
<1>3. QueueInv'
  BY <1>1, <1>2 DEF QueueInv
<1>4. RoomInv' /\ SilenceInv'
  BY <1>1, <1>2, BufferStays
<1>5. ReceiverTypes'
  BY <1>1, ReceiverTypesStay
<1>6. LifeTypes' /\ MilestoneInv' /\ JoinedInv'
  BY <1>1, LifeStays
<1> QED
  BY <1>3, <1>4, <1>5, <1>6

-----------------------------------------------------------------------------
\* The receivers.

\* A packet comes in only while there is room, and a time-out only in a silence
\* that has not been reported.
LEMMA ArrivalKeeps ==
  ASSUME LifeInv, NEW r \in Receivers, Arrival(r)
  PROVE  LifeInv'
<1> USE DEF LifeInv
<1>1. /\ UNCHANGED <<lifeVars, ring, call, init, run, is_timeout_, running_, source_type_,
                     source_fault_message_, source_fault_message_waiting_>>
      /\ Queue!RingInv'
  <2>1. UNCHANGED origin
    BY DEF Arrival, Receive
  <2>2. Queue!RingInv'
    BY <2>1 DEF QueueInv, origin, Queue!RingInv, Queue!TypeOK
  <2> QED
    BY <2>1, <2>2 DEF Arrival, Receive, origin, flags, lifeVars, initVars, runVars
<1>2. PICK p \in Receivable(r) : Keep(p) /\ packet' = [packet EXCEPT ![r] = p]
  BY DEF Arrival, Receive
<1>3. /\ pc[r] = "receive" /\ pc' = [pc EXCEPT ![r] = "store"]
      /\ ~Queue!IsFull(ring)
  BY SameRing DEF Arrival, Receive
<1>4. /\ p \in Items /\ (r = "fault" => p = "fault")
      /\ p = "timeout" => ~is_timeout_
  BY <1>2 DEF Receivable, Items, Keep
<1>5. /\ \A u \in Receivers : pc'[u] = IF u = r THEN "store" ELSE pc[u]
      /\ \A u \in Receivers : packet'[u] = IF u = r THEN p ELSE packet[u]
  BY <1>2, <1>3 DEF ReceiverTypes
<1>6. QueueInv'
  BY <1>1, <1>3, <1>4, <1>5 DEF QueueInv, Receivers
<1>7. ReceiverTypes'
  <2>1. /\ pc' \in [Receivers -> {"none", "receive", "store", "storing", "exited"}]
        /\ packet' \in [Receivers -> Items \cup {NoItem}]
    BY <1>2, <1>3, <1>4 DEF ReceiverTypes
  <2> QED
    BY <1>1, <2>1 DEF ReceiverTypes
<1>8. LifeTypes' /\ MilestoneInv' /\ JoinedInv'
  BY <1>1, <1>3, <1>5, LifeStays
<1>9. RoomInv'
  BY <1>1, <1>3, <1>5 DEF RoomInv, Receivers, Queue!IsFull
<1>10. SilenceInv'
  <2>1. Queue!Contents(ring)' = Queue!Contents(ring)
    BY <1>1, ContentsMove
  <2> QED
    BY <1>1, <1>4, <1>5, <2>1 DEF SilenceInv, Receivers, Apart, Ended
<1> QED
  BY <1>6, <1>7, <1>8, <1>9, <1>10

\* emplace_back stores the packet, or the receiver waits inside it, which it
\* does only if there is another.
LEMMA PushKeeps ==
  ASSUME LifeInv, NEW r \in Receivers, pc[r] \in {"store", "storing"}, r \notin waiting,
         Queue!Attempt(r, Push(packet[r])), Stored(r), UNCHANGED lifeVars
  PROVE  LifeInv'
<1> USE DEF LifeInv
<1> DEFINE p == packet[r]
           c == Queue!Contents(ring)
<1>1. p \in Items /\ (r = "fault" => p = "fault") /\ p # NoItem
  BY ReceiveAssumption DEF QueueInv
<1>2. /\ Queue!RingInv'
      /\ \/ /\ ~Queue!IsFull(ring) /\ ring' = Queue!EmplaceBack(ring, p)
            /\ call' = [call EXCEPT ![r] = Queue!NoCall]
         \/ /\ Queue!IsFull(ring) /\ ring' = ring /\ call' = [call EXCEPT ![r] = Push(p)]
  BY <1>1, PushMoves DEF QueueInv
<1>3. /\ DOMAIN call = Receivers \cup Consumers
      /\ Push(p) # Queue!NoCall /\ ring \in Queue!Rings
  BY <1>1, OurCalls DEF QueueInv, Queue!RingInv, Queue!TypeOK
<1>4. UNCHANGED <<init, run, flags, source_type_, source_fault_message_>>
  BY DEF lifeVars, initVars, runVars, Stored, Return, flags
<1>5. CASE /\ ~Queue!IsFull(ring) /\ ring' = Queue!EmplaceBack(ring, p)
           /\ call' = [call EXCEPT ![r] = Queue!NoCall]
  <2>1. Return(r)
    <3>1. call'[r] = Origin!NoCall
      BY <1>3, <1>5, SameRing
    <3> QED
      BY <3>1 DEF Stored
  <2>2. /\ \A u \in Receivers : pc'[u] = IF u = r THEN "receive" ELSE pc[u]
        /\ \A u \in Receivers : packet'[u] = IF u = r THEN NoItem ELSE packet[u]
        /\ \A t \in Receivers \cup Consumers :
             call'[t] = IF t = r THEN Queue!NoCall ELSE call[t]
    BY <1>3, <1>5, <2>1 DEF Return, ReceiverTypes
  <2>3. is_timeout_' = IF r = "udp" /\ p # "fault" THEN p = "timeout" ELSE is_timeout_
    BY <2>1 DEF Return
  <2>4. QueueInv'
    BY <1>2, <1>4, <2>2 DEF QueueInv, Receivers, Consumers
  <2>5. ReceiverTypes'
    <3>1. /\ pc' \in [Receivers -> {"none", "receive", "store", "storing", "exited"}]
          /\ packet' \in [Receivers -> Items \cup {NoItem}]
      BY <2>1 DEF ReceiverTypes, Return
    <3>2. is_timeout_' \in BOOLEAN
      BY <2>3 DEF ReceiverTypes
    <3> QED
      BY <1>4, <3>1, <3>2 DEF ReceiverTypes, flags
  <2>6. RoomInv'
    BY <1>4, <2>2 DEF RoomInv, Receivers
  <2>7. Queue!Contents(ring)' = Append(c, p) /\ c \in Seq(Items \cup {NoItem})
    BY <1>1, <1>3, <1>5, ContentsMove, QueueCast, Queue!EmplaceBackAppends, Queue!ContentsIs,
       ReceiveAssumption DEF Queue!Values
  <2>8. SilenceInv'
    <3>1. p = "timeout" => r = "udp" /\ ~is_timeout_
      BY <1>1 DEF SilenceInv, Receivers
    <3>2. Apart(c) /\ (~is_timeout_ => Ended(c))
      BY DEF SilenceInv
    <3>3. Apart(Append(c, p))
      BY <1>1, <2>7, <3>1, <3>2, AppendPacket
    <3>4. ~is_timeout_' => Ended(Append(c, p))
      <4>1. p = "timeout" => is_timeout_'
        BY <2>3, <3>1
      <4>2. p = "cloud" => Ended(Append(c, p))
        BY <1>1, <2>7, <3>2, AppendPacket
      <4>3. p = "fault" => is_timeout_' = is_timeout_
        BY <2>3
      <4>4. p = "fault" /\ Ended(c) => Ended(Append(c, p))
        BY <1>1, <2>7, <3>2, AppendPacket
      <4> QED
        BY <1>1, <3>2, <4>1, <4>2, <4>3, <4>4 DEF Items
    <3>5. pc'["udp"] \in {"store", "storing"} /\ packet'["udp"] = "timeout" => ~is_timeout_'
      BY <2>2, <2>3 DEF SilenceInv, Receivers
    <3> QED
      BY <2>7, <3>3, <3>4, <3>5 DEF SilenceInv, Apart, Ended
  <2>9. LifeTypes' /\ MilestoneInv' /\ JoinedInv'
    BY <1>4, <2>2, LifeStays
  <2> QED
    BY <2>4, <2>5, <2>6, <2>8, <2>9
<1>6. CASE Queue!IsFull(ring) /\ ring' = ring /\ call' = [call EXCEPT ![r] = Push(p)]
  <2>1. /\ pc' = [pc EXCEPT ![r] = "storing"]
        /\ UNCHANGED <<packet, is_timeout_, running_, source_fault_message_waiting_>>
    <3>1. call'[r] # Origin!NoCall
      BY <1>3, <1>6, SameRing
    <3> QED
      BY <3>1 DEF Stored, flags
  <2>2. /\ \A u \in Receivers : pc'[u] = IF u = r THEN "storing" ELSE pc[u]
        /\ \A t \in Receivers \cup Consumers : call'[t] = IF t = r THEN Push(p) ELSE call[t]
    BY <1>3, <1>6, <2>1 DEF ReceiverTypes
  <2>3. QueueInv'
    BY <1>1, <1>2, <1>4, <2>1, <2>2 DEF QueueInv, Receivers, Consumers
  <2>4. ReceiverTypes'
    <3>1. pc' \in [Receivers -> {"none", "receive", "store", "storing", "exited"}]
      BY <2>1 DEF ReceiverTypes
    <3> QED
      BY <1>4, <2>1, <3>1 DEF ReceiverTypes
  <2>5. RoomInv'
    BY <1>4, <1>6, <2>2 DEF RoomInv, Receivers
  <2>6. SilenceInv'
    <3>1. Queue!Contents(ring)' = c
      BY <1>6, ContentsMove
    <3> QED
      BY <2>1, <2>2, <3>1 DEF SilenceInv, Receivers, Apart, Ended
  <2>7. LifeTypes' /\ MilestoneInv' /\ JoinedInv'
    BY <1>4, <2>2, LifeStays
  <2> QED
    BY <2>3, <2>4, <2>5, <2>6, <2>7
<1> QED
  BY <1>2, <1>5, <1>6

\* What a receiver does of itself.
LEMMA ReceivingKeeps ==
  ASSUME LifeInv, NEW r \in Receivers, Receiving(r)
  PROVE  LifeInv'
<1> USE DEF LifeInv
<1>0. UNCHANGED lifeVars
  BY DEF Receiving
<1>1. CASE Exit(r)
  <2>1. /\ UNCHANGED <<origin, packet, is_timeout_, running_, source_type_, source_fault_message_,
                       source_fault_message_waiting_, ring, call, init, run>>
        /\ pc[r] = "receive" /\ pc' = [pc EXCEPT ![r] = "exited"]
    BY <1>0, <1>1 DEF Exit, flags, origin, lifeVars, initVars, runVars
  <2>2. \A u \in Receivers : pc'[u] = IF u = r THEN "exited" ELSE pc[u]
    BY <2>1 DEF ReceiverTypes
  <2>3. QueueInv'
    <3>1. Queue!RingInv'
      BY <2>1 DEF QueueInv, origin, Queue!RingInv, Queue!TypeOK
    <3> QED
      BY <2>1, <2>2, <3>1 DEF QueueInv, Receivers
  <2>4. ReceiverTypes'
    <3>1. pc' \in [Receivers -> {"none", "receive", "store", "storing", "exited"}]
      BY <2>1 DEF ReceiverTypes
    <3> QED
      BY <2>1, <3>1 DEF ReceiverTypes
  <2>5. RoomInv'
    <3>1. pc["fault"] = "none" => r = "udp"
      BY <2>1 DEF Receivers
    <3> QED
      BY <2>1, <2>2, <3>1 DEF RoomInv, Receivers, Queue!IsFull
  <2>6. SilenceInv'
    <3>1. Queue!Contents(ring)' = Queue!Contents(ring)
      BY <2>1, ContentsMove
    <3> QED
      BY <2>1, <2>2, <3>1 DEF SilenceInv, Receivers, Apart, Ended
  <2>7. LifeTypes' /\ MilestoneInv' /\ JoinedInv'
    BY <1>0, <2>1, <2>2, LifeStays
  <2> QED
    BY <2>3, <2>4, <2>5, <2>6, <2>7
<1>2. CASE Store(r)
  <2>1. /\ pc[r] = "store" /\ Stored(r) /\ Queue!Attempt(r, Push(packet[r]))
    BY <1>2, SameSteps DEF Store, Push
  <2>2. r \notin waiting
    <3>1. r \in Queue!Threads /\ call[r] = Queue!NoCall
      BY <2>1, OurCalls DEF QueueInv
    <3> QED
      BY <3>1, NotInCall DEF QueueInv
  <2> QED
    BY <1>0, <2>1, <2>2, PushKeeps
<1>3. CASE StoreResume(r)
  <2>1. pc[r] = "storing" /\ Stored(r) /\ Queue!Resume(r)
    BY <1>3, SameSteps DEF StoreResume
  <2>2. call[r] = Push(packet[r])
    BY <2>1 DEF QueueInv
  <2>3. r \notin waiting /\ Queue!Attempt(r, Push(packet[r]))
    BY <2>1, <2>2 DEF QueueInv, Queue!RingInv, Queue!TypeOK, Queue!Resume
  <2> QED
    BY <1>0, <2>1, <2>3, PushKeeps
<1> QED
  BY <1>1, <1>2, <1>3 DEF Receiving, ReceiverStep

-----------------------------------------------------------------------------
\* The theorems.

\* A new lidar is as the invariant says, ...
LEMMA LifeInit == Init => LifeInv
<1> SUFFICES ASSUME Init PROVE LifeInv
  OBVIOUS
<1> USE DEF Init, ReceiveInit
<1>1. Queue!Init
  <2>1. Origin!NewRing = Queue!NewRing
    BY DEF Origin!NewRing, Queue!NewRing
  <2> QED
    BY <2>1, SameRing DEF Origin!Init, Queue!Init, Origin!Threads, Queue!Threads
<1>2. Queue!RingInv
  BY <1>1, QueueCast, Queue!RingInit, ReceiveAssumption
<1>3. Queue!Contents(ring) = <<>>
  BY <1>1, QueueCast, Queue!NewIsEmpty, ReceiveAssumption DEF Queue!Init
<1>4. \A t \in Receivers \cup Consumers : call[t] = Queue!NoCall
  BY <1>1 DEF Queue!Init, Queue!Threads
<1>5. QueueInv
  BY <1>2, <1>4 DEF QueueInv, Receivers, Consumers
<1>6. ReceiverTypes
  BY DEF ReceiverTypes
<1>7. LifeTypes
  BY DEF LifeTypes, LifeFlags, LifePlaces
<1>8. MilestoneInv /\ JoinedInv /\ RoomInv
  BY DEF MilestoneInv, JoinedInv, RoomInv, Deleted, Receivers
<1>9. SilenceInv
  BY <1>3 DEF SilenceInv, Apart, Ended, Receivers
<1> QED
  BY <1>5, <1>6, <1>7, <1>8, <1>9 DEF LifeInv

\* ... and stays so.
LEMMA LifeStep == LifeInv /\ [Next]_vars => LifeInv'
<1> SUFFICES ASSUME LifeInv, [Next]_vars PROVE LifeInv'
  OBVIOUS
<1>1. CASE InitStep
  BY <1>1, OpenKeeps, AwaitPacketKeeps, InitKeeps DEF InitStep
<1>2. CASE Elapse
  BY <1>2, InitKeeps
<1>3. CASE Connect \/ InitSetPtc
  BY <1>3, PtcKeeps
<1>4. CASE RunStep
  BY <1>4, MainKeeps, GetOnePacketKeeps DEF RunStep
<1>5. CASE Stop \/ MainStep
  BY <1>5, MainKeeps
<1>6. CASE \E r \in Receivers : Arrival(r) \/ Receiving(r)
  BY <1>6, ArrivalKeeps, ReceivingKeeps
<1>7. CASE \E t \in Consumers : PopTimeout(t)
  BY <1>7, PopTimeoutKeeps
<1>8. CASE UNCHANGED vars
  <2>1. UNCHANGED <<origin, receiver, flags, lifeVars, pc, init, run, running_, source_type_,
                    source_fault_message_, source_fault_message_waiting_>>
    BY <1>8 DEF vars, receiveVars, receiver, flags, lifeVars, initVars, runVars
  <2>2. QueueInv' /\ RoomInv' /\ SilenceInv'
    BY <2>1, QueueStays, BufferStays DEF LifeInv, receiver, origin
  <2>3. ReceiverTypes' /\ LifeTypes' /\ MilestoneInv' /\ JoinedInv'
    BY <2>1, ReceiverTypesStay, LifeStays DEF LifeInv
  <2> QED
    BY <2>2, <2>3 DEF LifeInv
<1> QED
  BY <1>1, <1>2, <1>3, <1>4, <1>5, <1>6, <1>7, <1>8 DEF Next

\* What the code relies on holds in every state of the life of the driver.
LEMMA LifeInvariant == Spec => []LifeInv
  BY LifeInit, LifeStep, PTL DEF Spec

\* However many packets the buffer holds, every thread is where its loop can be,
\* and nobody writes beyond the buffer or waits in a call that is not his.
THEOREM TypeCorrect == Spec => []TypeOK
<1>1. LifeInv => TypeOK
  <2> SUFFICES ASSUME LifeInv PROVE TypeOK
    OBVIOUS
  <2>1. Origin!TypeOK
    BY SameTypes DEF LifeInv, QueueInv, Queue!RingInv
  <2>2. \A r \in Receivers : pc[r] = "storing" <=> call[r] # Origin!NoCall
    BY OurCalls, SameRing DEF LifeInv, QueueInv
  <2>3. {is_timeout_, source_fault_message_, source_fault_message_waiting_, running_,
         late, init_running, ptc_open, is_thread_runing_} \subseteq BOOLEAN
    BY DEF LifeInv, ReceiverTypes, LifeTypes, LifeFlags
  <2> QED
    BY <2>1, <2>2, <2>3 DEF TypeOK, LifeInv, ReceiverTypes, LifeTypes, LifePlaces
<1> QED
  BY <1>1, LifeInvariant, PTL

\* Run takes no packet while the initialisation thread looks for its first, and
\* parses no point cloud before that thread is done with the parser.
THEOREM HandoverHolds == Spec => []Handover
<1>1. LifeInv => Handover
  BY DEF LifeInv, MilestoneInv, Handover, Underway
<1> QED
  BY <1>1, LifeInvariant, PTL

\* Once Stop has deleted the lidar only its initialisation thread can be using
\* it, and that only with a source on udp.
THEOREM NoUseAfterStop == Spec => []DeletedUnused
<1>1. LifeInv => DeletedUnused
  BY DEF LifeInv, MilestoneInv, JoinedInv, DeletedUnused, Deleted, Underway
<1> QED
  BY <1>1, LifeInvariant, PTL

\* A receiver that is alone is never caught inside emplace_back, where nothing
\* would tell it to stop, whatever the size of the buffer.
THEOREM ReceiverAwake == Spec => []ReceiverNeverSleeps
<1>1. LifeInv => ReceiverNeverSleeps
  BY DEF LifeInv, RoomInv, ReceiverNeverSleeps
<1> QED
  BY <1>1, LifeInvariant, PTL

\* The buffer never reports one silence twice, however many packets it holds and
\* whatever the other receiver stores in between.
THEOREM OneReportPerSilence == Spec => []SilenceReportedOnce
<1>1. LifeInv => SilenceReportedOnce
  BY SameRing DEF LifeInv, SilenceInv, Apart, SilenceReportedOnce
<1> QED
  BY <1>1, LifeInvariant, PTL

=============================================================================
