------------------------ MODULE LidarPipeline_proofs ------------------------
(***************************************************************************)
(* Proofs about LidarPipeline: the types, and, from an account of every    *)
(* index that Run has queued, that the count is right and that what is     *)
(* published is computed.                                                  *)
(*                                                                         *)
(* The invariant has three parts.  FrameInv: how long the frame is, where  *)
(* Run is.  CountInv: the count and what is on its way make up what was    *)
(* queued; a step of a thread moves one index on, so that the sum stays.   *)
(* SlotInv: what is on its way is fresh, and every other slot has its      *)
(* points; so nothing is missing when the count is complete.               *)
(*                                                                         *)
(* And, in the end, that what FrameSplit_proofs and PtcClient_proofs show  *)
(* of the other two parts of MCLidarPipeline holds of the whole.           *)
(***************************************************************************)
EXTENDS MCLidarPipeline, FiniteSetTheorems, SequenceTheorems, TLAPS

\* A frame is under way; in the other places one is being given up.
Active == run \in {"loop", "queue", "complete?", "complete", "publish"}

\* FrameInv: how many packets a frame has, where Run is.
FrameInv ==
  /\ run \in {"loop", "complete?", "complete", "publish"} =>
       packet_num = packet_index /\ packet_index < MaxPackets
  /\ run = "queue" => packet_num = packet_index + 1 /\ packet_index < MaxPackets
  /\ Active => raw = 0 .. packet_num - 1
  /\ ~Overflowing => /\ run \notin {"clear", "sleep", "zero"}
                     /\ run = "queue" => packet_index < MaxPackets - 1
  /\ run = "zero" => packet_num = 0 /\ packet_index = 0 /\ raw = {}
  /\ run = "sleep" => packet_index = 0

\* CountInv: every index queued in this frame is computed or on its way.
CountInv ==
  /\ run \in {"loop", "queue", "complete?", "complete"} =>
       packet_index = compute_packet_num + Pending
  /\ run \in {"complete", "publish", "zero"} => Pending = 0
  /\ run = "publish" => compute_packet_num = 0

\* Slot s is on its way from Run to the count.
InFlight(s) ==
  \/ \E i \in 1 .. Len(decoded) : decoded[i] = s
  \/ parser.slot = s
  \/ \E h \in Handlers : job[h].slot = s
  \/ \E h \in Handlers : \E i \in 1 .. Len(handle[h]) : handle[h][i] = s

\* SlotInv: what is on its way is of this frame, and what has been queued and
\* is not on its way has its points.
OfThisFrame ==
  /\ \A i \in 1 .. Len(decoded) : decoded[i] < packet_index
  /\ \A h \in Handlers : \A i \in 1 .. Len(handle[h]) : handle[h][i] < packet_index
  /\ parser # NoJob => parser.fresh = TRUE /\ parser.slot < packet_index
  /\ \A h \in Handlers : job[h] # NoJob => job[h].fresh = TRUE /\ job[h].slot < packet_index
Parsed == \A s \in 0 .. packet_index - 1 : s \in points \/ InFlight(s)
SlotInv == Active => OfThisFrame /\ Parsed

-----------------------------------------------------------------------------
\* Types.

\* A packet that is no longer fresh is a packet; none stays none.
LEMMA StaleType ==
  ASSUME NEW j \in Jobs \cup {NoJob}
  PROVE  /\ Stale(j) \in Jobs \cup {NoJob}
         /\ Stale(j) = NoJob <=> j = NoJob
<1>1. CASE j \in Jobs
  <2>1. j.slot # -1 /\ j.slot \in Slots
    BY <1>1, PipelineAssumption DEF Jobs, Slots
  <2>2. Stale(j).slot = j.slot
    BY DEF Stale
  <2> QED
    BY <1>1, <2>1, <2>2 DEF Stale, Jobs, NoJob
<1>2. CASE j = NoJob
  BY <1>2 DEF Stale, NoJob
<1> QED
  BY <1>1, <1>2

\* A handler has a packet in hand or none, and a packet is not none.
LEMMA JobType ==
  ASSUME NEW slot \in Slots
  PROVE  Job(slot) \in Jobs /\ Job(slot) # NoJob
<1>1. (slot \in raw) \in BOOLEAN
  OBVIOUS
<1>2. slot # -1
  BY PipelineAssumption DEF Slots
<1>3. Job(slot).slot = slot
  BY DEF Job
<1> QED
  BY <1>1, <1>2, <1>3 DEF Job, Jobs, NoJob

\* Taking the first index off a list leaves the others.
LEMMA HeadAndTail ==
  ASSUME NEW A, NEW list \in Seq(A), list # <<>>
  PROVE  /\ Head(list) \in A /\ Head(list) = list[1]
         /\ Tail(list) \in Seq(A) /\ Len(Tail(list)) = Len(list) - 1 /\ Len(list) >= 1
         /\ \A i \in 1 .. Len(Tail(list)) : Tail(list)[i] = list[i + 1]
  BY HeadTailProperties, LenProperties, EmptySeq

-----------------------------------------------------------------------------
\* Counting what is on its way.

\* There are finitely many handlers.
LEMMA HandlersFinite == IsFiniteSet(Handlers)
  BY FS_Interval, PipelineAssumption DEF Handlers

\* The sets that Pending counts are finite.
LEMMA CountsAreNat ==
  ASSUME NEW jobs, NEW lists
  PROVE  /\ IsFiniteSet(Computing(jobs)) /\ Cardinality(Computing(jobs)) \in Nat
         /\ IsFiniteSet(Listed(lists)) /\ Cardinality(Listed(lists)) \in Nat
<1>1. Computing(jobs) \subseteq Handlers
  BY DEF Computing
<1>2. Listed(lists) \subseteq Handlers \X (1 .. BufferSize)
  BY DEF Listed
<1>3. IsFiniteSet(1 .. BufferSize)
  BY FS_Interval, PipelineAssumption
<1>4. IsFiniteSet(Handlers \X (1 .. BufferSize))
  BY <1>3, HandlersFinite, FS_Product
<1> QED
  BY <1>1, <1>2, <1>4, HandlersFinite, FS_Subset, FS_CardinalityType

\* A handler that takes a packet in hand is one more, ...
LEMMA OneMoreJob ==
  ASSUME NEW jobs, NEW jobs2, NEW h \in Handlers, jobs[h] = NoJob, jobs2[h] # NoJob,
         \A g \in Handlers \ {h} : jobs2[g] = jobs[g]
  PROVE  Cardinality(Computing(jobs2)) = Cardinality(Computing(jobs)) + 1
<1>1. Computing(jobs2) = Computing(jobs) \cup {h} /\ h \notin Computing(jobs)
  BY DEF Computing
<1> QED
  BY <1>1, CountsAreNat, FS_AddElement

\* ... and an index that is put on a handler's list.
LEMMA OneMoreListed ==
  ASSUME NEW lists \in [Handlers -> Seq(Slots)], NEW lists2 \in [Handlers -> Seq(Slots)],
         NEW h \in Handlers, Len(lists2[h]) = Len(lists[h]) + 1, Len(lists2[h]) <= BufferSize,
         \A g \in Handlers \ {h} : Len(lists2[g]) = Len(lists[g])
  PROVE  Cardinality(Listed(lists2)) = Cardinality(Listed(lists)) + 1
<1> DEFINE e == <<h, Len(lists2[h])>>
<1>1. \A g \in Handlers : Len(lists[g]) \in Nat /\ Len(lists2[g]) \in Nat
  BY LenProperties
<1>2. e \in Handlers \X (1 .. BufferSize) /\ e[1] = h /\ e[2] = Len(lists[h]) + 1
  BY <1>1, PipelineAssumption
<1>3. e \notin Listed(lists)
  BY <1>1, <1>2 DEF Listed
<1>4. ASSUME NEW d \in Handlers \X (1 .. BufferSize)
      PROVE  d[2] <= Len(lists2[d[1]]) <=> d[2] <= Len(lists[d[1]]) \/ d = e
  <2>1. d[1] \in Handlers /\ d[2] \in 1 .. BufferSize /\ d = <<d[1], d[2]>>
    OBVIOUS
  <2>2. CASE d[1] = h
    BY <1>1, <1>2, <2>1, <2>2
  <2>3. CASE d[1] # h
    BY <1>1, <1>2, <2>1, <2>3
  <2> QED
    BY <2>2, <2>3
<1>5. Listed(lists2) = Listed(lists) \cup {e}
  BY <1>2, <1>4 DEF Listed
<1> QED
  BY <1>3, <1>5, CountsAreNat, FS_AddElement

\* There are n numbers from 1 to n.
LEMMA FirstN ==
  ASSUME NEW n \in Nat
  PROVE  IsFiniteSet(1 .. n) /\ Cardinality(1 .. n) = n
<1>1. 1 \in Int /\ n \in Int
  OBVIOUS
<1>2. IsFiniteSet(1 .. n) /\ Cardinality(1 .. n) = IF 1 > n THEN 0 ELSE n - 1 + 1
  BY <1>1, FS_Interval, Zenon
<1> QED
  BY <1>2

\* A handler's list is no longer than what is listed.
LEMMA ListedBoundsLength ==
  ASSUME NEW lists \in [Handlers -> Seq(Slots)], NEW h \in Handlers, Len(lists[h]) <= BufferSize
  PROVE  Len(lists[h]) <= Cardinality(Listed(lists))
<1> DEFINE Mine == {h} \X (1 .. Len(lists[h]))
<1>1. Len(lists[h]) \in Nat
  BY LenProperties
<1>2. IsFiniteSet({h}) /\ Cardinality({h}) = 1
  BY FS_Singleton
<1>3. IsFiniteSet(1 .. Len(lists[h])) /\ Cardinality(1 .. Len(lists[h])) = Len(lists[h])
  BY <1>1, FirstN
<1>4. Cardinality(Mine) = Len(lists[h])
  <2> HIDE DEF Mine
  <2>1. \A A, B : IsFiniteSet(A) /\ IsFiniteSet(B)
                    => Cardinality(A \X B) = Cardinality(A) * Cardinality(B)
    BY FS_Product
  <2>2. Cardinality(Mine) = Cardinality({h}) * Cardinality(1 .. Len(lists[h]))
    BY <1>2, <1>3, <2>1 DEF Mine
  <2> QED
    BY <1>1, <1>2, <1>3, <2>2
<1>5. ASSUME NEW d \in Mine
      PROVE  d \in Listed(lists)
  <2>1. d = <<h, d[2]>> /\ d[1] = h /\ d[2] \in 1 .. Len(lists[h])
    OBVIOUS
  <2>2. d[2] \in 1 .. BufferSize /\ d[2] <= Len(lists[d[1]])
    BY <1>1, <2>1, PipelineAssumption
  <2> QED
    BY <2>1, <2>2 DEF Listed
<1> QED
  BY <1>4, <1>5, CountsAreNat, FS_Subset

\* Nothing is on its way if and only if all places are empty.
LEMMA NothingPending ==
  ASSUME TypeOK
  PROVE  /\ Pending \in Nat
         /\ Pending = 0 <=> /\ decoded = <<>> /\ parser = NoJob
                           /\ \A h \in Handlers : job[h] = NoJob /\ handle[h] = <<>>
<1>1. Len(decoded) \in Nat /\ (Len(decoded) = 0 <=> decoded = <<>>)
  BY LenProperties, EmptySeq DEF TypeOK, ListTypes
<1>2. \A h \in Handlers : Len(handle[h]) \in Nat /\ (Len(handle[h]) = 0 <=> handle[h] = <<>>)
  BY LenProperties, EmptySeq DEF TypeOK, ListTypes
<1>3. Cardinality(Computing(job)) = 0 <=> \A h \in Handlers : job[h] = NoJob
  <2>1. Computing(job) = {} <=> \A h \in Handlers : job[h] = NoJob
    BY DEF Computing
  <2> QED
    BY <2>1, CountsAreNat, FS_EmptySet
<1>4. Cardinality(Listed(handle)) = 0 <=> \A h \in Handlers : handle[h] = <<>>
  <2>1. ASSUME NEW h \in Handlers, Cardinality(Listed(handle)) = 0
        PROVE  handle[h] = <<>>
    <3>1. Len(handle[h]) <= 0
      BY <2>1, ListedBoundsLength DEF TypeOK, ListTypes
    <3> QED
      BY <1>2, <3>1
  <2>2. ASSUME \A h \in Handlers : handle[h] = <<>>
        PROVE  Listed(handle) = {}
    BY <1>2, <2>2, PipelineAssumption DEF Listed
  <2> QED
    BY <2>1, <2>2, FS_EmptySet
<1>5. /\ Cardinality(Computing(job)) \in Nat /\ Cardinality(Listed(handle)) \in Nat
      /\ (IF parser = NoJob THEN 0 ELSE 1) \in 0 .. 1
  BY CountsAreNat
<1>6. Pending \in Nat
  BY <1>1, <1>5 DEF Pending
<1>7. Pending = 0 <=> /\ Len(decoded) = 0 /\ parser = NoJob
                      /\ Cardinality(Computing(job)) = 0 /\ Cardinality(Listed(handle)) = 0
  BY <1>1, <1>5 DEF Pending
<1> QED
  BY <1>1, <1>3, <1>4, <1>6, <1>7

\* The same, of the next state.
LEMMA NothingPendingNext ==
  ASSUME TypeOK'
  PROVE  /\ Pending' \in Nat
         /\ Pending' = 0 <=> (/\ decoded = <<>> /\ parser = NoJob
                            /\ \A h \in Handlers : job[h] = NoJob /\ handle[h] = <<>>)'
<1>1. (TypeOK => /\ Pending \in Nat
                 /\ Pending = 0 <=> /\ decoded = <<>> /\ parser = NoJob
                       /\ \A h \in Handlers : job[h] = NoJob /\ handle[h] = <<>>)'
  BY NothingPending, PTL
<1> QED
  BY <1>1

-----------------------------------------------------------------------------
\* Types and the length of a frame.

TypeInv == TypeOK /\ FrameInv

\* What computes a packet sets points of its slot, or clears them, and counts.
LEMMA ComputeType ==
  ASSUME TypeOK, NEW j \in Jobs, Compute(j)
  PROVE  points' \subseteq Slots /\ compute_packet_num' = compute_packet_num + 1
  BY DEF TypeOK, FrameTypes, Compute, Jobs

\* The initial state has its types, and an empty frame.
LEMMA TypeInvInit == Init => TypeInv
  BY PipelineAssumption, EmptySeq
  DEF Init, TypeInv, TypeOK, FrameTypes, ListTypes, JobTypes, FlagTypes, FrameInv, Active,
      Started, Handlers, Jobs, NoJob

\* Steps that leave the queues, or what is in hand, alone.
LEMMA ListsStay == ListTypes /\ UNCHANGED <<decoded, handle>> => ListTypes'
  BY DEF ListTypes

\* (Of what is in hand.)
LEMMA JobsStay == JobTypes /\ UNCHANGED <<parser, job, handler>> => JobTypes'
<1> SUFFICES ASSUME JobTypes, UNCHANGED <<parser, job, handler>> PROVE JobTypes'
  OBVIOUS
<1>1. (\A h \in Handlers : handler[h] = "computes" <=> job[h] # NoJob)'
  BY DEF JobTypes
<1> QED
  BY <1>1 DEF JobTypes

\* Aging leaves handlers that compute with a packet, and the others with none.
LEMMA AgedJobTypes ==
  ASSUME JobTypes, Age, UNCHANGED handler
  PROVE  JobTypes'
<1>1. parser' \in Jobs \cup {NoJob}
  BY StaleType DEF JobTypes, Age
<1>2. \A h \in Handlers : Stale(job[h]) \in Jobs \cup {NoJob}
  BY StaleType DEF JobTypes
<1>3. \A h \in Handlers : Stale(job[h]) = NoJob <=> job[h] = NoJob
  BY StaleType DEF JobTypes
<1>4. job' = [h \in Handlers |-> Stale(job[h])]
  BY DEF Age
<1>5. job' \in [Handlers -> Jobs \cup {NoJob}]
  BY <1>2, <1>4
<1>6. \A h \in Handlers : job'[h] = NoJob <=> job[h] = NoJob
  BY <1>3, <1>4, Zenon
<1> QED
  BY <1>1, <1>5, <1>6 DEF JobTypes

\* Every step keeps types and the length of the frame.
LEMMA TypeInvStep ==
  ASSUME TypeInv, [Next]_vars
  PROVE  TypeInv'
<1> USE PipelineAssumption DEF TypeInv, TypeOK
<1>1. CASE DecodeMore
  <2>1. FrameTypes'
    BY <1>1 DEF DecodeMore, FrameTypes, FrameInv, Slots, frame, queues
  <2>2. FlagTypes'
    BY <1>1 DEF DecodeMore, FlagTypes, flags
  <2>3. raw' = 0 .. packet_num' - 1
    BY <1>1 DEF DecodeMore, FrameTypes, FrameInv, Active
  <2>4. FrameInv'
    BY <1>1, <2>3 DEF DecodeMore, FrameTypes, FrameInv, Active
  <2>5. ListTypes' /\ JobTypes'
    BY <1>1, ListsStay, JobsStay DEF DecodeMore, queues
  <2> QED
    BY <2>1, <2>2, <2>4, <2>5
<1>2. CASE Queue
  <2>1. packet_index < MaxPackets /\ packet_num = packet_index + 1 /\ packet_index \in Slots
    BY <1>2 DEF Queue, FrameTypes, FrameInv, Slots
  <2>2. FrameTypes'
    BY <1>2, <2>1 DEF Queue, FrameTypes
  <2>3. FlagTypes'
    BY <1>2, <2>1 DEF Queue, FlagTypes, flags
  <2>4. FrameInv'
    BY <1>2, <2>1 DEF Queue, FrameTypes, FrameInv, Active
  <2>5. ListTypes'
    BY <1>2, <2>1, AppendProperties DEF Queue, ListTypes
  <2>6. JobTypes'
    BY <1>2, JobsStay DEF Queue
  <2> QED
    BY <2>2, <2>3, <2>4, <2>5, <2>6
<1>3. CASE Split
  <2>1. FrameTypes' /\ FlagTypes' /\ FrameInv'
    BY <1>3 DEF Split, FrameTypes, FlagTypes, FrameInv, Active, Slots, frame, queues, flags
  <2>2. ListTypes'
    BY <1>3, ListsStay DEF Split, frame, queues, flags
  <2>3. JobTypes'
    BY <1>3, JobsStay DEF Split, frame, queues, flags
  <2> QED
    BY <2>1, <2>2, <2>3
<1>4. CASE Complete
  <2>1. FrameTypes' /\ FlagTypes' /\ FrameInv'
    BY <1>4 DEF Complete, FrameTypes, FlagTypes, FrameInv, Active, Slots, frame, queues, flags
  <2>2. ListTypes'
    BY <1>4, ListsStay DEF Complete, frame, queues, flags
  <2>3. JobTypes'
    BY <1>4, JobsStay DEF Complete, frame, queues, flags
  <2> QED
    BY <2>1, <2>2, <2>3
<1>5. CASE ZeroCount
  <2>1. FrameTypes' /\ FlagTypes' /\ FrameInv'
    BY <1>5 DEF ZeroCount, FrameTypes, FlagTypes, FrameInv, Active, Slots, frame, queues, flags
  <2>2. ListTypes'
    BY <1>5, ListsStay DEF ZeroCount, frame, queues, flags
  <2>3. JobTypes'
    BY <1>5, JobsStay DEF ZeroCount, frame, queues, flags
  <2> QED
    BY <2>1, <2>2, <2>3
<1>6. CASE Publish
  <2>1. FrameTypes'
    BY <1>6 DEF Publish, FrameTypes, Slots
  <2>2. FlagTypes'
    BY <1>6 DEF Publish, FlagTypes, flags
  <2>3. FrameInv'
    BY <1>6 DEF Publish, FrameTypes, FrameInv, Active
  <2>4. ListTypes'
    BY <1>6, ListsStay DEF Publish
  <2>5. JobTypes'
    BY <1>6, AgedJobTypes DEF Publish
  <2> QED
    BY <2>1, <2>2, <2>3, <2>4, <2>5
<1>7. CASE ClearPacketBuffer
  <2>1. FrameTypes'
    BY <1>7 DEF ClearPacketBuffer, FrameTypes, Slots
  <2>2. FlagTypes'
    BY <1>7 DEF ClearPacketBuffer, FlagTypes, flags
  <2>3. FrameInv'
    BY <1>7 DEF ClearPacketBuffer, FrameTypes, FrameInv, Active
  <2>4. ListTypes'
    BY <1>7, EmptySeq DEF ClearPacketBuffer, ListTypes
  <2>5. JobTypes'
    BY <1>7, JobsStay DEF ClearPacketBuffer, queues
  <2> QED
    BY <2>1, <2>2, <2>3, <2>4, <2>5
<1>8. CASE Update
  <2>1. FrameTypes'
    BY <1>8 DEF Update, FrameTypes, Slots
  <2>2. FlagTypes'
    BY <1>8 DEF Update, FlagTypes, flags
  <2>3. FrameInv'
    BY <1>8 DEF Update, FrameTypes, FrameInv, Active
  <2>4. ListTypes'
    BY <1>8, ListsStay DEF Update
  <2>5. JobTypes'
    BY <1>8, AgedJobTypes DEF Update
  <2> QED
    BY <2>1, <2>2, <2>3, <2>4, <2>5
<1>9. CASE Rezero
  <2>1. FrameTypes'
    BY <1>9 DEF Rezero, FrameTypes, Slots
  <2>2. FlagTypes'
    BY <1>9 DEF Rezero, FlagTypes, flags
  <2>3. FrameInv'
    BY <1>9 DEF Rezero, FrameTypes, FrameInv, Active
  <2>4. ListTypes'
    BY <1>9, ListsStay DEF Rezero, queues
  <2>5. JobTypes'
    BY <1>9, JobsStay DEF Rezero, queues
  <2> QED
    BY <2>1, <2>2, <2>3, <2>4, <2>5
<1>10. CASE RunExit
  <2>1. FrameTypes' /\ FlagTypes' /\ FrameInv'
    BY <1>10 DEF RunExit, FrameTypes, FlagTypes, FrameInv, Active, Slots, frame, queues, flags
  <2>2. ListTypes'
    BY <1>10, ListsStay DEF RunExit, frame, queues, flags
  <2>3. JobTypes'
    BY <1>10, JobsStay DEF RunExit, frame, queues, flags
  <2> QED
    BY <2>1, <2>2, <2>3
<1>11. CASE ParserPop
  <2>1. FrameTypes' /\ FlagTypes' /\ FrameInv'
    BY <1>11 DEF ParserPop, FrameTypes, FlagTypes, FrameInv, Active, frame, flags
  <2>2. ListTypes' /\ Head(decoded) \in Slots
    BY <1>11, HeadAndTail DEF ParserPop, ListTypes
  <2>3. JobTypes'
    BY <1>11, <2>2, JobType DEF ParserPop, JobTypes
  <2> QED
    BY <2>1, <2>2, <2>3
<1>12. CASE ParserCompute
  <2>1. points' \subseteq Slots /\ compute_packet_num' = compute_packet_num + 1
    BY <1>12, ComputeType DEF ParserCompute, JobTypes
  <2>2. FrameTypes'
    BY <1>12, <2>1 DEF ParserCompute, FrameTypes
  <2>3. FlagTypes'
    BY <1>12, <2>1 DEF ParserCompute, FlagTypes, flags
  <2>4. FrameInv'
    BY <1>12 DEF ParserCompute, FrameInv, Active
  <2>5. ListTypes' /\ JobTypes'
    BY <1>12, ListsStay DEF ParserCompute, JobTypes
  <2> QED
    BY <2>2, <2>3, <2>4, <2>5
<1>13. ASSUME NEW h \in Handlers, Dispatch(h)
      PROVE  TypeInv'
  <2> DEFINE list == Append(handle[h], parser.slot)
  <2>1. FrameTypes' /\ FlagTypes' /\ FrameInv'
    BY <1>13 DEF Dispatch, FrameTypes, FlagTypes, FrameInv, Active, frame, flags
  <2>2. parser.slot \in Slots /\ handle[h] \in Seq(Slots) /\ Len(handle[h]) <= BufferSize
    BY <1>13 DEF Dispatch, JobTypes, ListTypes, Jobs
  <2>3. /\ list \in Seq(Slots) /\ Len(list) = Len(handle[h]) + 1 /\ Len(handle[h]) \in Nat
        /\ Tail(list) \in Seq(Slots) /\ Len(Tail(list)) = Len(list) - 1
    BY <2>2, AppendProperties, HeadAndTail, LenProperties
  <2>4. ListTypes'
    <3>1. handle' = [handle EXCEPT ![h] = IF Len(list) > BufferSize THEN Tail(list) ELSE list]
      BY <1>13 DEF Dispatch
    <3>2. \A g \in Handlers : /\ handle'[g] \in Seq(Slots) /\ Len(handle'[g]) <= BufferSize
                             /\ handle'[g] = IF g # h THEN handle[g]
                                  ELSE IF Len(list) > BufferSize THEN Tail(list) ELSE list
      BY <2>2, <2>3, <3>1 DEF ListTypes
    <3>3. handle' \in [Handlers -> Seq(Slots)]
      BY <2>2, <2>3, <3>1 DEF ListTypes
    <3> QED
      BY <1>13, <3>2, <3>3 DEF Dispatch, ListTypes
  <2>5. JobTypes'
    BY <1>13 DEF Dispatch, JobTypes
  <2> QED
    BY <2>1, <2>4, <2>5
<1>14. ASSUME NEW h \in Handlers, HandlerTest(h)
      PROVE  TypeInv'
  <2>1. FrameTypes' /\ FlagTypes' /\ FrameInv'
    BY <1>14 DEF HandlerTest, FrameTypes, FlagTypes, FrameInv, Active, frame, flags
  <2>2. CASE running_ /\ handle[h] # <<>>
    <3>1. /\ Head(handle[h]) \in Slots
          /\ Tail(handle[h]) \in Seq(Slots) /\ Len(Tail(handle[h])) <= BufferSize
      BY <2>2, HeadAndTail, LenProperties DEF ListTypes
    <3>2. ListTypes'
      BY <1>14, <2>2, <3>1 DEF HandlerTest, ListTypes
    <3>3. JobTypes'
      BY <1>14, <2>2, <3>1, JobType DEF HandlerTest, JobTypes
    <3> QED
      BY <2>1, <3>2, <3>3
  <2>3. CASE ~(running_ /\ handle[h] # <<>>)
    <3>1. ListTypes'
      BY <1>14, <2>3, ListsStay DEF HandlerTest
    <3>2. JobTypes'
      BY <1>14, <2>3 DEF HandlerTest, JobTypes
    <3> QED
      BY <2>1, <3>1, <3>2
  <2> QED
    BY <2>2, <2>3
<1>15. ASSUME NEW h \in Handlers, HandlerWait(h)
      PROVE  TypeInv'
  <2>1. FrameTypes' /\ FlagTypes' /\ FrameInv'
    BY <1>15 DEF HandlerWait, FrameTypes, FlagTypes, FrameInv, Active, Slots, frame, queues, flags
  <2>2. ListTypes'
    BY <1>15, ListsStay DEF HandlerWait, frame, queues, flags
  <2>3. JobTypes'
    BY <1>15 DEF HandlerWait, JobTypes, frame, queues, flags
  <2> QED
    BY <2>1, <2>2, <2>3
<1>16. ASSUME NEW h \in Handlers, HandlerCompute(h)
      PROVE  TypeInv'
  <2>1. job[h] \in Jobs
    BY <1>16 DEF HandlerCompute, JobTypes
  <2>2. points' \subseteq Slots /\ compute_packet_num' = compute_packet_num + 1
    BY <1>16, <2>1, ComputeType DEF HandlerCompute
  <2>3. FrameTypes'
    BY <1>16, <2>2 DEF HandlerCompute, FrameTypes
  <2>4. FlagTypes'
    BY <1>16, <2>2 DEF HandlerCompute, FlagTypes, flags
  <2>5. FrameInv'
    BY <1>16 DEF HandlerCompute, FrameInv, Active
  <2>6. ListTypes'
    BY <1>16, ListsStay DEF HandlerCompute
  <2>7. JobTypes'
    BY <1>16 DEF HandlerCompute, JobTypes
  <2> QED
    BY <2>3, <2>4, <2>5, <2>6, <2>7
<1>17. CASE StopBegin
  <2>1. FrameTypes' /\ FlagTypes' /\ FrameInv'
    BY <1>17 DEF StopBegin, FrameTypes, FlagTypes, FrameInv, Active, Slots, frame, queues, flags
  <2>2. ListTypes'
    BY <1>17, ListsStay DEF StopBegin, frame, queues, flags
  <2>3. JobTypes'
    BY <1>17, JobsStay DEF StopBegin, frame, queues, flags
  <2> QED
    BY <2>1, <2>2, <2>3
<1>18. CASE JoinRun
  <2>1. FrameTypes' /\ FlagTypes' /\ FrameInv'
    BY <1>18 DEF JoinRun, FrameTypes, FlagTypes, FrameInv, Active, Slots, frame, queues, flags
  <2>2. ListTypes'
    BY <1>18, ListsStay DEF JoinRun, frame, queues, flags
  <2>3. JobTypes'
    BY <1>18, JobsStay DEF JoinRun, frame, queues, flags
  <2> QED
    BY <2>1, <2>2, <2>3
<1>19. CASE JoinParser
  <2>1. FrameTypes' /\ FlagTypes' /\ FrameInv'
    BY <1>19 DEF JoinParser, FrameTypes, FlagTypes, FrameInv, Active, Slots, frame, queues, flags
  <2>2. ListTypes'
    BY <1>19, ListsStay DEF JoinParser, frame, queues, flags
  <2>3. JobTypes'
    BY <1>19, JobsStay DEF JoinParser, frame, queues, flags
  <2> QED
    BY <2>1, <2>2, <2>3
<1>20. CASE NotifyHandlers
  <2>1. FrameTypes' /\ FlagTypes' /\ FrameInv'
    BY <1>20 DEF NotifyHandlers, FrameTypes, FlagTypes, FrameInv, Active, Slots, frame, queues, flags
  <2>2. ListTypes'
    BY <1>20, ListsStay DEF NotifyHandlers, frame, queues, flags
  <2>3. JobTypes'
    BY <1>20 DEF NotifyHandlers, JobTypes, frame, queues, flags
  <2> QED
    BY <2>1, <2>2, <2>3
<1>21. CASE JoinHandlers
  <2>1. FrameTypes' /\ FlagTypes' /\ FrameInv'
    BY <1>21 DEF JoinHandlers, FrameTypes, FlagTypes, FrameInv, Active, Slots, frame, queues, flags
  <2>2. ListTypes'
    BY <1>21, ListsStay DEF JoinHandlers, frame, queues, flags
  <2>3. JobTypes'
    BY <1>21, JobsStay DEF JoinHandlers, frame, queues, flags
  <2> QED
    BY <2>1, <2>2, <2>3
<1>22. CASE UNCHANGED vars
  <2>1. FrameTypes' /\ FlagTypes' /\ FrameInv'
    BY <1>22 DEF FrameTypes, FlagTypes, FrameInv, Active, Slots, vars, frame, flags
  <2> QED
    BY <1>22, <2>1, ListsStay, JobsStay DEF vars, queues
<1> QED
  BY <1>1, <1>2, <1>3, <1>4, <1>5, <1>6, <1>7, <1>8, <1>9, <1>10, <1>11, <1>12, <1>13,
     <1>14, <1>15, <1>16, <1>17, <1>18, <1>19, <1>20, <1>21, <1>22
  DEF Next, RunStep, RunWorks, ParserStep, HandlerStep, MainStep

-----------------------------------------------------------------------------
\* What has been counted and what is on its way, together, stay the same.

\* A step that moves no index changes nothing of what is on its way.
LEMMA PendingStays ==
  ASSUME UNCHANGED <<decoded, parser, handle, job>>
  PROVE  Pending' = Pending
  BY DEF Pending, Computing, Listed

\* The terms of Pending, for the arithmetic of a step.
LEMMA Terms ==
  ASSUME TypeOK
  PROVE  /\ compute_packet_num \in Nat /\ Len(decoded) \in Nat
         /\ Cardinality(Computing(job)) \in Nat /\ Cardinality(Listed(handle)) \in Nat
  BY CountsAreNat, LenProperties DEF TypeOK, FrameTypes, ListTypes

\* One index moves a step further, or a place further: ...
LEMMA PopKeepsSum ==
  ASSUME TypeOK, ParserPop
  PROVE  UNCHANGED compute_packet_num /\ Pending' = Pending
<1>1. Len(decoded') = Len(decoded) - 1 /\ Head(decoded) \in Slots
  BY HeadAndTail DEF TypeOK, ListTypes, ParserPop
<1>2. parser = NoJob /\ parser' # NoJob
  BY <1>1, JobType DEF ParserPop
<1>3. /\ Cardinality(Computing(job))' = Cardinality(Computing(job))
      /\ Cardinality(Listed(handle))' = Cardinality(Listed(handle))
  BY DEF ParserPop, Computing, Listed
<1> QED
  BY <1>1, <1>2, <1>3, Terms DEF Pending, ParserPop, frame

\* ... into the count, when the parser computes by itself, ...
LEMMA ParserComputeKeepsSum ==
  ASSUME TypeOK, ParserCompute
  PROVE  compute_packet_num' = compute_packet_num + 1 /\ Pending' = Pending - 1
<1>1. parser # NoJob /\ parser' = NoJob /\ UNCHANGED decoded
  BY DEF ParserCompute
<1>2. /\ Cardinality(Computing(job))' = Cardinality(Computing(job))
      /\ Cardinality(Listed(handle))' = Cardinality(Listed(handle))
  BY DEF ParserCompute, Computing, Listed
<1> QED
  BY <1>1, <1>2, Terms DEF Pending, ParserCompute, Compute

\* ... onto a handler's list, which has room for it, ...
LEMMA DispatchKeepsSum ==
  ASSUME TypeOK, TypeOK', NEW h \in Handlers, Dispatch(h), Len(handle[h]) < BufferSize
  PROVE  /\ UNCHANGED compute_packet_num /\ Pending' = Pending
         /\ handle' = [handle EXCEPT ![h] = Append(handle[h], parser.slot)]
<1> DEFINE list == Append(handle[h], parser.slot)
<1>1. parser.slot \in Slots /\ handle[h] \in Seq(Slots)
  BY DEF TypeOK, JobTypes, ListTypes, Dispatch, Jobs
<1>2. Len(list) = Len(handle[h]) + 1 /\ Len(handle[h]) \in Nat
  BY <1>1, AppendProperties, LenProperties
<1>3. handle' = [handle EXCEPT ![h] = list]
  <2>1. handle' = [handle EXCEPT ![h] = IF Len(list) > BufferSize THEN Tail(list) ELSE list]
    BY DEF Dispatch
  <2>2. ~(Len(list) > BufferSize)
    BY <1>2, PipelineAssumption
  <2> QED
    BY <2>1, <2>2, Zenon
<1>4. Len(handle'[h]) = Len(handle[h]) + 1 /\ \A g \in Handlers \ {h} : handle'[g] = handle[g]
  BY <1>2, <1>3 DEF TypeOK, ListTypes
<1>5. Cardinality(Listed(handle')) = Cardinality(Listed(handle)) + 1
  BY <1>2, <1>4, OneMoreListed, PipelineAssumption DEF TypeOK, ListTypes
<1>6. Cardinality(Listed(handle))' = Cardinality(Listed(handle'))
  BY DEF Listed
<1>7. Cardinality(Computing(job))' = Cardinality(Computing(job))
  BY DEF Dispatch, Computing
<1>8. Pending' = Pending
  <2>1. parser # NoJob /\ parser' = NoJob /\ UNCHANGED decoded
    BY DEF Dispatch
  <2> QED
    BY <1>5, <1>6, <1>7, <2>1, Terms DEF Pending
<1> QED
  BY <1>3, <1>8 DEF Dispatch, frame

\* ... from there into the handler's hand, ...
LEMMA TestKeepsSum ==
  ASSUME TypeOK, TypeOK', NEW h \in Handlers, HandlerTest(h)
  PROVE  UNCHANGED compute_packet_num /\ Pending' = Pending
<1>1. CASE running_ /\ handle[h] # <<>>
  <2>1. /\ handle' = [handle EXCEPT ![h] = Tail(@)] /\ job' = [job EXCEPT ![h] = Job(Head(handle[h]))]
        /\ handler[h] = "test"
    BY <1>1 DEF HandlerTest
  <2>2. Head(handle[h]) \in Slots /\ Len(Tail(handle[h])) = Len(handle[h]) - 1
    BY <1>1, HeadAndTail DEF TypeOK, ListTypes
  <2>3. job[h] = NoJob /\ job'[h] # NoJob /\ \A g \in Handlers \ {h} : job'[g] = job[g]
    BY <2>1, <2>2, JobType DEF TypeOK, JobTypes
  <2>4. Cardinality(Computing(job')) = Cardinality(Computing(job)) + 1
    BY <2>3, OneMoreJob
  <2>5. /\ Len(handle[h]) = Len(handle'[h]) + 1 /\ Len(handle[h]) <= BufferSize
        /\ \A g \in Handlers \ {h} : Len(handle[g]) = Len(handle'[g])
    <3>1. Len(handle[h]) \in Nat
      BY LenProperties DEF TypeOK, ListTypes
    <3> QED
      BY <2>1, <2>2, <3>1 DEF TypeOK, ListTypes
  <2>6. Cardinality(Listed(handle)) = Cardinality(Listed(handle')) + 1
    <3>1. handle \in [Handlers -> Seq(Slots)] /\ handle' \in [Handlers -> Seq(Slots)]
      BY DEF TypeOK, ListTypes
    <3> QED
      BY <2>5, <3>1, OneMoreListed
  <2>7. /\ Cardinality(Computing(job))' = Cardinality(Computing(job'))
        /\ Cardinality(Listed(handle))' = Cardinality(Listed(handle'))
        /\ Cardinality(Listed(handle')) \in Nat
    BY CountsAreNat DEF Computing, Listed
  <2>8. UNCHANGED <<decoded, parser, compute_packet_num>>
    BY DEF HandlerTest, frame
  <2> QED
    BY <2>4, <2>6, <2>7, <2>8, Terms DEF Pending
<1>2. CASE ~(running_ /\ handle[h] # <<>>)
  BY <1>2, PendingStays DEF HandlerTest, frame
<1> QED
  BY <1>1, <1>2

\* ... and from there into the count.
LEMMA HandlerComputeKeepsSum ==
  ASSUME TypeOK, NEW h \in Handlers, HandlerCompute(h)
  PROVE  compute_packet_num' = compute_packet_num + 1 /\ Pending' = Pending - 1
<1>1. job[h] # NoJob /\ job'[h] = NoJob /\ \A g \in Handlers \ {h} : job[g] = job'[g]
  BY DEF HandlerCompute, TypeOK, JobTypes
<1>2. Cardinality(Computing(job)) = Cardinality(Computing(job')) + 1
  BY <1>1, OneMoreJob
<1>3. /\ Cardinality(Computing(job))' = Cardinality(Computing(job'))
      /\ Cardinality(Computing(job')) \in Nat
      /\ Cardinality(Listed(handle))' = Cardinality(Listed(handle))
  BY CountsAreNat DEF HandlerCompute, Computing, Listed
<1> QED
  BY <1>2, <1>3, Terms DEF Pending, HandlerCompute, Compute

-----------------------------------------------------------------------------
\* RoomAndTime: a handler's list has room for the indices of a frame (the code's
\* sizes are 8000 and 2000), and no frame is given up, or if one is, what is
\* being computed then ends within the 100 us of Run.
RoomAndTime == MaxPackets <= BufferSize /\ (SleepCovers \/ ~Overflowing)

PipelineInv == TypeInv /\ CountInv /\ SlotInv

\* Where the count is accounted for, a list never loses an index.
LEMMA RoomOnList ==
  ASSUME RoomAndTime, TypeInv, CountInv, Active \/ run = "zero",
         NEW h \in Handlers, Dispatch(h)
  PROVE  Len(handle[h]) < BufferSize
<1>1. Len(handle[h]) \in Nat /\ Len(handle[h]) <= Cardinality(Listed(handle))
  BY ListedBoundsLength, LenProperties DEF TypeInv, TypeOK, ListTypes
<1>2. parser # NoJob
  BY DEF Dispatch
<1>3. Pending \in Nat /\ Pending >= Len(handle[h]) + 1
  BY <1>1, <1>2, Terms DEF TypeInv, Pending
<1>4. run \in {"loop", "queue", "complete?"}
  BY <1>3 DEF CountInv, Active
<1>5. Pending <= packet_index /\ packet_index <= MaxPackets
  BY <1>3, <1>4, Terms DEF TypeInv, TypeOK, FrameTypes, CountInv
<1> QED
  BY <1>1, <1>3, <1>5, PipelineAssumption DEF RoomAndTime, TypeInv, TypeOK, FrameTypes

\* Steps of the other threads: what they do not change of Run's.
WorkStep ==
  ParserStep \/ \E h \in Handlers : HandlerStep(h)

\* A step of the parser or of a handler leaves the sum as it is.
LEMMA WorkKeepsSum ==
  ASSUME RoomAndTime, TypeInv, TypeInv', CountInv, Active \/ run = "zero", WorkStep
  PROVE  /\ compute_packet_num' + Pending' = compute_packet_num + Pending
         /\ compute_packet_num' >= compute_packet_num
         /\ UNCHANGED <<run, packet_index, packet_num, raw>>
<1> USE DEF TypeInv
<1>1. Pending \in Nat /\ compute_packet_num \in Nat /\ Pending' \in Nat
  BY NothingPending, NothingPendingNext, Terms
<1> DEFINE Goal == /\ compute_packet_num' + Pending' = compute_packet_num + Pending
                  /\ compute_packet_num' >= compute_packet_num
                  /\ UNCHANGED <<run, packet_index, packet_num, raw>>
<1>2. CASE ParserPop
  BY <1>1, <1>2, PopKeepsSum DEF ParserPop, frame
<1>3. CASE ParserCompute
  BY <1>1, <1>3, ParserComputeKeepsSum DEF ParserCompute
<1>4. ASSUME NEW h \in Handlers, Dispatch(h)
      PROVE  Goal
  <2>1. /\ UNCHANGED compute_packet_num /\ Pending' = Pending
        /\ UNCHANGED <<run, packet_index, packet_num, raw>>
    BY <1>4, RoomOnList, DispatchKeepsSum DEF Dispatch, frame
  <2> QED
    BY <1>1, <2>1
<1>5. ASSUME NEW h \in Handlers, HandlerTest(h)
      PROVE  Goal
  <2>1. /\ UNCHANGED compute_packet_num /\ Pending' = Pending
        /\ UNCHANGED <<run, packet_index, packet_num, raw>>
    BY <1>5, TestKeepsSum DEF HandlerTest, frame
  <2> QED
    BY <1>1, <2>1
<1>6. ASSUME NEW h \in Handlers, HandlerWait(h)
      PROVE  Goal
  <2>1. /\ UNCHANGED compute_packet_num /\ Pending' = Pending
        /\ UNCHANGED <<run, packet_index, packet_num, raw>>
    BY <1>6, PendingStays DEF HandlerWait, frame
  <2> QED
    BY <1>1, <2>1
<1>7. ASSUME NEW h \in Handlers, HandlerCompute(h)
      PROVE  Goal
  <2>1. /\ compute_packet_num' = compute_packet_num + 1 /\ Pending' = Pending - 1
        /\ UNCHANGED <<run, packet_index, packet_num, raw>>
    BY <1>7, HandlerComputeKeepsSum DEF HandlerCompute
  <2> QED
    BY <1>1, <2>1
<1> HIDE DEF Goal
<1> QED
  BY <1>2, <1>3, <1>4, <1>5, <1>6, <1>7 DEF Goal, WorkStep, ParserStep, HandlerStep

\* What is given no new index stays empty when it ages.
LEMMA NothingAges ==
  ASSUME TypeInv, TypeInv', Pending = 0, Age, UNCHANGED <<decoded, handle>>
  PROVE  Pending' = 0
<1>1. decoded = <<>> /\ parser = NoJob /\ \A h \in Handlers : job[h] = NoJob /\ handle[h] = <<>>
  BY NothingPending DEF TypeInv
<1>2. Stale(NoJob) = NoJob
  BY StaleType
<1>3. parser' = NoJob /\ \A h \in Handlers : job'[h] = NoJob
  BY <1>1, <1>2 DEF Age
<1> QED
  BY <1>1, <1>3, NothingPendingNext DEF TypeInv

\* Where the sum stays, a count that does not fall cannot grow out of nothing.
LEMMA NoneLeft ==
  ASSUME NEW count \in Nat, NEW pending \in Nat, NEW count2 \in Nat, NEW pending2 \in Nat,
         count2 + pending2 = count + pending, count2 >= count, pending = 0
  PROVE  pending2 = 0 /\ count2 = count
  OBVIOUS

\* Every step keeps the account.
LEMMA CountInvStep ==
  ASSUME RoomAndTime, TypeInv, CountInv, TypeInv', [Next]_vars
  PROVE  CountInv'
<1> USE DEF TypeInv
<1>1. /\ Pending \in Nat /\ Pending' \in Nat
      /\ compute_packet_num \in Nat /\ packet_index \in Nat /\ compute_packet_num' \in Nat
  BY NothingPending, NothingPendingNext DEF TypeOK, FrameTypes
<1>2. CASE DecodeMore \/ Split \/ RunExit
  BY <1>2, PendingStays DEF DecodeMore, Split, RunExit, frame, queues, CountInv
<1>3. CASE Queue
  <2>1. Len(decoded') = Len(decoded) + 1 /\ Len(decoded) \in Nat
    BY <1>3, AppendProperties, LenProperties DEF Queue, TypeOK, ListTypes, FrameInv, FrameTypes, Slots
  <2>2. /\ Cardinality(Computing(job))' = Cardinality(Computing(job))
        /\ Cardinality(Listed(handle))' = Cardinality(Listed(handle))
    BY <1>3 DEF Queue, Computing, Listed
  <2>3. UNCHANGED parser
    BY <1>3 DEF Queue
  <2>4. Pending' = Pending + 1
    BY <2>1, <2>2, <2>3, Terms DEF Pending
  <2> QED
    BY <1>1, <1>3, <2>4 DEF Queue, CountInv
<1>4. CASE Complete
  <2>1. Pending' = Pending
    BY <1>4, PendingStays DEF Complete, queues
  <2> QED
    BY <1>1, <1>4, <2>1 DEF Complete, frame, CountInv
<1>5. CASE ZeroCount
  <2>1. Pending' = Pending
    BY <1>5, PendingStays DEF ZeroCount, queues
  <2> QED
    BY <1>1, <1>5, <2>1 DEF ZeroCount, CountInv
<1>6. CASE Publish
  <2>1. Pending' = 0
    BY <1>6, NothingAges DEF Publish, CountInv
  <2> QED
    BY <1>6, <2>1 DEF Publish, CountInv
<1>7. CASE ClearPacketBuffer
  BY <1>7 DEF ClearPacketBuffer, CountInv
<1>8. CASE Update
  <2>1. SleepCovers
    BY <1>8, PipelineAssumption DEF Update, RoomAndTime, FrameInv
  <2>2. Pending' = 0
    BY <1>8, <2>1, NothingAges DEF Update
  <2> QED
    BY <1>8, <2>2 DEF Update, CountInv
<1>9. CASE Rezero
  <2>1. Pending' = 0
    BY <1>9, PendingStays DEF Rezero, queues, CountInv
  <2> QED
    BY <1>9, <2>1 DEF Rezero, CountInv, FrameInv
<1>10. CASE WorkStep
  <2>1. CASE Active \/ run = "zero"
    <3>1. /\ compute_packet_num' + Pending' = compute_packet_num + Pending
          /\ compute_packet_num' >= compute_packet_num
          /\ UNCHANGED <<run, packet_index>>
      BY <1>10, <2>1, WorkKeepsSum
    <3>2. ASSUME run \in {"complete", "publish", "zero"}
          PROVE  Pending' = 0 /\ compute_packet_num' = compute_packet_num
      <4>1. Pending = 0
        BY <3>2 DEF CountInv
      <4> QED
        BY <1>1, <3>1, <4>1, NoneLeft
    <3>3. run \in {"loop", "queue", "complete?", "complete"} =>
            packet_index' = compute_packet_num' + Pending'
      BY <1>1, <3>1 DEF CountInv
    <3>4. run = "publish" => compute_packet_num' = 0
      BY <3>2 DEF CountInv
    <3> QED
      BY <3>1, <3>2, <3>3, <3>4 DEF CountInv
  <2>2. CASE ~(Active \/ run = "zero")
    <3>1. UNCHANGED run
      BY <1>10 DEF WorkStep, ParserStep, HandlerStep, ParserPop, ParserCompute, Dispatch,
                   HandlerTest, HandlerWait, HandlerCompute
    <3> QED
      BY <2>2, <3>1 DEF Active, CountInv
  <2> QED
    BY <2>1, <2>2
<1>11. CASE StopBegin \/ MainStep \/ UNCHANGED vars
  <2>1. UNCHANGED <<run, frame, decoded, parser, handle, job>>
    BY <1>11 DEF StopBegin, MainStep, JoinRun, JoinParser, NotifyHandlers, JoinHandlers,
                 vars, queues
  <2> QED
    BY <2>1, PendingStays DEF frame, CountInv
<1> QED
  BY <1>2, <1>3, <1>4, <1>5, <1>6, <1>7, <1>8, <1>9, <1>10, <1>11
  DEF Next, RunStep, RunWorks, WorkStep

-----------------------------------------------------------------------------
\* Every slot of the frame has its points or is on its way to them.

\* A step that moves no index.
LEMMA InFlightStays ==
  ASSUME UNCHANGED <<packet_index, points, decoded, parser, handle, job>>
  PROVE  (OfThisFrame => OfThisFrame') /\ (Parsed => Parsed')
  BY DEF OfThisFrame, Parsed, InFlight

\* A packet of this frame is read while it is fresh.
LEMMA JobIsFresh ==
  ASSUME TypeInv, Active, NEW slot \in Slots, slot < packet_index
  PROVE  slot \in raw /\ Job(slot).fresh = TRUE /\ Job(slot).slot = slot
<1>1. slot \in raw
  BY DEF TypeInv, TypeOK, FrameTypes, FrameInv, Active, Slots
<1> QED
  BY <1>1 DEF Job

\* ... and so are its points of this frame.
LEMMA FreshPoints ==
  ASSUME TypeInv, Active, NEW j \in Jobs, j.fresh = TRUE, j.slot < packet_index, Compute(j)
  PROVE  points' = points \cup {j.slot}
<1>1. j.slot \in raw
  BY JobIsFresh DEF Jobs
<1>2. PICK fresh \in {j.fresh, j.slot \in raw} :
        points' = IF fresh THEN points \cup {j.slot} ELSE points \ {j.slot}
  BY DEF Compute
<1>3. fresh = TRUE
  BY <1>1, <1>2
<1> QED
  BY <1>2, <1>3

\* The parser pops an index, ...
LEMMA PopSlots ==
  ASSUME TypeInv, Active, OfThisFrame, Parsed, ParserPop
  PROVE  OfThisFrame' /\ Parsed'
<1> DEFINE d == Head(decoded)
<1>1. /\ decoded # <<>> /\ parser = NoJob /\ parser' = Job(d) /\ decoded' = Tail(decoded)
      /\ UNCHANGED <<packet_index, points, handle, job>>
  BY DEF ParserPop, frame
<1>2. /\ d \in Slots /\ d = decoded[1] /\ Len(decoded) >= 1 /\ Len(decoded) \in Nat
      /\ Len(decoded') = Len(decoded) - 1
      /\ \A i \in 1 .. Len(decoded') : decoded'[i] = decoded[i + 1]
  BY <1>1, HeadAndTail, LenProperties DEF TypeInv, TypeOK, ListTypes
<1>3. parser'.fresh = TRUE /\ parser'.slot = d /\ d < packet_index
  <2>1. d < packet_index
    BY <1>2 DEF OfThisFrame
  <2>2. Job(d).fresh = TRUE /\ Job(d).slot = d
    BY <1>2, <2>1, JobIsFresh
  <2> QED
    BY <1>1, <2>1, <2>2
<1>4. OfThisFrame'
  BY <1>1, <1>2, <1>3 DEF OfThisFrame
<1>5. ASSUME NEW s \in 0 .. packet_index - 1, InFlight(s)
      PROVE  InFlight(s)'
  <2>1. CASE \E i \in 1 .. Len(decoded) : decoded[i] = s
    <3>1. PICK i \in 1 .. Len(decoded) : decoded[i] = s
      BY <2>1
    <3>2. CASE i = 1
      BY <1>2, <1>3, <3>1, <3>2 DEF InFlight
    <3>3. CASE i # 1
      <4>1. i - 1 \in 1 .. Len(decoded') /\ decoded'[i - 1] = s
        BY <1>2, <3>1, <3>3
      <4> QED
        BY <4>1 DEF InFlight
    <3> QED
      BY <3>2, <3>3
  <2>2. CASE parser.slot = s
    BY <1>1, <2>2 DEF NoJob
  <2>3. CASE ~(\E i \in 1 .. Len(decoded) : decoded[i] = s) /\ parser.slot # s
    BY <1>1, <1>5, <2>3 DEF InFlight
  <2> QED
    BY <2>1, <2>2, <2>3
<1> QED
  BY <1>1, <1>4, <1>5 DEF Parsed

\* ... computes its points itself, ...
LEMMA ParserComputeSlots ==
  ASSUME TypeInv, Active, OfThisFrame, Parsed, ParserCompute
  PROVE  OfThisFrame' /\ Parsed'
<1>1. parser \in Jobs /\ parser' = NoJob /\ UNCHANGED <<packet_index, decoded, handle, job>>
  BY DEF ParserCompute, TypeInv, TypeOK, JobTypes
<1>2. points' = points \cup {parser.slot}
  BY <1>1, FreshPoints DEF ParserCompute, OfThisFrame
<1>3. OfThisFrame'
  BY <1>1 DEF OfThisFrame
<1>4. ASSUME NEW s \in 0 .. packet_index - 1, InFlight(s)
      PROVE  s \in points' \/ InFlight(s)'
  BY <1>1, <1>2, <1>4 DEF InFlight
<1> QED
  BY <1>1, <1>2, <1>3, <1>4 DEF Parsed

\* A handler has computed.
LEMMA HandlerComputeSlots ==
  ASSUME TypeInv, Active, OfThisFrame, Parsed, NEW h \in Handlers, HandlerCompute(h)
  PROVE  OfThisFrame' /\ Parsed'
<1>1. /\ job[h] \in Jobs /\ job[h] # NoJob /\ job'[h] = NoJob
      /\ \A g \in Handlers \ {h} : job'[g] = job[g]
      /\ UNCHANGED <<packet_index, decoded, parser, handle>>
  BY DEF HandlerCompute, TypeInv, TypeOK, JobTypes
<1>2. points' = points \cup {job[h].slot}
  BY <1>1, FreshPoints DEF HandlerCompute, OfThisFrame
<1>3. OfThisFrame'
  BY <1>1 DEF OfThisFrame
<1>4. ASSUME NEW s \in 0 .. packet_index - 1, InFlight(s)
      PROVE  s \in points' \/ InFlight(s)'
  <2>1. CASE \E g \in Handlers : job[g].slot = s
    BY <1>1, <1>2, <2>1 DEF InFlight
  <2>2. CASE ~\E g \in Handlers : job[g].slot = s
    BY <1>1, <1>4, <2>2 DEF InFlight
  <2> QED
    BY <2>1, <2>2
<1> QED
  BY <1>1, <1>2, <1>3, <1>4 DEF Parsed

\* ... or puts it on a handler's list.
LEMMA DispatchSlots ==
  ASSUME TypeInv, TypeInv', Active, OfThisFrame, Parsed,
         NEW h \in Handlers, Dispatch(h), Len(handle[h]) < BufferSize
  PROVE  OfThisFrame' /\ Parsed'
<1> DEFINE list == Append(handle[h], parser.slot)
           n == Len(handle[h])
<1>1. /\ parser # NoJob /\ parser' = NoJob /\ parser.slot < packet_index
      /\ handle' = [handle EXCEPT ![h] = list]
      /\ UNCHANGED <<packet_index, points, decoded, job>>
  BY DispatchKeepsSum DEF Dispatch, frame, TypeInv, OfThisFrame
<1>2. /\ n \in Nat /\ Len(list) = n + 1 /\ list[n + 1] = parser.slot
      /\ \A i \in 1 .. n : list[i] = handle[h][i]
  <2>1. handle[h] \in Seq(Slots) /\ parser.slot \in Slots
    BY <1>1 DEF TypeInv, TypeOK, ListTypes, JobTypes, Jobs
  <2> QED
    BY <2>1, AppendProperties, LenProperties
<1>3. handle'[h] = list /\ \A g \in Handlers \ {h} : handle'[g] = handle[g]
  BY <1>1 DEF TypeInv, TypeOK, ListTypes
<1>4. \A g \in Handlers : \A i \in 1 .. Len(handle'[g]) : handle'[g][i] < packet_index
  <2>1. \A i \in 1 .. Len(list) : list[i] < packet_index
    BY <1>1, <1>2 DEF OfThisFrame
  <2> QED
    BY <1>3, <2>1 DEF OfThisFrame
<1>5. OfThisFrame'
  BY <1>1, <1>4 DEF OfThisFrame
<1>6. ASSUME NEW s \in 0 .. packet_index - 1, InFlight(s)
      PROVE  InFlight(s)'
  <2>1. CASE parser.slot = s
    BY <1>2, <1>3, <2>1 DEF InFlight
  <2>2. CASE \E g \in Handlers : \E i \in 1 .. Len(handle[g]) : handle[g][i] = s
    <3>1. PICK g \in Handlers : \E i \in 1 .. Len(handle[g]) : handle[g][i] = s
      BY <2>2
    <3>2. \E i \in 1 .. Len(handle'[g]) : handle'[g][i] = s
      BY <1>2, <1>3, <3>1
    <3> QED
      BY <3>2 DEF InFlight
  <2>3. CASE \/ \E i \in 1 .. Len(decoded) : decoded[i] = s
             \/ \E g \in Handlers : job[g].slot = s
    BY <1>1, <2>3 DEF InFlight
  <2> QED
    BY <1>6, <2>1, <2>2, <2>3 DEF InFlight
<1> QED
  BY <1>1, <1>5, <1>6 DEF Parsed

\* A handler takes the oldest index of its list.
LEMMA TestSlots ==
  ASSUME TypeInv, TypeInv', Active, OfThisFrame, Parsed, NEW h \in Handlers, HandlerTest(h)
  PROVE  OfThisFrame' /\ Parsed'
<1>1. UNCHANGED <<packet_index, points, decoded, parser>>
  BY DEF HandlerTest, frame
<1>2. CASE running_ /\ handle[h] # <<>>
  <2> DEFINE d == Head(handle[h])
  <2>1. /\ handle' = [handle EXCEPT ![h] = Tail(@)] /\ job' = [job EXCEPT ![h] = Job(d)]
        /\ handler[h] = "test"
    BY <1>2 DEF HandlerTest
  <2>2. /\ job[h] = NoJob /\ job'[h] = Job(d) /\ handle'[h] = Tail(handle[h])
        /\ \A g \in Handlers \ {h} : job'[g] = job[g] /\ handle'[g] = handle[g]
    BY <2>1 DEF TypeInv, TypeOK, JobTypes, ListTypes
  <2>3. /\ d \in Slots /\ d = handle[h][1] /\ Len(handle[h]) >= 1 /\ Len(handle[h]) \in Nat
        /\ Len(handle'[h]) = Len(handle[h]) - 1
        /\ \A i \in 1 .. Len(handle'[h]) : handle'[h][i] = handle[h][i + 1]
    BY <1>2, <2>2, HeadAndTail, LenProperties DEF TypeInv, TypeOK, ListTypes
  <2>4. job'[h].fresh = TRUE /\ job'[h].slot = d /\ d < packet_index
    <3>1. d < packet_index
      BY <2>3 DEF OfThisFrame
    <3>2. Job(d).fresh = TRUE /\ Job(d).slot = d
      BY <2>3, <3>1, JobIsFresh
    <3> QED
      BY <2>2, <3>1, <3>2
  <2>5. OfThisFrame'
    <3>1. \A i \in 1 .. Len(handle'[h]) : handle'[h][i] < packet_index
      BY <2>3 DEF OfThisFrame
    <3>2. \A g \in Handlers : \A i \in 1 .. Len(handle'[g]) : handle'[g][i] < packet_index
      BY <2>2, <3>1 DEF OfThisFrame
    <3>3. \A g \in Handlers :
            job'[g] # NoJob => job'[g].fresh = TRUE /\ job'[g].slot < packet_index
      BY <2>2, <2>4 DEF OfThisFrame
    <3> QED
      BY <1>1, <3>2, <3>3 DEF OfThisFrame
  <2>6. ASSUME NEW s \in 0 .. packet_index - 1, InFlight(s)
        PROVE  InFlight(s)'
    <3>1. CASE \E g \in Handlers : \E i \in 1 .. Len(handle[g]) : handle[g][i] = s
      <4>1. PICK g \in Handlers : \E i \in 1 .. Len(handle[g]) : handle[g][i] = s
        BY <3>1
      <4>2. PICK i \in 1 .. Len(handle[g]) : handle[g][i] = s
        BY <4>1
      <4>3. CASE g # h
        BY <2>2, <4>2, <4>3 DEF InFlight
      <4>4. CASE g = h /\ i = 1
        BY <2>3, <2>4, <4>2, <4>4 DEF InFlight
      <4>5. CASE g = h /\ i # 1
        <5>1. i - 1 \in 1 .. Len(handle'[h]) /\ handle'[h][i - 1] = s
          BY <2>3, <4>2, <4>5
        <5> QED
          BY <5>1 DEF InFlight
      <4> QED
        BY <4>3, <4>4, <4>5
    <3>2. CASE \E g \in Handlers : job[g].slot = s
      <4>1. NoJob.slot # s
        BY DEF NoJob
      <4> QED
        BY <2>2, <3>2, <4>1 DEF InFlight
    <3>3. CASE (\E i \in 1 .. Len(decoded) : decoded[i] = s) \/ parser.slot = s
      BY <1>1, <3>3 DEF InFlight
    <3> QED
      BY <2>6, <3>1, <3>2, <3>3 DEF InFlight
  <2> QED
    BY <1>1, <2>5, <2>6 DEF Parsed
<1>3. CASE ~(running_ /\ handle[h] # <<>>)
  BY <1>1, <1>3, InFlightStays DEF HandlerTest
<1> QED
  BY <1>2, <1>3

\* Every step keeps the account of slots.
LEMMA SlotInvStep ==
  ASSUME RoomAndTime, PipelineInv, TypeInv', CountInv', [Next]_vars
  PROVE  SlotInv'
<1> USE DEF PipelineInv
<1>1. CASE DecodeMore \/ Split \/ Complete \/ ZeroCount
  <2>1. UNCHANGED <<packet_index, points, decoded, parser, handle, job>> /\ Active
    BY <1>1 DEF DecodeMore, Split, Complete, ZeroCount, frame, queues, Active
  <2> QED
    BY <2>1, InFlightStays DEF SlotInv
<1>2. CASE Queue
  <2>1. /\ packet_index' = packet_index + 1 /\ packet_index \in Slots
        /\ decoded' = Append(decoded, packet_index) /\ Active
        /\ UNCHANGED <<points, parser, handle, job>>
    BY <1>2 DEF Queue, Active, TypeInv, TypeOK, FrameTypes, FrameInv, Slots
  <2>2. /\ Len(decoded) \in Nat /\ Len(decoded') = Len(decoded) + 1
        /\ decoded'[Len(decoded) + 1] = packet_index
        /\ \A i \in 1 .. Len(decoded) : decoded'[i] = decoded[i]
    BY <2>1, AppendProperties, LenProperties DEF TypeInv, TypeOK, ListTypes
  <2>3. OfThisFrame /\ Parsed
    BY <2>1 DEF SlotInv
  <2>4. OfThisFrame'
    <3>1. \A i \in 1 .. Len(decoded') : decoded'[i] < packet_index'
      <4>1. ASSUME NEW i \in 1 .. Len(decoded') PROVE decoded'[i] < packet_index'
        <5>1. CASE i \in 1 .. Len(decoded)
          <6>1. decoded[i] \in Slots /\ decoded[i] < packet_index
            BY <2>3, <5>1, ElementOfSeq DEF OfThisFrame, TypeInv, TypeOK, ListTypes
          <6> QED
            BY <2>1, <2>2, <5>1, <6>1 DEF Slots
        <5>2. CASE i = Len(decoded) + 1
          BY <2>1, <2>2, <5>2 DEF Slots
        <5> QED
          BY <2>2, <5>1, <5>2
      <4> QED
        BY <4>1
    <3>2. ASSUME NEW h \in Handlers, NEW i \in 1 .. Len(handle[h])
          PROVE  handle[h][i] < packet_index'
      <4>1. handle[h][i] \in Slots /\ handle[h][i] < packet_index
        BY <2>3, ElementOfSeq DEF OfThisFrame, TypeInv, TypeOK, ListTypes
      <4> QED
        BY <2>1, <4>1 DEF Slots
    <3>3. ASSUME NEW j \in Jobs, j.slot < packet_index PROVE j.slot < packet_index'
      BY <2>1, <3>3 DEF Jobs, Slots
    <3>4. parser # NoJob => parser.fresh = TRUE /\ parser.slot < packet_index'
      BY <2>3, <3>3 DEF OfThisFrame, TypeInv, TypeOK, JobTypes
    <3>5. \A h \in Handlers : job[h] # NoJob => job[h].fresh = TRUE /\ job[h].slot < packet_index'
      BY <2>3, <3>3 DEF OfThisFrame, TypeInv, TypeOK, JobTypes
    <3> QED
      BY <2>1, <3>1, <3>2, <3>4, <3>5 DEF OfThisFrame
  <2>5. Parsed'
    <3>1. ASSUME NEW s \in 0 .. packet_index' - 1 PROVE s \in points' \/ InFlight(s)'
      <4>1. CASE s = packet_index
        BY <2>2, <4>1 DEF InFlight
      <4>2. CASE s # packet_index
        <5>1. s \in 0 .. packet_index - 1
          BY <2>1, <4>2 DEF Slots
        <5>2. s \in points \/ InFlight(s)
          BY <2>3, <5>1 DEF Parsed
        <5>3. ASSUME \E i \in 1 .. Len(decoded) : decoded[i] = s
              PROVE  \E i \in 1 .. Len(decoded') : decoded'[i] = s
          BY <2>2, <5>3
        <5> QED
          BY <2>1, <5>2, <5>3 DEF InFlight
      <4> QED
        BY <4>1, <4>2
    <3> QED
      BY <3>1 DEF Parsed
  <2> QED
    BY <2>4, <2>5 DEF SlotInv
<1>3. CASE Publish \/ Rezero
  <2>1. packet_index' = 0 /\ Pending' = 0
    BY <1>3, PendingStays, NothingAges
    DEF Publish, Rezero, TypeInv, FrameInv, CountInv, queues
  <2>2. /\ decoded' = <<>> /\ parser' = NoJob
        /\ \A h \in Handlers : job'[h] = NoJob /\ handle'[h] = <<>>
    BY <2>1, NothingPendingNext DEF TypeInv
  <2>3. OfThisFrame' /\ Parsed'
    BY <2>1, <2>2 DEF OfThisFrame, Parsed
  <2> QED
    BY <2>3 DEF SlotInv
<1>4. CASE ClearPacketBuffer \/ Update \/ RunExit
  BY <1>4 DEF ClearPacketBuffer, Update, RunExit, SlotInv, Active
<1>5. CASE WorkStep
  <2>1. UNCHANGED run
    BY <1>5 DEF WorkStep, ParserStep, HandlerStep, ParserPop, ParserCompute, Dispatch,
                HandlerTest, HandlerWait, HandlerCompute
  <2>2. CASE Active
    <3>1. OfThisFrame /\ Parsed
      BY <2>2 DEF SlotInv
    <3>2. ASSUME NEW h \in Handlers, HandlerWait(h) PROVE OfThisFrame' /\ Parsed'
      BY <3>1, <3>2, InFlightStays DEF HandlerWait, frame
    <3>3. ASSUME NEW h \in Handlers, Dispatch(h) PROVE OfThisFrame' /\ Parsed'
      BY <2>2, <3>1, <3>3, DispatchSlots, RoomOnList
    <3>4. OfThisFrame' /\ Parsed'
      BY <1>5, <2>2, <3>1, <3>2, <3>3, PopSlots, ParserComputeSlots, TestSlots, HandlerComputeSlots
      DEF WorkStep, ParserStep, HandlerStep
    <3> QED
      BY <3>4 DEF SlotInv
  <2>3. CASE ~Active
    BY <2>1, <2>3 DEF Active, SlotInv
  <2> QED
    BY <2>2, <2>3
<1>6. CASE StopBegin \/ MainStep \/ UNCHANGED vars
  <2>1. UNCHANGED <<run, packet_index, points, decoded, parser, handle, job>>
    BY <1>6 DEF StopBegin, MainStep, JoinRun, JoinParser, NotifyHandlers, JoinHandlers,
                vars, frame, queues
  <2> QED
    BY <2>1, InFlightStays DEF Active, SlotInv
<1> QED
  BY <1>1, <1>2, <1>3, <1>4, <1>5, <1>6
  DEF Next, RunStep, RunWorks, WorkStep

-----------------------------------------------------------------------------
\* Nothing has been queued in the beginning.
LEMMA PipelineInvInit == Init => CountInv /\ SlotInv
<1> SUFFICES ASSUME Init PROVE CountInv /\ SlotInv
  OBVIOUS
<1>1. TypeOK
  BY TypeInvInit DEF TypeInv
<1>2. Pending = 0
  BY <1>1, NothingPending DEF Init
<1>3. packet_index = 0 /\ compute_packet_num = 0 /\ run = "loop"
  BY DEF Init
<1>4. CountInv
  BY <1>2, <1>3 DEF CountInv
<1>5. OfThisFrame
  BY EmptySeq DEF Init, OfThisFrame
<1>6. Parsed
  BY <1>3 DEF Parsed
<1> QED
  BY <1>4, <1>5, <1>6 DEF SlotInv

\* A number of a frame's packets is never out of the frame, and an index in a
\* queue never out of the frame's slots, whether or not frames are given up.
THEOREM TypeCorrect == Spec => []TypeOK
<1>1. Init => TypeInv
  BY TypeInvInit
<1>2. TypeInv /\ [Next]_vars => TypeInv'
  BY TypeInvStep
<1>3. TypeInv => TypeOK
  BY DEF TypeInv
<1> QED
  BY <1>1, <1>2, <1>3, PTL DEF Spec

\* PipelineInv is an invariant.
THEOREM PipelineInvariant == RoomAndTime => (Spec => []PipelineInv)
<1> SUFFICES ASSUME RoomAndTime PROVE Spec => []PipelineInv
  OBVIOUS
<1>1. Init => PipelineInv
  BY TypeInvInit, PipelineInvInit DEF PipelineInv
<1>2. PipelineInv /\ [Next]_vars => PipelineInv'
  BY TypeInvStep, CountInvStep, SlotInvStep DEF PipelineInv
<1> QED
  BY <1>1, <1>2, PTL DEF Spec

\* However many handlers there are and however the threads interleave, Run's wait
\* for the count is for exactly the indices that it has queued in this frame.
THEOREM AccountingHolds == RoomAndTime => (Spec => []Accounting)
<1> SUFFICES ASSUME RoomAndTime PROVE Spec => []Accounting
  OBVIOUS
<1>1. PipelineInv => Accounting
  BY DEF PipelineInv, CountInv, Accounting
<1> QED
  BY <1>1, PipelineInvariant, PTL

\* What is published is computed, of this frame, and written by nobody any more.
THEOREM CompletionMeansParsed == RoomAndTime => (Spec => []CompleteMeansParsed)
<1> SUFFICES ASSUME RoomAndTime PROVE Spec => []CompleteMeansParsed
  OBVIOUS
<1>1. ASSUME PipelineInv, run \in {"complete", "publish"}
      PROVE  0 .. packet_num - 1 \subseteq points /\ Pending = 0
  <2>1. Pending = 0 /\ packet_num = packet_index /\ Parsed
    BY <1>1 DEF PipelineInv, TypeInv, FrameInv, CountInv, SlotInv, Active
  <2>2. /\ Len(decoded) = 0 /\ parser.slot = -1
        /\ \A h \in Handlers : job[h].slot = -1 /\ Len(handle[h]) = 0
    BY <1>1, <2>1, NothingPending, EmptySeq DEF PipelineInv, TypeInv, NoJob
  <2>3. \A s \in 0 .. packet_index - 1 : ~InFlight(s)
    BY <2>2 DEF InFlight
  <2> QED
    BY <2>1, <2>3 DEF Parsed
<1>2. PipelineInv => CompleteMeansParsed
  BY <1>1 DEF CompleteMeansParsed
<1> QED
  BY <1>2, PipelineInvariant, PTL

-----------------------------------------------------------------------------
\* The three parts in the casts of one run: what is proved of each of them holds
\* of the whole, in which the other two are at rest.
SP == INSTANCE FrameSplit_proofs
  WITH MaxPackets <- MaxFramePackets,
       packet_num <- frame_packet_num, packet_index <- frame_packet_index
PP == INSTANCE PtcClient_proofs WITH main <- ptc_main

\* The parts are those of the proofs.
LEMMA SameSplit ==
  /\ S!SplitAssumption <=> SP!SplitAssumption
  /\ S!CountAssumption <=> SP!CountAssumption
  /\ S!DirectionAssumption <=> SP!DirectionAssumption
  /\ S!Init <=> SP!Init
  /\ S!Next <=> SP!Next
<1>1. S!SplitAssumption <=> SP!SplitAssumption
  BY DEF S!SplitAssumption, SP!SplitAssumption, S!Reach, SP!Reach
<1>2. S!CountAssumption <=> SP!CountAssumption
  BY DEF S!CountAssumption, SP!CountAssumption
<1>3. S!DirectionAssumption <=> SP!DirectionAssumption
  BY DEF S!DirectionAssumption, SP!DirectionAssumption
<1>4. S!Init <=> SP!Init
  BY DEF S!Init, SP!Init, S!SetFrameAzimuth, SP!SetFrameAzimuth, S!None, SP!None, S!Where, SP!Where
<1>5. S!Next <=> SP!Next
  BY DEF
    S!Next, S!Arrive, S!HoldUp, S!Repeat, S!ArriveLate, S!NewFrame, S!Decode, S!DecodeMore,
    S!DecodeTooMany, S!DecodeSplit, S!Accept, S!Remember, S!Azimuth, S!Wrapped,
    S!NewRotation, S!IsNeedFrameSplit, S!CalPktLoss, S!Steps, S!GetSeqNum, S!InOrder,
    S!Learnt, S!Crosses, S!Comparable, S!UpdateRotation, S!Rotation, S!Division, S!Least,
    S!Abs, S!Ahead, S!Where, S!Packet, S!None, S!Reach, S!history, S!lidar, S!frame, S!count,
    SP!Next, SP!Arrive, SP!HoldUp, SP!Repeat, SP!ArriveLate, SP!NewFrame, SP!Decode,
    SP!DecodeMore, SP!DecodeTooMany, SP!DecodeSplit, SP!Accept, SP!Remember, SP!Azimuth,
    SP!Wrapped, SP!NewRotation, SP!IsNeedFrameSplit, SP!CalPktLoss, SP!Steps, SP!GetSeqNum,
    SP!InOrder, SP!Learnt, SP!Crosses, SP!Comparable, SP!UpdateRotation, SP!Rotation,
    SP!Division, SP!Least, SP!Abs, SP!Ahead, SP!Where, SP!Packet, SP!None, SP!Reach,
    SP!history, SP!lidar, SP!frame, SP!count
<1> QED BY <1>1, <1>2, <1>3, <1>4, <1>5

LEMMA SameClient ==
  /\ P!PtcAssumption <=> PP!PtcAssumption
  /\ P!Init <=> PP!Init
  /\ P!Next <=> PP!Next
<1>1. P!PtcAssumption <=> PP!PtcAssumption
  BY DEF P!PtcAssumption, PP!PtcAssumption, P!Users, PP!Users, P!Commands, PP!Commands,
         P!Setting, PP!Setting
<1>2. P!Init <=> PP!Init
  BY DEF P!Init, PP!Init, P!Users, PP!Users, P!NoRx, PP!NoRx, P!NoResult, PP!NoResult,
         P!NoOrder, PP!NoOrder
<1>3. P!Next <=> PP!Next
  BY DEF
    P!Next, P!OpenerStep, P!MainStep, P!Stop, P!FirstPacket, P!RunFrame, P!Answers, P!Breaks,
    P!UserStep, P!QueryStep, P!OpenerHasAddress, P!OpenerConnects, P!OpenerGivesUp,
    P!SetTimeout, P!JoinRun, P!JoinSet, P!JoinOpener, P!Connect, P!Close, P!CallClosed,
    P!CallOpen, P!Lock, P!Reopen, P!ReopenFails, P!TcpFlushIn, P!Send, P!SendFails,
    P!ReceiveHeader, P!ReceiveBody, P!TimeOut, P!HangUp, P!NoPacket, P!Awaited, P!SetTest,
    P!SetLook, P!RunExit, P!Return, P!Unlock, P!Receive, P!Took, P!Chunks, P!HeaderIn,
    P!Accepts, P!Answer, P!Payload, P!Token, P!Order, P!NoOrder, P!NoRx, P!Users, P!Setting,
    P!HeaderSize, P!user, P!client, P!socket, P!lidar,
    PP!Next, PP!OpenerStep, PP!MainStep, PP!Stop, PP!FirstPacket, PP!RunFrame, PP!Answers,
    PP!Breaks, PP!UserStep, PP!QueryStep, PP!OpenerHasAddress, PP!OpenerConnects,
    PP!OpenerGivesUp, PP!SetTimeout, PP!JoinRun, PP!JoinSet, PP!JoinOpener, PP!Connect,
    PP!Close, PP!CallClosed, PP!CallOpen, PP!Lock, PP!Reopen, PP!ReopenFails, PP!TcpFlushIn,
    PP!Send, PP!SendFails, PP!ReceiveHeader, PP!ReceiveBody, PP!TimeOut, PP!HangUp,
    PP!NoPacket, PP!Awaited, PP!SetTest, PP!SetLook, PP!RunExit, PP!Return, PP!Unlock,
    PP!Receive, PP!Took, PP!Chunks, PP!HeaderIn, PP!Accepts, PP!Answer, PP!Payload, PP!Token,
    PP!Order, PP!NoOrder, PP!NoRx, PP!Users, PP!Setting, PP!HeaderSize, PP!user, PP!client,
    PP!socket, PP!lidar
<1> QED BY <1>1, <1>2, <1>3

\* What is known of each part, in the cast or at rest.  w is a width of a gap.
SplitInv(w) ==
  /\ SP!TypeInv /\ SP!TurnInv /\ SP!CountInv /\ SP!IndexInv /\ SP!LearnInv(w) /\ SP!FlagInv
SplitOrRest(w) == IF cast = "split" THEN SplitInv(w) ELSE SplitRests
ClientInv == PP!ControlInv /\ PP!StreamInv /\ PP!AnswerInv
ClientOrRest == IF cast = "ptc" THEN ClientInv ELSE PtcRests
PipelineOrRest == IF cast = "pipeline" THEN TypeInv ELSE PipelineRests

MCVars == <<cast, vars, splitVars, ptcVars>>

\* The assumptions that the run confirms of its constants, as the proofs need them.
LEMMA Assumed ==
  /\ SP!SplitAssumption /\ SP!CountAssumption /\ SP!DirectionAssumption
  /\ PP!PtcAssumption
BY LidarTurnsOn, SettingsOnce, SameSplit, SameClient

\* A step of the whole is a step of each part in the cast, and of no other.
LEMMA StepsOfParts ==
  ASSUME [MCNext]_MCVars
  PROVE  /\ cast' = cast
         /\ cast = "split" => [SP!Next]_(SP!vars)
         /\ cast # "split" => UNCHANGED splitVars
         /\ cast = "ptc" => [PP!Next]_(PP!vars)
         /\ cast # "ptc" => UNCHANGED ptcVars
         /\ cast = "pipeline" => [Next]_vars
         /\ cast # "pipeline" => UNCHANGED vars
<1>1. UNCHANGED splitVars => UNCHANGED SP!vars
  BY DEF splitVars, SP!vars, SP!history, SP!lidar, SP!frame, SP!count
<1>2. UNCHANGED ptcVars => UNCHANGED PP!vars
  BY DEF ptcVars, PP!vars, PP!user, PP!client, PP!socket, PP!lidar
<1>3. S!Next => SP!Next
  BY SameSplit
<1>4. P!Next => PP!Next
  BY SameClient
<1> QED BY <1>1, <1>2, <1>3, <1>4 DEF MCNext, MCVars

\* FrameSplit: at first and in a step.
LEMMA SplitStarts == ASSUME NEW w, MCInit PROVE SplitOrRest(w)
<1>1. CASE cast = "split"
  <2>1. SP!Init
    BY <1>1, SameSplit DEF MCInit
  <2>2. SP!TypeInv
    BY <2>1, Assumed, SP!InitType
  <2>3. SP!TurnInv
    BY <2>1, Assumed, SP!TurnStarts
  <2>4. SP!CountInv /\ SP!IndexInv
    BY <2>1, Assumed, SP!CountInit
  <2>5. SP!LearnInv(w)
    BY <2>1, Assumed, SP!LearnInit
  <2>6. SP!FlagInv
    BY <2>1, Assumed, SP!FlagStarts
  <2> QED BY <1>1, <2>2, <2>3, <2>4, <2>5, <2>6 DEF SplitOrRest, SplitInv
<1>2. CASE cast # "split"
  BY <1>2 DEF MCInit, SplitOrRest
<1> QED BY <1>1, <1>2

LEMMA SplitGoesOn ==
  ASSUME NEW w, SP!Wide(w), SplitOrRest(w), [MCNext]_MCVars
  PROVE  SplitOrRest(w)'
<1>1. CASE cast = "split"
  <2>1. [SP!Next]_(SP!vars) /\ cast' = "split" /\ SplitInv(w)
    BY <1>1, StepsOfParts DEF SplitOrRest
  <2>2. SP!TypeInv'
    BY <2>1, Assumed, SP!StepType DEF SplitInv
  <2>3. SP!TurnInv'
    BY <2>1, Assumed, SP!StepTurn DEF SplitInv
  <2>4. SP!CountInv'
    BY <2>1, <2>2, Assumed, SP!CountStep DEF SplitInv
  <2>5. SP!IndexInv'
    BY <2>1, Assumed, SP!IndexStep DEF SplitInv
  <2>6. SP!LearnInv(w)'
    BY <2>1, <2>2, <2>4, Assumed, SP!LearnStep DEF SplitInv
  <2>7. SP!FlagInv'
    BY <2>1, Assumed, SP!FlagStep DEF SplitInv
  <2> QED BY <2>1, <2>2, <2>3, <2>4, <2>5, <2>6, <2>7 DEF SplitOrRest, SplitInv
<1>2. CASE cast # "split"
  <2>1. UNCHANGED splitVars /\ cast' # "split" /\ SplitRests
    BY <1>2, StepsOfParts DEF SplitOrRest
  <2>2. SplitRests'
    BY <2>1 DEF SplitRests, splitVars, S!None, S!Where
  <2> QED BY <2>1, <2>2 DEF SplitOrRest
<1> QED BY <1>1, <1>2

\* PtcClient: at first and in a step.
LEMMA ClientStarts == MCInit => ClientOrRest
BY Assumed, SameClient, PP!ControlInit, PP!StreamInit DEF MCInit, ClientOrRest, ClientInv

LEMMA ClientGoesOn ==
  ASSUME ClientOrRest, [MCNext]_MCVars
  PROVE  ClientOrRest'
<1>1. CASE cast = "ptc"
  <2>1. [PP!Next]_(PP!vars) /\ cast' = "ptc" /\ ClientInv
    BY <1>1, StepsOfParts DEF ClientOrRest
  <2>2. PP!ControlInv'
    BY <2>1, Assumed, PP!ControlStep DEF ClientInv
  <2>3. PP!StreamInv' /\ PP!AnswerInv'
    BY <2>1, Assumed, PP!StreamStep DEF ClientInv
  <2> QED BY <2>1, <2>2, <2>3 DEF ClientOrRest, ClientInv
<1>2. CASE cast # "ptc"
  <2>1. UNCHANGED ptcVars /\ cast' # "ptc" /\ PtcRests
    BY <1>2, StepsOfParts DEF ClientOrRest
  <2>2. PtcRests'
    BY <2>1 DEF PtcRests, ptcVars, P!Users, P!NoRx, P!NoResult, P!NoOrder
  <2> QED BY <2>1, <2>2 DEF ClientOrRest
<1> QED BY <1>1, <1>2

\* LidarPipeline: at first and in a step.
LEMMA PipelineStarts == MCInit => PipelineOrRest
BY TypeInvInit DEF MCInit, PipelineOrRest

LEMMA PipelineGoesOn ==
  ASSUME PipelineOrRest, [MCNext]_MCVars
  PROVE  PipelineOrRest'
<1>1. CASE cast = "pipeline"
  <2>1. [Next]_vars /\ cast' = "pipeline" /\ TypeInv
    BY <1>1, StepsOfParts DEF PipelineOrRest
  <2> QED BY <2>1, TypeInvStep DEF PipelineOrRest
<1>2. CASE cast # "pipeline"
  <2>1. UNCHANGED vars /\ cast' # "pipeline" /\ PipelineRests
    BY <1>2, StepsOfParts DEF PipelineOrRest
  <2>2. PipelineRests'
    BY <2>1 DEF PipelineRests, vars, frame, queues, flags, Handlers, NoJob
  <2> QED BY <2>1, <2>2 DEF PipelineOrRest
<1> QED BY <1>1, <1>2

\* A width of the gaps.
LEMMA WidthExists == \E w : SP!Wide(w)
<1>1. PICK x \in 0 .. Circle : (\A g \in Gaps : g <= x) /\ (MaxLost + 4) * x < Circle
  BY Assumed DEF SP!DirectionAssumption
<1>2. x \in Nat
  BY <1>1, Assumed DEF SP!SplitAssumption
<1> QED BY <1>1, <1>2 DEF SP!Wide

\* What follows for the whole in one state.
LEMMA WhatFollows ==
  ASSUME NEW w, SP!Wide(w), SplitOrRest(w)
  PROVE  /\ OneTurn /\ IndexMatches /\ LossExact /\ DirectionLearnt
         /\ cast = "split" => S!TypeOK
<1>1. CASE cast = "split"
  <2>1. SplitInv(w)
    BY <1>1 DEF SplitOrRest
  <2>2. SP!OneTurn
    BY <2>1, SP!TurnFollows DEF SplitInv
  <2>3. SP!IndexMatches
    BY <2>1 DEF SplitInv, SP!IndexInv, SP!IndexMatches
  <2>4. SP!LossExact
    BY <2>1, Assumed, SP!CountIsExact DEF SplitInv
  <2>5. SP!DirectionLearnt
    BY <2>1, Assumed, SP!LearnsEnough DEF SplitInv
  <2>6. SP!TypeOK
    BY <2>1, Assumed, SP!TypesFollow DEF SplitInv
  <2>7. S!OneTurn /\ S!IndexMatches
    BY <2>2, <2>3 DEF S!OneTurn, SP!OneTurn, S!IndexMatches, SP!IndexMatches
  <2>8. S!LossExact
    BY <2>4 DEF S!LossExact, SP!LossExact
  <2>9. S!DirectionLearnt
    BY <2>5 DEF S!DirectionLearnt, SP!DirectionLearnt, S!Learnt, SP!Learnt
  <2>10. S!TypeOK
    BY <2>6 DEF S!TypeOK, SP!TypeOK, S!Positions, SP!Positions
  <2> QED BY <2>7, <2>8, <2>9, <2>10 DEF OneTurn, IndexMatches, LossExact, DirectionLearnt
<1>2. CASE cast # "split"
  <2>1. SplitRests
    BY <1>2 DEF SplitOrRest
  <2>2. S!OneTurn
    BY <2>1 DEF SplitRests, S!OneTurn
  <2>3. S!IndexMatches
    BY <2>1 DEF SplitRests, S!IndexMatches
  <2>4. S!LossExact
    BY <2>1 DEF SplitRests, S!LossExact
  <2> QED BY <1>2, <2>2, <2>3, <2>4 DEF OneTurn, IndexMatches, LossExact, DirectionLearnt
<1> QED BY <1>1, <1>2

LEMMA ClientFollows ==
  ASSUME ClientOrRest
  PROVE  AnswerTrue /\ (cast = "ptc" => P!TypeOK)
<1>1. CASE cast = "ptc"
  <2>1. PP!AnswerTrue
    BY <1>1 DEF ClientOrRest, ClientInv, PP!AnswerInv
  <2>2. PP!TypeOK
    BY <1>1, PP!ControlTypes DEF ClientOrRest, ClientInv
  <2>3. P!AnswerTrue
    BY <2>1 DEF P!AnswerTrue, PP!AnswerTrue, P!Answer, PP!Answer, P!Payload, PP!Payload,
                P!Token, PP!Token, P!Users, PP!Users, P!Setting, PP!Setting,
                P!HeaderSize, PP!HeaderSize
  <2>4. P!TypeOK
    BY <2>2 DEF P!TypeOK, PP!TypeOK, P!Users, PP!Users
  <2> QED BY <2>3, <2>4 DEF AnswerTrue
<1>2. CASE cast # "ptc"
  <2>1. result = [u \in P!Users |-> P!NoResult]
    BY <1>2 DEF ClientOrRest, PtcRests
  <2>2. P!AnswerTrue
    BY <2>1 DEF P!AnswerTrue, P!NoResult
  <2> QED BY <1>2, <2>2 DEF AnswerTrue
<1> QED BY <1>1, <1>2

LEMMA PipelineFollows == PipelineOrRest => TypeOK
<1>1. CASE cast = "pipeline"
  BY <1>1 DEF PipelineOrRest, TypeInv
<1>2. CASE cast # "pipeline"
  <2> SUFFICES ASSUME PipelineRests PROVE TypeOK
    BY <1>2 DEF PipelineOrRest
  <2>1. FrameTypes
    BY PipelineAssumption DEF PipelineRests, FrameTypes, Slots
  <2>2. ListTypes
    BY PipelineAssumption DEF PipelineRests, ListTypes, Handlers
  <2>3. JobTypes
    BY DEF PipelineRests, JobTypes
  <2>4. FlagTypes
    <3>1. handle_thread_count_ \in 1 .. MaxHandlers
      BY PipelineAssumption DEF PipelineRests
    <3>2. is_thread_runing_ \in BOOLEAN /\ running_ \in BOOLEAN
      BY DEF PipelineRests
    <3> QED BY <3>1, <3>2 DEF PipelineRests, FlagTypes
  <2> QED BY <2>1, <2>2, <2>3, <2>4 DEF TypeOK
<1> QED BY <1>1, <1>2

\* What the invariant of the parser says of the whole.
LEMMA SplitHolds == MCSpec => [](OneTurn /\ IndexMatches /\ LossExact /\ DirectionLearnt)
<1>1. PICK w : SP!Wide(w)
  BY WidthExists
<1>2. MCInit => SplitOrRest(w)
  BY SplitStarts
<1>3. SplitOrRest(w) /\ [MCNext]_MCVars => SplitOrRest(w)'
  BY <1>1, SplitGoesOn
<1>4. SplitOrRest(w) => OneTurn /\ IndexMatches /\ LossExact /\ DirectionLearnt
  BY <1>1, WhatFollows
<1> QED BY <1>2, <1>3, <1>4, PTL DEF MCSpec, MCVars

\* OneTurnHolds: in every run of the whole, whatever is lost, repeated or overtaken,
\* a frame that began in order has packets of one turn of the lidar only.
THEOREM OneTurnHolds == MCSpec => []OneTurn
  BY SplitHolds, PTL

\* IndexHolds: between two frames the packets that Run has queued are as many as
\* the parser has counted into the frame.
THEOREM IndexHolds == MCSpec => []IndexMatches
  BY SplitHolds, PTL

\* LossHolds: once the newest packet is decoded, the losses published are the
\* packets that were sent and not decoded, although numbers wrap around.
THEOREM LossHolds == MCSpec => []LossExact
  BY SplitHolds, PTL

\* DirectionHolds: the direction of rotation is known from the fourth azimuth on,
\* or four later for each packet that was overtaken.
THEOREM DirectionHolds == MCSpec => []DirectionLearnt
  BY SplitHolds, PTL

\* SplitExactHolds: of three readings in order the last begins a frame exactly if
\* the lidar has passed the frame's azimuth.
THEOREM SplitExactHolds == MCSpec => SplitExact
<1>1. PICK w : SP!Wide(w)
  BY WidthExists
<1>2. MCInit => SplitOrRest(w)
  BY SplitStarts
<1>3. SplitOrRest(w) /\ [MCNext]_MCVars => SplitOrRest(w)'
  BY <1>1, SplitGoesOn
<1>4. SplitOrRest(w) /\ [MCNext]_MCVars =>
        [\A p \in {packet'} :
           packet' # packet /\ S!InOrder(p) /\ S!Learnt(rotation_flag')
             => (scan_complete' <=> p.turn # at.turn)]_(S!vars)
  <2> SUFFICES ASSUME SplitOrRest(w), [MCNext]_MCVars, packet' # packet,
                      S!InOrder(packet'), S!Learnt(rotation_flag')
               PROVE  scan_complete' <=> packet'.turn # at.turn
    OBVIOUS
  <2>1. cast = "split"
    BY StepsOfParts DEF splitVars
  <2>2. SP!TypeInv /\ [SP!Next]_(SP!vars)
    BY <2>1, StepsOfParts DEF SplitOrRest, SplitInv
  <2>3. SP!InOrder(packet') /\ SP!Learnt(rotation_flag')
    BY DEF S!InOrder, SP!InOrder, S!Learnt, SP!Learnt, S!Ahead, SP!Ahead, S!Where, SP!Where
  <2> QED BY <2>2, <2>3, Assumed, SP!StepSplitsExactly
<1> QED BY <1>2, <1>3, <1>4, PTL DEF MCSpec, MCVars, SplitExact, S!SplitExact

\* AnswersHold: in every run of the whole an answer that is taken is one whole
\* answer of the lidar to such a query, and for a setting to this very one.
THEOREM AnswersHold == MCSpec => []AnswerTrue
<1>1. MCInit => ClientOrRest
  BY ClientStarts
<1>2. ClientOrRest /\ [MCNext]_MCVars => ClientOrRest'
  BY ClientGoesOn
<1>3. ClientOrRest => AnswerTrue
  BY ClientFollows
<1> QED BY <1>1, <1>2, <1>3, PTL DEF MCSpec, MCVars

\* TypesHold: the variables of all three parts have their types.
THEOREM TypesHold == MCSpec => []TypesOK
<1>1. PICK w : SP!Wide(w)
  BY WidthExists
<1>2. MCInit => SplitOrRest(w) /\ ClientOrRest /\ PipelineOrRest
  BY SplitStarts, ClientStarts, PipelineStarts
<1>3. SplitOrRest(w) /\ ClientOrRest /\ PipelineOrRest /\ [MCNext]_MCVars
      => SplitOrRest(w)' /\ ClientOrRest' /\ PipelineOrRest'
  BY <1>1, SplitGoesOn, ClientGoesOn, PipelineGoesOn
<1>4. SplitOrRest(w) /\ ClientOrRest /\ PipelineOrRest => TypesOK
  BY <1>1, WhatFollows, ClientFollows, PipelineFollows DEF TypesOK
<1> QED BY <1>2, <1>3, <1>4, PTL DEF MCSpec, MCVars

=============================================================================
