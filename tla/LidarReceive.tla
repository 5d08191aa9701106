---------------------------- MODULE LidarReceive ----------------------------
(***************************************************************************)
(* The receiving end of the lidar driver: ReceiveUdpThread and             *)
(* ReceiveUdpThreadFaultMessage (lidar.cc) fill origin_packets_buffer_.    *)
(* Who empties it, and who starts and ends the two, is SdkLifecycle.       *)
(*                                                                         *)
(* running_ and source_fault_message_waiting_ are plain bools that other   *)
(* threads poll; they are read afresh each time, as the calls in the loops *)
(* make the compiler do.                                                   *)
(***************************************************************************)
EXTENDS Integers, Sequences, FiniteSets

CONSTANTS
  N,          \* kPacketBufferSize
  NoItem

Receivers == {"udp", "fault"}
Consumers == {"init", "run"}
Items == {"cloud", "fault", "timeout"}

ASSUME ReceiveAssumption == N \in Nat \ {0} /\ NoItem \notin Items

VARIABLES
  ring, call, waiting, awake, expired, returned,   \* origin_packets_buffer_
  pc,                 \* where each receiver is
  packet,             \* what it has received
  is_timeout_,        \* the present silence has been reported
  running_,
  source_type_,                   \* DATA_FROM_LIDAR (udp) or DATA_FROM_PCAP
  source_fault_message_,          \* is there a source for the second receiver?
  source_fault_message_waiting_   \* is the second receiver held back?

Origin == INSTANCE BlockingRing
  WITH Item <- Items, Pushers <- Receivers, TimedPoppers <- Consumers,
       Poppers <- {}, Clearers <- {}

origin == <<ring, call, waiting, awake, expired, returned>>
flags == <<running_, source_type_, source_fault_message_, source_fault_message_waiting_>>
receiver == <<pc, packet, is_timeout_>>
receiveVars == <<origin, receiver, flags>>

ReceiveInit ==
  /\ Origin!Init
  /\ pc = [r \in Receivers |-> "none"]
  /\ packet = [r \in Receivers |-> NoItem]
  /\ is_timeout_ = FALSE /\ running_ = TRUE
  /\ source_type_ \in {"udp", "pcap"}
  /\ source_fault_message_ \in {FALSE, source_type_ = "udp"}
  /\ source_fault_message_waiting_ = TRUE

\* SetThreadNum, on a new lidar: the receivers there are sources for start.
SetThreadNum ==
  pc' = [r \in Receivers |->
           IF r = "fault" /\ ~source_fault_message_ THEN "none" ELSE "receive"]

-----------------------------------------------------------------------------
\* source_->Receive: a datagram, or the time-out of select; of a file, a packet.
Receivable(r) ==
  IF r = "fault" THEN {"fault"}
  ELSE IF source_type_ = "udp" THEN Items ELSE {"cloud", "fault"}

\* Mutant: a silence is reported as often as select times out.
KeepAlways(p) == TRUE

\* Of a silence only the first time-out is kept.  What is not kept (GPS packets
\* and errors too) leaves no trace, so its arrival is not a step.
Keep(p) == p = "timeout" => ~is_timeout_

\* Mutant: the ring is not looked at before storing.
ReceiveAnyway(r) ==
  /\ pc[r] = "receive" /\ running_
  /\ r = "fault" => ~source_fault_message_waiting_
  /\ \E p \in Receivable(r) : Keep(p) /\ packet' = [packet EXCEPT ![r] = p]
  /\ pc' = [pc EXCEPT ![r] = "store"]
  /\ UNCHANGED <<origin, is_timeout_, flags>>

\* One turn of the loop down to emplace_back: something comes in, and
\* while (origin_packets_buffer_.full() && running_) is left for want of the first.
Receive(r) ==
  /\ pc[r] = "receive" /\ running_ /\ ~Origin!IsFull(ring)
  /\ r = "fault" => ~source_fault_message_waiting_
  /\ \E p \in Receivable(r) : Keep(p) /\ packet' = [packet EXCEPT ![r] = p]
  /\ pc' = [pc EXCEPT ![r] = "store"]
  /\ UNCHANGED <<origin, is_timeout_, flags>>

\* Mutant: who finds the ring full goes on looking at the ring alone.
ExitWithRoom(r) ==
  /\ pc[r] = "receive" /\ ~running_ /\ ~Origin!IsFull(ring)
  /\ pc' = [pc EXCEPT ![r] = "exited"]
  /\ UNCHANGED <<origin, packet, is_timeout_, flags>>

\* running_ is false, wherever in the loop it is looked at.
Exit(r) ==
  /\ pc[r] = "receive" /\ ~running_
  /\ pc' = [pc EXCEPT ![r] = "exited"]
  /\ UNCHANGED <<origin, packet, is_timeout_, flags>>

\* What follows emplace_back: is_timeout_, and the next turn of the loop.
Return(r) ==
  /\ pc' = [pc EXCEPT ![r] = "receive"] /\ packet' = [packet EXCEPT ![r] = NoItem]
  /\ is_timeout_' = IF r = "udp" /\ packet[r] # "fault" THEN packet[r] = "timeout"
                                                        ELSE is_timeout_
  /\ UNCHANGED flags

\* Mutant: the call is taken to have returned.
StoredAtOnce(r) == Return(r)

\* emplace_back has returned, or waits inside: the other receiver took the room.
Stored(r) ==
  IF call'[r] = Origin!NoCall
    THEN Return(r)
    ELSE pc' = [pc EXCEPT ![r] = "storing"] /\ UNCHANGED <<packet, is_timeout_, flags>>

Store(r) ==
  /\ pc[r] = "store"
  /\ Origin!Attempt(r, [op |-> "push_back", item |-> packet[r]])
  /\ Stored(r)

StoreResume(r) ==
  /\ pc[r] = "storing" /\ Origin!Resume(r)
  /\ Stored(r)

\* What a receiver does of itself, and what the network makes it do.
ReceiverStep(r) == Exit(r) \/ Store(r) \/ StoreResume(r)

-----------------------------------------------------------------------------
\* SilenceReportedOnce: between two reports of a silence in the buffer there is
\* a point cloud, whatever the other thread stores in between (is_timeout_).
SilenceReportedOnce ==
  LET c == Origin!Contents(ring)
  IN  \A i, j \in 1 .. Len(c) :
        i < j /\ c[i] = "timeout" /\ c[j] = "timeout"
          => \E k \in i .. j : c[k] = "cloud"

\* ReceiverNeverSleeps: the loop on full() exists so that no receiver is caught
\* inside emplace_back, where nothing tells it that running_ is false.  The
\* udp receiver alone is not, whoever empties the ring or no longer does.
ReceiverNeverSleeps == ~source_fault_message_ => pc["udp"] # "storing"

=============================================================================
