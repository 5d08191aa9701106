----------------------------- MODULE FrameSplit -----------------------------
(***************************************************************************)
(* Where one frame of the lidar ends and the next begins, and how many     *)
(* packets were lost: GeneralParser::IsNeedFrameSplit and CalPktLoss, as   *)
(* Udp6_1Parser::DecodePacket and HesaiLidarSdk::Run call them.            *)
(*                                                                         *)
(* The lidar turns in one direction; its packets carry the azimuth of      *)
(* their first block and a sequence number that wraps.  On the way some    *)
(* are lost, delivered twice, or overtaken by the packet after them.       *)
(* Where the lidar really is is kept as a number of turns, counted at the  *)
(* azimuth at which frames begin, and the way travelled since.             *)
(***************************************************************************)
EXTENDS Integers

CONSTANTS
  Circle,         \* azimuths in a turn: 36000
  Gaps,           \* azimuths the lidar may turn between two packets
  FrameAzimuths,  \* values of the parameter frame_start_azimuth
  MaxPackets,     \* maxPacketPerFrame
  RotationLimit,  \* 128 * 8
  RotationShare,  \* 128
  SeqRange,       \* the numbers of uint32_t
  MaxSent, MaxLost, MaxRepeated, MaxOvertaken   \* bounds of the model

\* What the proofs assume (and the runs confirm of their constants): over two gaps
\* between packets that arrive the lidar turns by less than a turn.
Reach(k, g) == (k + 1) * g
SplitAssumption ==
  /\ Circle \in Nat \ {0}
  /\ FrameAzimuths \subseteq Int
  /\ Gaps \subseteq Nat /\ MaxLost \in Nat
  /\ \A g \in Gaps : \A k \in 0 .. MaxLost : Reach(k, g) \in 1 .. Circle - 1
  /\ \A g, h \in Gaps : \A k, l \in 0 .. MaxLost :
       k + l <= MaxLost => Reach(k, g) + Reach(l, h) < Circle
  /\ RotationLimit \in Nat \ {0} /\ RotationShare \in Nat \ {0}

\* And of the numbers: a gap is no whole round of them, and they cut down a sum.
CountAssumption ==
  /\ SeqRange \in Nat /\ MaxLost + 3 < SeqRange
  /\ MaxPackets \in Nat \ {0, 1} /\ RotationShare # 1

\* And of the votes: from one reading to the next but one, whatever was lost or held
\* up between, the lidar turns by less than a turn, and what a cut leaves of the sum
\* outvotes the packets that are overtaken.
DirectionAssumption ==
  /\ \E w \in 0 .. Circle : (\A g \in Gaps : g <= w) /\ (MaxLost + 4) * w < Circle
  /\ MaxOvertaken \in Nat /\ (RotationLimit + 1) \div RotationShare > 2 * MaxOvertaken

Abs(x) == IF x < 0 THEN -x ELSE x
Least(x, y) == IF x < y THEN x ELSE y

\* SetFrameAzimuth: what is not an azimuth means 0.
SetFrameAzimuth(a) == IF a < 0 \/ a >= Circle THEN 0 ELSE a

VARIABLES
  frame_start_azimuth_uint16_,
  direction,          \* 1 or -1: the way this lidar turns
  sent, position,     \* the lidar: packets sent, and where the last one was sent
  held,               \* the packet that is being overtaken
  packet, scan_complete,
  last_azimuth_, last_last_azimuth_, rotation_flag,
  packet_num,         \* of the frame: packets decoded into it
  packet_index,       \* of Run: packets queued in this frame
  seqnum,             \* seqnum_loss_message_
  seen,               \* azimuths read that differ from the one before, ...
  at, before,         \* ... where the last two of them were read, ...
  turns,              \* ... the turns of which this frame has packets, ...
  begun,              \* ... whether it began with a crossing seen in order, ...
  newest, accepted,   \* ... the newest packet decoded, and how many were
  faults              \* how many were lost, repeated, overtaken

lidar == <<frame_start_azimuth_uint16_, direction>>
history == <<last_azimuth_, last_last_azimuth_, seen, at, before>>
frame == <<packet_num, packet_index, turns, begun>>
count == <<seqnum, newest, accepted>>
vars == <<lidar, sent, position, held, packet, scan_complete, history, rotation_flag,
          frame, count, faults>>

-----------------------------------------------------------------------------
\* Where the lidar is when it has turned on by g, less than a whole turn.
Ahead(p, g) ==
  IF p.offset + g < Circle THEN [p EXCEPT !.offset = @ + g]
  ELSE [turn |-> p.turn + 1, offset |-> p.offset + g - Circle]

\* Mutant: a whole turn is an azimuth too.
WrappedLate(a) == IF a < 0 THEN a + Circle ELSE IF a > Circle THEN a - Circle ELSE a

\* GetAzimuth: the azimuth of the first block, 0 .. Circle - 1.
Wrapped(a) == IF a < 0 THEN a + Circle ELSE IF a >= Circle THEN a - Circle ELSE a
Azimuth(p) ==
  Wrapped(IF direction = 1 THEN frame_start_azimuth_uint16_ + p.offset
          ELSE frame_start_azimuth_uint16_ - p.offset)

GetSeqNum(n) == n % SeqRange

None == [n |-> 0, turn |-> 0, offset |-> 0]
Packet(n, p) == [n |-> n, turn |-> p.turn, offset |-> p.offset]
Where(p) == [turn |-> p.turn, offset |-> p.offset]

-----------------------------------------------------------------------------
\* Mutant: the greater of the two differences.
DivisionMax(az) == -Least(-Abs(last_azimuth_ - last_last_azimuth_), -Abs(last_azimuth_ - az))

\* IsNeedFrameSplit: the lesser of the last two differences of azimuths, ...
Division(az) == Least(Abs(last_azimuth_ - last_last_azimuth_), Abs(last_azimuth_ - az))

\* ... which tells the direction: a difference as small as that is no wrap-around, ...
Rotation(az) ==
  IF \/ last_last_azimuth_ - last_azimuth_ = Division(az)
     \/ last_azimuth_ - az = Division(az)
    THEN -1 ELSE 1

\* ... UpdateRotation: by majority, in a sum that is cut down when it grows, ...
UpdateRotation(flag, rotation) ==
  IF Abs(flag) = 10 * RotationLimit THEN flag
  ELSE (IF Abs(flag) > RotationLimit
          THEN (IF flag < 0 THEN -1 ELSE 1) * (Abs(flag) \div RotationShare)
          ELSE flag) + rotation

Comparable(az) == last_last_azimuth_ # -1 /\ Division(az) # 0

\* Mutant: a packet at the very azimuth does not begin a frame.
CrossesStrictly(az, flag) ==
  LET from == last_azimuth_
      s    == frame_start_azimuth_uint16_
  IN  IF flag > 0
        THEN IF from - az > Division(az) THEN s > from \/ s < az
             ELSE from < az /\ from < s /\ az > s
        ELSE IF az - from > Division(az) THEN s < from \/ s > az
             ELSE from > az /\ from > s /\ az < s

\* ... and whether the frame's azimuth lies between the last packet and this.
Crosses(az, flag) ==
  LET from == last_azimuth_
      s    == frame_start_azimuth_uint16_
  IN  IF flag > 0
        THEN IF from - az > Division(az) THEN s > from \/ s <= az
             ELSE from < az /\ from < s /\ az >= s
        ELSE IF az - from > Division(az) THEN s < from \/ s >= az
             ELSE from > az /\ from > s /\ az <= s

NewRotation(az) ==
  IF Comparable(az) THEN UpdateRotation(rotation_flag, Rotation(az)) ELSE rotation_flag

IsNeedFrameSplit(az) == Comparable(az) /\ Crosses(az, NewRotation(az))

\* Mutant: the history is not brought up to date by a packet that begins a frame.
RememberUnlessSplit(p) ==
  LET az == Azimuth(p)
  IN  IF seen > 0 /\ (az = last_azimuth_ \/ IsNeedFrameSplit(az)) THEN UNCHANGED history
      ELSE /\ IF az = last_azimuth_ THEN UNCHANGED <<last_azimuth_, last_last_azimuth_>>
              ELSE last_last_azimuth_' = last_azimuth_ /\ last_azimuth_' = az
           /\ seen' = seen + 1 /\ before' = at /\ at' = Where(p)

\* DecodePacket remembers an azimuth that differs from the last.
Remember(p) ==
  LET az == Azimuth(p)
  IN  IF seen > 0 /\ az = last_azimuth_ THEN UNCHANGED history
      ELSE /\ IF az = last_azimuth_ THEN UNCHANGED <<last_azimuth_, last_last_azimuth_>>
              ELSE last_last_azimuth_' = last_azimuth_ /\ last_azimuth_' = az
           /\ seen' = seen + 1 /\ before' = at /\ at' = Where(p)

-----------------------------------------------------------------------------
\* Mutant: one packet too few over the wrap-around.
StepsShort(s) ==
  LET last == seqnum.last_seqnum
  IN  IF s >= last THEN s - last ELSE (SeqRange - 1 - last) + s

\* CalPktLoss: from the last sequence number to this one, ...
Steps(s) ==
  LET last == seqnum.last_seqnum
  IN  IF s >= last THEN s - last ELSE (SeqRange - 1 - last) + s + 1

\* ... all packets but the one that arrived are lost.  The counter of packets
\* has 64 bits, that of losses 32.
CalPktLoss(s) ==
  IF ~seqnum.is_init
    THEN [is_init |-> TRUE, last_seqnum |-> s, total_packet_count |-> 0,
          total_loss_count |-> 0]
    ELSE [seqnum EXCEPT
            !.last_seqnum = s,
            !.total_packet_count = @ + Steps(s),
            !.total_loss_count =
              IF Steps(s) > 1 THEN (@ + Steps(s) - 1) % SeqRange ELSE @]

\* What is left of DecodePacket, for a packet whose azimuth begins no frame.
Accept(p, num) ==
  /\ seqnum' = CalPktLoss(GetSeqNum(p.n))
  /\ accepted' = IF p = packet /\ ~scan_complete THEN accepted ELSE accepted + 1
  /\ newest' = IF p.n > newest THEN p.n ELSE newest
  /\ packet_num' = num + 1 /\ turns' = turns \cup {p.turn}

-----------------------------------------------------------------------------
\* Three readings of a lidar that turns on, by less than a turn in all.
InOrder(p) ==
  /\ seen >= 2
  /\ \E g, h \in 1 .. Circle - 1 :
       g + h < Circle /\ at = Ahead(before, g) /\ Where(p) = Ahead(at, h)

Learnt(flag) == (flag > 0) <=> (direction = 1)

\* Run.  A packet of this frame is stored in the slot packet_num, and its index
\* queued if that is a new one ...
DecodeMore(p) ==
  /\ ~scan_complete /\ ~IsNeedFrameSplit(Azimuth(p)) /\ packet_num + 1 < MaxPackets
  /\ packet' = p
  /\ rotation_flag' = NewRotation(Azimuth(p)) /\ Remember(p)
  /\ Accept(p, packet_num)
  /\ packet_index' = IF packet_num' # packet_index THEN packet_index + 1 ELSE packet_index
  /\ UNCHANGED <<lidar, scan_complete, begun>>

\* ... if there is room for another: "fail to start a new frame".
DecodeTooMany(p) ==
  /\ ~scan_complete /\ ~IsNeedFrameSplit(Azimuth(p)) /\ packet_num + 1 >= MaxPackets
  /\ packet' = p
  /\ rotation_flag' = NewRotation(Azimuth(p)) /\ Remember(p)
  /\ seqnum' = CalPktLoss(GetSeqNum(p.n))
  /\ accepted' = (IF p = packet THEN accepted ELSE accepted + 1)
  /\ newest' = (IF p.n > newest THEN p.n ELSE newest)
  /\ packet_num' = 0 /\ packet_index' = 0 /\ turns' = {} /\ begun' = FALSE
  /\ UNCHANGED <<lidar, scan_complete>>

\* A packet that begins the next frame: this one is complete, ...
DecodeSplit(p) ==
  /\ ~scan_complete /\ IsNeedFrameSplit(Azimuth(p))
  /\ packet' = p /\ scan_complete' = TRUE
  /\ rotation_flag' = NewRotation(Azimuth(p)) /\ Remember(p)
  /\ turns' = {} /\ begun' = (InOrder(p) /\ Learnt(rotation_flag'))
  /\ UNCHANGED <<lidar, count, packet_num, packet_index>>

\* ... is published, and the packet decoded again as the first of the next.  Its
\* index is queued whatever DecodePacket makes of it.
NewFrame ==
  /\ scan_complete /\ scan_complete' = FALSE
  /\ packet_index' = 1
  /\ rotation_flag' = NewRotation(Azimuth(packet)) /\ Remember(packet)
  /\ IF IsNeedFrameSplit(Azimuth(packet))
       THEN packet_num' = 0 /\ UNCHANGED <<turns, count>>
       ELSE Accept(packet, 0)
  /\ UNCHANGED <<lidar, sent, position, held, packet, begun, faults>>

Decode(p) == DecodeMore(p) \/ DecodeTooMany(p) \/ DecodeSplit(p)

-----------------------------------------------------------------------------
\* The lidar and the network.  The newest packet arrives, those before it lost; ...
Arrive(k, g) ==
  /\ held = None \/ newest < held.n
  /\ faults.lost + k <= MaxLost /\ (sent = 0 => k = 0) /\ sent + k + 1 <= MaxSent
  /\ sent' = sent + k + 1 /\ position' = Ahead(position, Reach(k, g))
  /\ faults' = [faults EXCEPT !.lost = @ + k]
  /\ Decode(Packet(sent', position'))
  /\ UNCHANGED held

\* ... a packet is delivered twice; ...
Repeat ==
  /\ packet # None /\ faults.repeated < MaxRepeated
  /\ faults' = [faults EXCEPT !.repeated = @ + 1]
  /\ Decode(packet)
  /\ UNCHANGED <<sent, position, held>>

\* ... a packet is held up until the one after it has been decoded.
HoldUp(g) ==
  /\ held = None /\ seqnum.is_init /\ faults.overtaken < MaxOvertaken /\ sent < MaxSent
  /\ sent' = sent + 1 /\ position' = Ahead(position, g)
  /\ held' = Packet(sent', position')
  /\ faults' = [faults EXCEPT !.overtaken = @ + 1]
  /\ UNCHANGED <<lidar, packet, scan_complete, history, rotation_flag, frame, count>>

ArriveLate ==
  /\ held # None /\ newest > held.n
  /\ held' = None
  /\ Decode(held)
  /\ UNCHANGED <<sent, position, faults>>

Init ==
  /\ frame_start_azimuth_uint16_ \in {SetFrameAzimuth(a) : a \in FrameAzimuths}
  /\ direction \in {1, -1}
  /\ sent = 0 /\ position \in [turn : {0}, offset : 0 .. Circle - 1] /\ held = None
  /\ packet = None /\ scan_complete = FALSE
  /\ last_azimuth_ = 0 /\ last_last_azimuth_ = 0 /\ rotation_flag = 0
  /\ packet_num = 0 /\ packet_index = 0
  /\ seqnum = [is_init |-> FALSE, last_seqnum |-> 0, total_packet_count |-> 0,
               total_loss_count |-> 0]
  /\ seen = 0 /\ at = Where(None) /\ before = Where(None)
  /\ turns = {} /\ begun = FALSE /\ newest = 0 /\ accepted = 0
  /\ faults = [lost |-> 0, repeated |-> 0, overtaken |-> 0]

Next ==
  \/ \E g \in Gaps : (\E k \in 0 .. MaxLost : Arrive(k, g)) \/ HoldUp(g)
  \/ Repeat \/ ArriveLate \/ NewFrame

Spec == Init /\ [][Next]_vars

-----------------------------------------------------------------------------
Positions == [turn : Nat, offset : 0 .. Circle - 1]

TypeOK ==
  /\ frame_start_azimuth_uint16_ \in 0 .. Circle - 1 /\ direction \in {1, -1}
  /\ position \in Positions /\ at \in Positions /\ before \in Positions
  /\ sent \in Nat /\ seen \in Nat /\ newest \in 0 .. sent /\ accepted \in 0 .. sent
  /\ {held, packet} \subseteq [n : 0 .. sent, turn : Nat, offset : 0 .. Circle - 1]
  /\ scan_complete \in BOOLEAN /\ begun \in BOOLEAN
  /\ last_azimuth_ \in 0 .. Circle - 1 /\ last_last_azimuth_ \in 0 .. Circle - 1
  /\ rotation_flag \in -(RotationLimit + 1) .. RotationLimit + 1
  /\ packet_num \in 0 .. MaxPackets - 1 /\ packet_index \in 0 .. MaxPackets - 1
  /\ turns \subseteq Nat

\* SplitExact: of three readings in order, once the direction is known, the last
\* is held to begin a frame exactly if the lidar has passed the frame's azimuth.
SplitExact ==
  [][\A p \in {packet'} :
       packet' # packet /\ InOrder(p) /\ Learnt(rotation_flag')
         => (scan_complete' <=> p.turn # at.turn)]_vars

\* OneTurn: a frame that began in order has packets of one turn, whatever is
\* lost or repeated.
OneTurn == begun /\ faults.overtaken = 0 => \A t, u \in turns : t = u

\* DirectionLearnt: the direction is known from the fourth azimuth on, although
\* the first two are compared with azimuths that no packet had; a packet that
\* was overtaken casts wrong votes, which as many right ones outvote.
DirectionLearnt == seen >= 4 + 4 * faults.overtaken => Learnt(rotation_flag)

\* IndexMatches: the packets whose index Run has queued are those in the frame.
IndexMatches == ~scan_complete => packet_index = packet_num

\* LossExact: when the newest packet has been decoded, the losses published are
\* the packets that were sent and not decoded, and the total is all of them.
LossExact ==
  packet.n = newest /\ seqnum.is_init /\ ~scan_complete =>
    /\ seqnum.total_loss_count = newest - accepted
    /\ seqnum.total_packet_count % SeqRange = (newest - 1) % SeqRange

=============================================================================
