------------------------- MODULE FrameSplit_proofs -------------------------
(***************************************************************************)
(* Frames begin where they should, their packets and losses are counted,   *)
(* and the direction is learnt, for every value of the constants.          *)
(***************************************************************************)
EXTENDS FrameSplit, TLAPS

\* Every place the lidar can be at, and every packet.
Places == [turn : Nat, offset : 0 .. Circle - 1]
Packets == [n : Int, turn : Nat, offset : 0 .. Circle - 1]

-----------------------------------------------------------------------------
\* The azimuths of the frame's start, direction and three places: arithmetic.
LEMMA AheadPlace ==
  ASSUME Circle \in Nat \ {0}, NEW p \in Places, NEW g \in 0 .. Circle
  PROVE  Ahead(p, g) \in Places
BY DEF Ahead, Places

\* The gap of a packet that arrives is less than a turn.
LEMMA ReachRange ==
  ASSUME SplitAssumption, NEW g \in Gaps, NEW k \in 0 .. MaxLost
  PROVE  Reach(k, g) \in 1 .. Circle - 1 /\ Reach(k, g) \in 0 .. Circle
<1>1. Reach(k, g) \in 1 .. Circle - 1 /\ Circle \in Nat
  BY DEF SplitAssumption
<1> QED BY <1>1

\* An azimuth is one of those in a turn.
LEMMA AzimuthRange ==
  ASSUME Circle \in Nat \ {0}, frame_start_azimuth_uint16_ \in 0 .. Circle - 1,
         direction \in {1, -1}, NEW p, p.offset \in 0 .. Circle - 1
  PROVE  Azimuth(p) \in 0 .. Circle - 1
BY DEF Azimuth, Wrapped

\* Turned by less than a circle the azimuth is another one.
LEMMA AzimuthMoves ==
  ASSUME Circle \in Nat \ {0}, frame_start_azimuth_uint16_ \in 0 .. Circle - 1,
         direction \in {1, -1}, NEW p \in Places, NEW g \in 1 .. Circle - 1
  PROVE  Azimuth(Ahead(p, g)) # Azimuth(p)
BY DEF Azimuth, Wrapped, Ahead, Places

\* What three readings in order say: the second and the third differ; the lesser
\* difference is a turn without wrap-around, and votes for the direction; the
\* frame's azimuth is crossed exactly if a turn begins.
LEMMA ThreeReadings ==
  ASSUME Circle \in Nat \ {0}, frame_start_azimuth_uint16_ \in 0 .. Circle - 1,
         direction \in {1, -1}, NEW b \in Places, NEW g \in 1 .. Circle - 1,
         NEW h \in 1 .. Circle - 1, g + h < Circle,
         NEW a \in Places, a = Ahead(b, g), NEW p \in Places, p = Ahead(a, h),
         last_azimuth_ = Azimuth(a), last_last_azimuth_ = Azimuth(b),
         NEW flag \in Int
  PROVE  /\ Comparable(Azimuth(p))
         /\ Rotation(Azimuth(p)) = direction
         /\ Learnt(flag) => (Crosses(Azimuth(p), flag) <=> p.turn # a.turn)
<1> DEFINE s == frame_start_azimuth_uint16_
           C == Circle
<1>1. CASE direction = 1
  <2>1. Azimuth(a) = IF s + a.offset >= C THEN s + a.offset - C ELSE s + a.offset
    BY <1>1 DEF Azimuth, Wrapped, Places
  <2>2. Azimuth(b) = IF s + b.offset >= C THEN s + b.offset - C ELSE s + b.offset
    BY <1>1 DEF Azimuth, Wrapped, Places
  <2>3. Azimuth(p) = IF s + p.offset >= C THEN s + p.offset - C ELSE s + p.offset
    BY <1>1 DEF Azimuth, Wrapped, Places
  <2>4. /\ a.offset = IF b.offset + g < C THEN b.offset + g ELSE b.offset + g - C
        /\ p.offset = IF a.offset + h < C THEN a.offset + h ELSE a.offset + h - C
        /\ p.turn = IF a.offset + h < C THEN a.turn ELSE a.turn + 1
    BY DEF Ahead, Places
  <2>5. /\ a.offset \in 0 .. C - 1 /\ b.offset \in 0 .. C - 1 /\ p.offset \in 0 .. C - 1
        /\ a.turn \in Int
    BY DEF Places
  <2> QED
    BY <1>1, <2>1, <2>2, <2>3, <2>4, <2>5
    DEF Comparable, Rotation, Crosses, Division, Least, Abs, Learnt
<1>2. CASE direction = -1
  <2>1. Azimuth(a) = IF s - a.offset < 0 THEN s - a.offset + C ELSE s - a.offset
    BY <1>2 DEF Azimuth, Wrapped, Places
  <2>2. Azimuth(b) = IF s - b.offset < 0 THEN s - b.offset + C ELSE s - b.offset
    BY <1>2 DEF Azimuth, Wrapped, Places
  <2>3. Azimuth(p) = IF s - p.offset < 0 THEN s - p.offset + C ELSE s - p.offset
    BY <1>2 DEF Azimuth, Wrapped, Places
  <2>4. /\ a.offset = IF b.offset + g < C THEN b.offset + g ELSE b.offset + g - C
        /\ p.offset = IF a.offset + h < C THEN a.offset + h ELSE a.offset + h - C
        /\ p.turn = IF a.offset + h < C THEN a.turn ELSE a.turn + 1
    BY DEF Ahead, Places
  <2>5. /\ a.offset \in 0 .. C - 1 /\ b.offset \in 0 .. C - 1 /\ p.offset \in 0 .. C - 1
        /\ a.turn \in Int
    BY DEF Places
  <2> QED
    BY <1>2, <2>1, <2>2, <2>3, <2>4, <2>5
    DEF Comparable, Rotation, Crosses, Division, Least, Abs, Learnt
<1> QED BY <1>1, <1>2

-----------------------------------------------------------------------------
\* What the history says of the azimuths remembered.
HistoryOK ==
  /\ at \in Places /\ before \in Places /\ seen \in Nat
  /\ last_azimuth_ \in 0 .. Circle - 1 /\ last_last_azimuth_ \in 0 .. Circle - 1
  /\ seen >= 1 => last_azimuth_ = Azimuth(at)
  /\ seen >= 2 => last_last_azimuth_ = Azimuth(before)

TypeInv ==
  /\ frame_start_azimuth_uint16_ \in 0 .. Circle - 1 /\ direction \in {1, -1}
  /\ position \in Places /\ held \in Packets /\ packet \in Packets
  /\ sent \in Nat /\ rotation_flag \in Int
  /\ faults \in [lost : Nat, repeated : Nat, overtaken : Nat]
  /\ HistoryOK

\* A packet is at a place, ...
LEMMA PacketPlace ==
  ASSUME NEW p \in Packets
  PROVE  /\ Where(p) \in Places /\ Azimuth(Where(p)) = Azimuth(p)
         /\ Where(p).turn = p.turn
BY DEF Packets, Places, Where, Azimuth

\* A packet that is sent from a place is one.
LEMMA PacketMade ==
  ASSUME NEW n \in Int, NEW p \in Places
  PROVE  /\ Packet(n, p) \in Packets /\ Where(Packet(n, p)) = p
         /\ Packet(n, p).turn = p.turn /\ Packet(n, p).n = n
BY DEF Packets, Places, Where, Packet

\* ... and its azimuth is remembered with it.
LEMMA Remembers ==
  ASSUME Circle \in Nat \ {0}, TypeInv, NEW p \in Packets, Remember(p),
         UNCHANGED lidar
  PROVE  HistoryOK'
<1>1. Azimuth(p) \in 0 .. Circle - 1
  BY AzimuthRange DEF TypeInv, Packets
<1>2. CASE seen > 0 /\ Azimuth(p) = last_azimuth_
  <2>1. UNCHANGED <<last_azimuth_, last_last_azimuth_, seen, at, before>>
    BY <1>2 DEF Remember, history
  <2> QED BY <2>1 DEF TypeInv, HistoryOK, lidar, Azimuth, Wrapped
<1>3. CASE ~(seen > 0 /\ Azimuth(p) = last_azimuth_)
  <2>1. /\ IF Azimuth(p) = last_azimuth_
               THEN UNCHANGED <<last_azimuth_, last_last_azimuth_>>
               ELSE last_last_azimuth_' = last_azimuth_ /\ last_azimuth_' = Azimuth(p)
        /\ seen' = seen + 1 /\ before' = at /\ at' = Where(p)
    BY <1>3 DEF Remember
  <2>2. last_azimuth_' = Azimuth(at)'
    <3>1. last_azimuth_' = Azimuth(p)
      BY <2>1
    <3>2. Azimuth(p) = Azimuth(at)'
      BY <2>1 DEF Azimuth, Wrapped, Where, lidar
    <3> QED BY <3>1, <3>2
  <2>3. seen' >= 2 => seen >= 1 /\ last_last_azimuth_' = last_azimuth_
    BY <2>1, <1>3 DEF TypeInv, HistoryOK
  <2>4. Azimuth(before)' = Azimuth(at)
    BY <2>1 DEF Azimuth, Wrapped, lidar
  <2>5. seen' >= 2 => last_last_azimuth_' = Azimuth(before)'
    BY <2>3, <2>4 DEF TypeInv, HistoryOK
  <2>6. /\ at' \in Places /\ before' \in Places /\ seen' \in Nat
        /\ last_azimuth_' \in 0 .. Circle - 1 /\ last_last_azimuth_' \in 0 .. Circle - 1
    BY <2>1, <1>1, PacketPlace DEF TypeInv, HistoryOK
  <2> QED BY <2>2, <2>5, <2>6 DEF HistoryOK
<1> QED BY <1>2, <1>3

\* The sum of votes is a number, ...
LEMMA RotationType ==
  ASSUME RotationLimit \in Nat \ {0}, RotationShare \in Nat \ {0}, NEW f \in Int,
         NEW r \in {1, -1}
  PROVE  UpdateRotation(f, r) \in Int
BY DEF UpdateRotation, Abs

\* ... whatever azimuth is read.
LEMMA NewRotationType ==
  ASSUME RotationLimit \in Nat \ {0}, RotationShare \in Nat \ {0}, rotation_flag \in Int,
         NEW az
  PROVE  NewRotation(az) \in Int
<1>1. Rotation(az) \in {1, -1}
  BY DEF Rotation
<1> QED BY <1>1, RotationType DEF NewRotation

\* What decoding a packet does in every case.
LEMMA DecodeType ==
  ASSUME SplitAssumption, TypeInv, NEW p \in Packets, Decode(p)
  PROVE  /\ HistoryOK' /\ packet' = p /\ UNCHANGED lidar
         /\ rotation_flag' \in Int /\ rotation_flag' = NewRotation(Azimuth(p))
         /\ scan_complete' <=> IsNeedFrameSplit(Azimuth(p))
<1>1. /\ packet' = p /\ rotation_flag' = NewRotation(Azimuth(p)) /\ Remember(p)
      /\ UNCHANGED lidar
  BY DEF Decode, DecodeMore, DecodeTooMany, DecodeSplit
<1>2. scan_complete' <=> IsNeedFrameSplit(Azimuth(p))
  <2>1. CASE DecodeSplit(p)
    <3>1. IsNeedFrameSplit(Azimuth(p)) /\ scan_complete' = TRUE
      BY <2>1 DEF DecodeSplit
    <3> QED BY <3>1
  <2>2. CASE DecodeMore(p) \/ DecodeTooMany(p)
    <3>1. ~IsNeedFrameSplit(Azimuth(p)) /\ ~scan_complete /\ scan_complete' = scan_complete
      BY <2>2 DEF DecodeMore, DecodeTooMany
    <3> QED BY <3>1
  <2> QED BY <2>1, <2>2 DEF Decode
<1>3. HistoryOK'
  BY <1>1, Remembers DEF SplitAssumption
<1>4. rotation_flag' \in Int
  BY <1>1, NewRotationType DEF SplitAssumption, TypeInv
<1> QED BY <1>1, <1>2, <1>3, <1>4

-----------------------------------------------------------------------------
\* At first the types are right.
LEMMA InitType == SplitAssumption /\ Init => TypeInv
<1> SUFFICES ASSUME SplitAssumption, Init PROVE TypeInv
  OBVIOUS
<1>1. frame_start_azimuth_uint16_ \in 0 .. Circle - 1
  BY DEF Init, SplitAssumption, SetFrameAzimuth
<1>2. position \in Places /\ Where(None) \in Places /\ None \in Packets
  BY DEF Init, SplitAssumption, Places, Packets, None, Where
<1>3. 0 \in 0 .. Circle - 1
  BY DEF SplitAssumption
<1> QED BY <1>1, <1>2, <1>3 DEF Init, TypeInv, HistoryOK

\* One step: the types are kept.
LEMMA StepType ==
  ASSUME SplitAssumption, TypeInv, [Next]_vars
  PROVE  TypeInv'
<1>1. ASSUME NEW g \in Gaps, NEW k \in 0 .. MaxLost, Arrive(k, g)
      PROVE  TypeInv'
  <2>1. Reach(k, g) \in 0 .. Circle
    BY ReachRange
  <2>2. position' \in Places /\ sent' \in Nat
    BY <1>1, <2>1, AheadPlace DEF Arrive, TypeInv, SplitAssumption
  <2>3. Packet(sent', position') \in Packets /\ Decode(Packet(sent', position'))
    BY <1>1, <2>2, PacketMade DEF Arrive
  <2>4. faults' \in [lost : Nat, repeated : Nat, overtaken : Nat] /\ held' = held
    BY <1>1 DEF Arrive, TypeInv, SplitAssumption
  <2> QED BY <2>2, <2>3, <2>4, DecodeType DEF TypeInv, lidar
<1>2. ASSUME NEW g \in Gaps, HoldUp(g)
      PROVE  TypeInv'
  <2>1. g \in 0 .. Circle
    <3>1. Reach(0, g) \in 0 .. Circle
      BY ReachRange DEF SplitAssumption
    <3> QED BY <3>1 DEF Reach, SplitAssumption
  <2>2. position' \in Places /\ sent' \in Nat
    BY <1>2, <2>1, AheadPlace DEF HoldUp, TypeInv, SplitAssumption
  <2>3. held' \in Packets
    BY <1>2, <2>2, PacketMade DEF HoldUp
  <2>4. faults' \in [lost : Nat, repeated : Nat, overtaken : Nat]
    BY <1>2 DEF HoldUp, TypeInv
  <2>5. UNCHANGED <<lidar, packet, rotation_flag, history>>
    BY <1>2 DEF HoldUp
  <2> QED BY <2>2, <2>3, <2>4, <2>5
          DEF TypeInv, HistoryOK, lidar, history, Azimuth, Wrapped
<1>3. CASE Repeat
  <2>1. packet \in Packets /\ Decode(packet)
    BY <1>3 DEF Repeat, TypeInv
  <2>2. faults' \in [lost : Nat, repeated : Nat, overtaken : Nat]
    BY <1>3 DEF Repeat, TypeInv
  <2>3. UNCHANGED <<sent, position, held>>
    BY <1>3 DEF Repeat
  <2> QED BY <2>1, <2>2, <2>3, DecodeType DEF TypeInv, lidar
<1>4. CASE ArriveLate
  <2>1. held \in Packets /\ Decode(held) /\ held' \in Packets
    BY <1>4 DEF ArriveLate, TypeInv, Packets, None, SplitAssumption
  <2>2. UNCHANGED <<sent, position, faults>>
    BY <1>4 DEF ArriveLate
  <2> QED BY <2>1, <2>2, DecodeType DEF TypeInv, lidar
<1>5. CASE NewFrame
  <2>1. packet \in Packets /\ Remember(packet)
        /\ UNCHANGED <<lidar, sent, position, held, packet, faults>>
        /\ rotation_flag' = NewRotation(Azimuth(packet))
    BY <1>5 DEF NewFrame, TypeInv
  <2>2. HistoryOK' /\ rotation_flag' \in Int
    BY <2>1, Remembers, NewRotationType DEF SplitAssumption, TypeInv
  <2> QED BY <2>1, <2>2 DEF TypeInv, lidar
<1>6. CASE UNCHANGED vars
  BY <1>6 DEF vars, lidar, history, TypeInv, HistoryOK, Azimuth, Wrapped
<1> QED BY <1>1, <1>2, <1>3, <1>4, <1>5, <1>6 DEF Next

-----------------------------------------------------------------------------
\* A packet in order splits where the lidar passes the frame's azimuth.
LEMMA DecodeSplitsExactly ==
  ASSUME SplitAssumption, TypeInv, NEW p \in Packets, Decode(p), InOrder(p),
         Learnt(rotation_flag')
  PROVE  scan_complete' <=> p.turn # at.turn
<1>1. PICK g \in 1 .. Circle - 1, h \in 1 .. Circle - 1 :
        g + h < Circle /\ at = Ahead(before, g) /\ Where(p) = Ahead(at, h)
  BY DEF InOrder
<1>2. /\ Circle \in Nat \ {0} /\ frame_start_azimuth_uint16_ \in 0 .. Circle - 1
      /\ direction \in {1, -1} /\ before \in Places /\ at \in Places
      /\ last_azimuth_ = Azimuth(at) /\ last_last_azimuth_ = Azimuth(before)
  BY DEF SplitAssumption, TypeInv, HistoryOK, InOrder
<1>3. Where(p) \in Places /\ Azimuth(Where(p)) = Azimuth(p) /\ Where(p).turn = p.turn
  BY PacketPlace
<1>4. /\ packet' = p /\ rotation_flag' \in Int
      /\ rotation_flag' = NewRotation(Azimuth(p))
      /\ scan_complete' <=> IsNeedFrameSplit(Azimuth(p))
  BY DecodeType
<1>5. /\ Comparable(Azimuth(p))
      /\ Learnt(rotation_flag') =>
           (Crosses(Azimuth(p), rotation_flag') <=> p.turn # at.turn)
  BY <1>1, <1>2, <1>3, <1>4, ThreeReadings
<1> QED BY <1>4, <1>5 DEF IsNeedFrameSplit

\* The step of SplitExact.
LEMMA StepSplitsExactly ==
  ASSUME SplitAssumption, TypeInv, [Next]_vars, packet' # packet, InOrder(packet'),
         Learnt(rotation_flag')
  PROVE  scan_complete' <=> packet'.turn # at.turn
<1>1. \E p \in Packets : Decode(p)
  <2>1. ASSUME NEW g \in Gaps, NEW k \in 0 .. MaxLost, Arrive(k, g)
        PROVE  \E p \in Packets : Decode(p)
    <3>1. Reach(k, g) \in 0 .. Circle
      BY ReachRange
    <3>2. position' \in Places /\ sent' \in Nat
      BY <2>1, <3>1, AheadPlace DEF Arrive, TypeInv, SplitAssumption
    <3> QED BY <2>1, <3>2, PacketMade DEF Arrive
  <2>2. CASE Repeat
    BY <2>2 DEF Repeat, TypeInv
  <2>3. CASE ArriveLate
    BY <2>3 DEF ArriveLate, TypeInv
  <2>4. ASSUME (\E g \in Gaps : HoldUp(g)) \/ NewFrame \/ UNCHANGED vars
        PROVE  FALSE
    BY <2>4 DEF HoldUp, NewFrame, vars
  <2> QED BY <2>1, <2>2, <2>3, <2>4 DEF Next
<1>2. PICK p \in Packets : Decode(p)
  BY <1>1
<1>3. packet' = p
  BY <1>2, DecodeType
<1> QED BY <1>2, <1>3, DecodeSplitsExactly

\* SplitIsExact: for every lidar and every parameter, whatever is lost, repeated
\* or overtaken: of three readings in order the last begins a frame exactly if
\* the lidar has passed the frame's azimuth (IsNeedFrameSplit).
THEOREM SplitIsExact == SplitAssumption /\ Spec => SplitExact
<1> SUFFICES ASSUME SplitAssumption PROVE Spec => SplitExact
  OBVIOUS
<1>1. Init => TypeInv
  BY InitType
<1>2. TypeInv /\ [Next]_vars => TypeInv'
  BY StepType
<1>3. TypeInv /\ [Next]_vars =>
        [\A p \in {packet'} :
           packet' # packet /\ InOrder(p) /\ Learnt(rotation_flag')
             => (scan_complete' <=> p.turn # at.turn)]_vars
  BY StepSplitsExactly
<1> QED BY <1>1, <1>2, <1>3, PTL DEF Spec, SplitExact

-----------------------------------------------------------------------------
\* While no packet has been overtaken: the packet decoded last is where the lidar
\* is, the last two azimuths are of places it went through one after the other,
\* and a frame that began in order holds packets of the turn it is in.
TurnOK ==
  /\ held = None /\ faults.lost <= MaxLost
  /\ packet # None \/ scan_complete => seen >= 1
  /\ seen >= 1 => at = Where(packet) /\ at = position
  /\ seen >= 2 => \E k \in 0 .. MaxLost, g \in Gaps :
       k <= faults.lost /\ at = Ahead(before, Reach(k, g))
  /\ begun => seen >= 2 /\ Learnt(rotation_flag) /\ turns \subseteq {at.turn}
TurnInv == TypeInv /\ (faults.overtaken = 0 => TurnOK)

\* A right vote keeps what was learnt.
LEMMA StaysLearnt ==
  ASSUME RotationLimit \in Nat \ {0}, RotationShare \in Nat \ {0}, NEW f \in Int,
         direction \in {1, -1}, Learnt(f)
  PROVE  Learnt(UpdateRotation(f, direction))
BY DEF UpdateRotation, Abs, Learnt

\* The azimuth read last, read again, changes nothing but what the frame holds.
LEMMA DecodedAgain ==
  ASSUME TypeInv, seen >= 1, NEW p, Azimuth(p) = last_azimuth_
  PROVE  /\ ~IsNeedFrameSplit(Azimuth(p))
         /\ NewRotation(Azimuth(p)) = rotation_flag
         /\ Remember(p) => UNCHANGED history
<1>1. Division(last_azimuth_) = 0
  BY DEF Division, Least, Abs, TypeInv, HistoryOK
<1>2. ~Comparable(last_azimuth_)
  BY <1>1 DEF Comparable
<1>3. seen > 0
  BY DEF TypeInv, HistoryOK
<1> QED BY <1>2, <1>3 DEF IsNeedFrameSplit, NewRotation, Remember

\* A reading in order votes for the direction.
LEMMA OrderVotes ==
  ASSUME SplitAssumption, TypeInv, NEW p \in Packets, InOrder(p)
  PROVE  Comparable(Azimuth(p)) /\ Rotation(Azimuth(p)) = direction
<1>1. PICK g \in 1 .. Circle - 1, h \in 1 .. Circle - 1 :
        g + h < Circle /\ at = Ahead(before, g) /\ Where(p) = Ahead(at, h)
  BY DEF InOrder
<1>2. /\ Circle \in Nat \ {0} /\ frame_start_azimuth_uint16_ \in 0 .. Circle - 1
      /\ direction \in {1, -1} /\ before \in Places /\ at \in Places
      /\ last_azimuth_ = Azimuth(at) /\ last_last_azimuth_ = Azimuth(before)
  BY DEF SplitAssumption, TypeInv, HistoryOK, InOrder
<1>3. Where(p) \in Places /\ Azimuth(Where(p)) = Azimuth(p)
  BY PacketPlace
<1>4. Comparable(Azimuth(Where(p))) /\ Rotation(Azimuth(Where(p))) = direction
  BY <1>1, <1>2, <1>3, ThreeReadings
<1> QED BY <1>3, <1>4

\* The next packet of the lidar, after any number of lost ones.
LEMMA ArriveTurn ==
  ASSUME SplitAssumption, TypeInv, TurnOK, NEW g \in Gaps, NEW k \in 0 .. MaxLost,
         Arrive(k, g)
  PROVE  TurnOK'
<1> DEFINE p == Packet(sent', position')
<1>1. /\ position' = Ahead(position, Reach(k, g)) /\ sent' = sent + k + 1
      /\ faults' = [faults EXCEPT !.lost = @ + k] /\ faults.lost + k <= MaxLost
      /\ held' = held /\ Decode(p)
  BY DEF Arrive
<1>2. position' \in Places /\ sent' \in Nat
  BY <1>1, ReachRange, AheadPlace DEF TypeInv, SplitAssumption
<1>3. p \in Packets /\ Where(p) = position'
  BY <1>2, PacketMade
<1>4. Remember(p) /\ packet' = p /\ rotation_flag' = NewRotation(Azimuth(p))
  BY <1>1 DEF Decode, DecodeMore, DecodeTooMany, DecodeSplit
<1>5. held' = None /\ faults'.lost = faults.lost + k /\ faults'.lost <= MaxLost
  BY <1>1 DEF TurnOK, TypeInv
<1>6. seen \in Nat /\ (seen >= 1 => Azimuth(p) # last_azimuth_)
  <2>1. ASSUME seen >= 1
        PROVE  Azimuth(p) # Azimuth(at)
    <3>1. at \in Places /\ at = position /\ Reach(k, g) \in 1 .. Circle - 1
      BY <2>1, ReachRange DEF TurnOK, TypeInv, HistoryOK
    <3>2. Azimuth(position') # Azimuth(at)
      BY <1>1, <3>1, AzimuthMoves DEF SplitAssumption, TypeInv
    <3>3. Azimuth(p) = Azimuth(position')
      BY <1>3, PacketPlace
    <3> QED BY <3>2, <3>3
  <2> QED BY <2>1 DEF TypeInv, HistoryOK
<1>7. seen' = seen + 1 /\ before' = at /\ at' = position'
  BY <1>3, <1>4, <1>6 DEF Remember, history
<1>8. seen' >= 2 => \E l \in 0 .. MaxLost, h \in Gaps :
        l <= faults'.lost /\ at' = Ahead(before', Reach(l, h))
  <2>1. seen' >= 2 => before' = position
    BY <1>6, <1>7 DEF TurnOK
  <2>2. k <= faults'.lost
    BY <1>5 DEF TypeInv
  <2> QED BY <1>1, <1>7, <2>1, <2>2
<1>9. seen >= 2 => InOrder(p)
  <2> SUFFICES ASSUME seen >= 2 PROVE InOrder(p)
    OBVIOUS
  <2>1. PICK l \in 0 .. MaxLost, h \in Gaps :
          l <= faults.lost /\ at = Ahead(before, Reach(l, h))
    BY DEF TurnOK
  <2>2. l + k <= MaxLost
    BY <1>1, <2>1 DEF TypeInv, SplitAssumption
  <2>3. Reach(l, h) + Reach(k, g) < Circle
    BY <2>2 DEF SplitAssumption
  <2>4. Where(p) = Ahead(at, Reach(k, g))
    BY <1>1, <1>3, <1>6 DEF TurnOK
  <2> QED BY <2>1, <2>3, <2>4, ReachRange DEF InOrder
<1>10. begun' => seen' >= 2 /\ Learnt(rotation_flag)' /\ turns' \subseteq {at'.turn}
  <2>1. CASE DecodeTooMany(p)
    BY <2>1 DEF DecodeTooMany
  <2>2. CASE DecodeSplit(p)
    <3>1. turns' = {} /\ begun' = (InOrder(p) /\ Learnt(rotation_flag')) /\ UNCHANGED lidar
      BY <2>2 DEF DecodeSplit
    <3>2. Learnt(rotation_flag') => Learnt(rotation_flag)'
      BY <3>1 DEF Learnt, lidar
    <3>3. InOrder(p) => seen >= 2
      BY DEF InOrder
    <3>4. begun' => InOrder(p) /\ Learnt(rotation_flag')
      BY <3>1
    <3> QED BY <1>6, <1>7, <3>1, <3>2, <3>3, <3>4
  <2>3. CASE DecodeMore(p)
    <3> SUFFICES ASSUME begun'
                 PROVE  seen' >= 2 /\ Learnt(rotation_flag)' /\ turns' \subseteq {at'.turn}
      OBVIOUS
    <3>1. /\ begun /\ turns' = turns \cup {p.turn} /\ ~scan_complete'
          /\ UNCHANGED lidar
      BY <2>3 DEF DecodeMore, Accept
    <3>2. seen >= 2 /\ Learnt(rotation_flag) /\ turns \subseteq {at.turn} /\ InOrder(p)
      BY <1>9, <3>1 DEF TurnOK
    <3>3. Rotation(Azimuth(p)) = direction
      BY <1>3, <3>2, OrderVotes
    <3>4. Learnt(rotation_flag')
      BY <1>4, <3>2, <3>3, StaysLearnt DEF NewRotation, SplitAssumption, TypeInv
    <3>5. p.turn = at.turn
      BY <1>1, <1>3, <3>1, <3>2, <3>4, DecodeSplitsExactly
    <3>6. at'.turn = p.turn
      BY <1>7, <1>2, PacketMade
    <3> QED BY <1>6, <1>7, <3>1, <3>2, <3>4, <3>5, <3>6 DEF Learnt, lidar
  <2> QED BY <1>1, <2>1, <2>2, <2>3 DEF Decode
<1> QED BY <1>3, <1>4, <1>5, <1>6, <1>7, <1>8, <1>10 DEF TurnOK

\* A packet delivered again.
LEMMA RepeatTurn ==
  ASSUME SplitAssumption, TypeInv, TurnOK, Repeat
  PROVE  TurnOK'
<1>1. packet # None /\ Decode(packet) /\ UNCHANGED <<sent, position, held>>
      /\ faults' = [faults EXCEPT !.repeated = @ + 1]
  BY DEF Repeat
<1>2. /\ seen >= 1 /\ at = Where(packet) /\ at = position
      /\ Azimuth(packet) = last_azimuth_
  BY <1>1, PacketPlace DEF TurnOK, TypeInv, HistoryOK
<1>3. /\ ~IsNeedFrameSplit(Azimuth(packet)) /\ NewRotation(Azimuth(packet)) = rotation_flag
      /\ Remember(packet) => UNCHANGED history
  BY <1>2, DecodedAgain
<1>4. /\ Remember(packet) /\ rotation_flag' = NewRotation(Azimuth(packet))
      /\ packet' = packet /\ UNCHANGED <<lidar, scan_complete>>
      /\ begun' => begun
      /\ begun' => turns' \subseteq turns \cup {packet.turn}
  BY <1>1, <1>3 DEF Decode, DecodeMore, DecodeTooMany, DecodeSplit, Accept
<1>5. UNCHANGED <<seen, at, before, held, position, packet, scan_complete, direction,
                  rotation_flag>>
  BY <1>1, <1>3, <1>4 DEF history, lidar
<1>6. faults'.lost = faults.lost
  BY <1>1 DEF TypeInv
<1>7. at.turn = packet.turn
  BY <1>2 DEF Where
<1> QED BY <1>4, <1>5, <1>6, <1>7 DEF TurnOK, Learnt

\* The packet that completed a frame, decoded as the first of the next.
LEMMA NewFrameTurn ==
  ASSUME SplitAssumption, TypeInv, TurnOK, NewFrame
  PROVE  TurnOK'
<1>1. /\ scan_complete /\ Remember(packet) /\ ~scan_complete'
      /\ rotation_flag' = NewRotation(Azimuth(packet))
      /\ UNCHANGED <<lidar, sent, position, held, packet, begun, faults>>
      /\ turns' \subseteq turns \cup {packet.turn}
  BY DEF NewFrame, Accept
<1>2. /\ seen >= 1 /\ at = Where(packet) /\ at = position
      /\ Azimuth(packet) = last_azimuth_
  BY <1>1, PacketPlace DEF TurnOK, TypeInv, HistoryOK
<1>3. NewRotation(Azimuth(packet)) = rotation_flag /\ UNCHANGED history
  BY <1>1, <1>2, DecodedAgain
<1>4. UNCHANGED <<seen, at, before, rotation_flag, direction>>
  BY <1>1, <1>3 DEF history, lidar
<1>5. at.turn = packet.turn
  BY <1>2 DEF Where
<1> QED BY <1>1, <1>2, <1>4, <1>5 DEF TurnOK, Learnt

\* One step.
LEMMA StepTurn ==
  ASSUME SplitAssumption, TurnInv, [Next]_vars
  PROVE  TurnInv'
<1>1. TypeInv'
  BY StepType DEF TurnInv
<1>2. ASSUME faults.overtaken' = 0
      PROVE  TurnOK'
  <2>1. CASE UNCHANGED vars
    BY <1>2, <2>1 DEF TurnInv, TurnOK, vars, lidar, history, frame, count, Learnt
  <2>2. ASSUME NEW g \in Gaps, HoldUp(g)
        PROVE  FALSE
    <3>1. faults.overtaken' = faults.overtaken + 1
      BY <2>2 DEF HoldUp, TurnInv, TypeInv
    <3> QED BY <1>2, <3>1 DEF TurnInv, TypeInv
  <2>3. ASSUME NEW g \in Gaps, NEW k \in 0 .. MaxLost, Arrive(k, g)
        PROVE  TurnOK'
    <3>1. faults.overtaken = 0
      BY <1>2, <2>3 DEF Arrive, TurnInv, TypeInv
    <3> QED BY <2>3, <3>1, ArriveTurn DEF TurnInv
  <2>4. CASE Repeat
    <3>1. faults.overtaken = 0
      BY <1>2, <2>4 DEF Repeat, TurnInv, TypeInv
    <3> QED BY <2>4, <3>1, RepeatTurn DEF TurnInv
  <2>5. CASE ArriveLate
    <3>1. faults.overtaken = 0
      BY <1>2, <2>5 DEF ArriveLate
    <3> QED BY <2>5, <3>1 DEF ArriveLate, TurnInv, TurnOK
  <2>6. CASE NewFrame
    <3>1. faults.overtaken = 0
      BY <1>2, <2>6 DEF NewFrame
    <3> QED BY <2>6, <3>1, NewFrameTurn DEF TurnInv
  <2> QED BY <2>1, <2>2, <2>3, <2>4, <2>5, <2>6 DEF Next
<1> QED BY <1>1, <1>2 DEF TurnInv

\* At first there is no turn.
LEMMA TurnStarts == SplitAssumption /\ Init => TurnInv
<1> SUFFICES ASSUME SplitAssumption, Init PROVE TurnInv
  OBVIOUS
<1>1. TypeInv
  BY InitType
<1> QED BY <1>1 DEF Init, TurnInv, TurnOK, SplitAssumption

\* The packets of a frame that began in order are of the turn the lidar is in.
LEMMA TurnFollows == TurnInv => OneTurn
<1> SUFFICES ASSUME TurnInv, begun, faults.overtaken = 0 PROVE \A t, u \in turns : t = u
  BY DEF OneTurn
<1>1. turns \subseteq {at.turn}
  BY DEF TurnInv, TurnOK
<1> QED BY <1>1

\* FrameHasOneTurn: for every lidar and every parameter: a frame that began in
\* order has packets of one turn, whatever is lost or repeated.
THEOREM FrameHasOneTurn == SplitAssumption /\ Spec => []OneTurn
<1> SUFFICES ASSUME SplitAssumption PROVE Spec => []OneTurn
  OBVIOUS
<1>1. Init => TurnInv
  BY TurnStarts
<1>2. TurnInv /\ [Next]_vars => TurnInv'
  BY StepTurn
<1>3. TurnInv => OneTurn
  BY TurnFollows
<1> QED BY <1>1, <1>2, <1>3, PTL DEF Spec

-----------------------------------------------------------------------------
\* Arithmetic of numbers that wrap.
LEMMA Quotient ==
  ASSUME NEW N \in Nat \ {0}, NEW x \in Int
  PROVE  \E q \in Int, r \in 0 .. N - 1 :
           x = N * q + r /\ q = x \div N /\ r = x % N
<1>1. x % N \in 0 .. N - 1 /\ x \div N \in Int
  OBVIOUS
<1>2. PICK q \in Int, r \in 0 .. N - 1 : q = x \div N /\ r = x % N
  BY <1>1
<1>3. N \in Nat /\ N > 0
  OBVIOUS
<1>4. x = N * q + r
  BY <1>2, <1>3, Z3
<1> QED BY <1>2, <1>4

\* What is less than N is the remainder.
LEMMA Remainder ==
  ASSUME NEW N \in Nat \ {0}, NEW q \in Int, NEW r \in 0 .. N - 1
  PROVE  (N * q + r) % N = r
OBVIOUS

\* Adding to a number that has wrapped.
LEMMA WrapSum ==
  ASSUME NEW N \in Nat \ {0}, NEW x \in Int, NEW y \in Int
  PROVE  ((x % N) + y) % N = (x + y) % N
<1>1. PICK q \in Int, r \in 0 .. N - 1 : x = N * q + r /\ r = x % N
  BY Quotient
<1>2. r + y \in Int
  BY <1>1
<1>3. PICK p \in Int, s \in 0 .. N - 1 : r + y = N * p + s /\ s = (r + y) % N
  BY <1>2, Quotient
<1>4. x + y = N * (q + p) + s /\ q + p \in Int
  <2>1. N * (q + p) = N * q + N * p /\ N * q \in Int /\ N * p \in Int
    OBVIOUS
  <2> QED BY <1>1, <1>3, <2>1
<1>5. (N * (q + p) + s) % N = s
  BY <1>4, Remainder
<1> QED BY <1>1, <1>3, <1>4, <1>5

\* A whole round changes nothing.
LEMMA WrapRound ==
  ASSUME NEW N \in Nat \ {0}, NEW x \in Int
  PROVE  (x + N) % N = x % N
<1>1. PICK q \in Int, r \in 0 .. N - 1 : x = N * q + r /\ r = x % N
  BY Quotient
<1>2. x + N = N * (q + 1) + r /\ q + 1 \in Int
  BY <1>1
<1>3. (N * (q + 1) + r) % N = r
  BY <1>2, Remainder
<1> QED BY <1>1, <1>2, <1>3

\* A number less than a round away wraps once.
LEMMA WrapNear ==
  ASSUME NEW N \in Nat \ {0}, NEW x \in Int, x > -N, x < 2 * N
  PROVE  x % N = IF x < 0 THEN x + N ELSE IF x < N THEN x ELSE x - N
<1>1. CASE x < 0
  <2>1. x + N \in 0 .. N - 1 /\ x = N * (-1) + (x + N)
    BY <1>1
  <2> QED BY <1>1, <2>1, Remainder
<1>2. CASE x >= 0 /\ x < N
  <2>1. x \in 0 .. N - 1 /\ x = N * 0 + x
    BY <1>2
  <2> QED BY <1>2, <2>1, Remainder
<1>3. CASE x >= N
  <2>1. x - N \in 0 .. N - 1 /\ x = N * 1 + (x - N)
    BY <1>3
  <2> QED BY <1>3, <2>1, Remainder
<1> QED BY <1>1, <1>2, <1>3

-----------------------------------------------------------------------------
\* The numbers published after packet m, when a have been decoded: they are those
\* of m - 1 steps and m - a losses, as far as numbers that wrap can tell.
Counted(c, m, a) ==
  /\ c \in [is_init : {TRUE}, last_seqnum : Int, total_packet_count : Nat,
            total_loss_count : Int]
  /\ c.last_seqnum = m % SeqRange
  /\ c.total_packet_count % SeqRange = (m - 1) % SeqRange
  /\ c.total_loss_count = (m - a) % SeqRange

\* From packet m to packet p: as many steps as there are, up to a round.
LEMMA StepsBetween ==
  ASSUME SeqRange \in Nat \ {0}, NEW m \in Nat, NEW p \in Nat,
         p - m < SeqRange, m - p < SeqRange, seqnum.last_seqnum = m % SeqRange
  PROVE  Steps(GetSeqNum(p)) = IF p >= m THEN p - m ELSE p - m + SeqRange
<1> DEFINE N == SeqRange
<1>0. N \in Nat \ {0} /\ m \in Int /\ p \in Int
  OBVIOUS
<1>1. PICK r \in 0 .. N - 1 : r = m % N
  BY Quotient
<1>2. PICK d \in Int : d = p - m
  OBVIOUS
<1>3. p % N = (r + d) % N
  <2>1. ((m % N) + d) % N = (m + d) % N
    BY <1>0, <1>2, WrapSum
  <2>2. m + d = p
    BY <1>2
  <2> QED BY <1>1, <2>1, <2>2
<1>4. (r + d) % N = IF r + d < 0 THEN r + d + N ELSE IF r + d < N THEN r + d ELSE r + d - N
  <2>1. PICK x \in Int : x = r + d
    BY <1>2
  <2>2. x > -N /\ x < 2 * N
    BY <1>2, <2>1
  <2>3. x % N = IF x < 0 THEN x + N ELSE IF x < N THEN x ELSE x - N
    BY <1>0, <2>2, WrapNear
  <2> QED BY <2>1, <2>3
<1>5. PICK s \in Int : s = GetSeqNum(p)
  BY <1>3, <1>4 DEF GetSeqNum
<1>6. s = IF r + d < 0 THEN r + d + N ELSE IF r + d < N THEN r + d ELSE r + d - N
  BY <1>3, <1>4, <1>5 DEF GetSeqNum
<1>7. seqnum.last_seqnum = r
  BY <1>1
<1>8. Steps(GetSeqNum(p)) = IF s >= r THEN s - r ELSE (N - 1 - r) + s + 1
  BY <1>5, <1>7 DEF Steps
<1> QED BY <1>1, <1>2, <1>6, <1>8

\* The same packet again counts nothing.
LEMMA CountsAgain ==
  ASSUME SeqRange \in Nat \ {0}, NEW m \in Nat, NEW a \in Int, Counted(seqnum, m, a)
  PROVE  Counted(CalPktLoss(GetSeqNum(m)), m, a)
<1>1. Steps(GetSeqNum(m)) = 0
  BY StepsBetween DEF Counted
<1>2. PICK last \in Int, total \in Nat, loss \in Int :
        seqnum = [is_init |-> TRUE, last_seqnum |-> last, total_packet_count |-> total,
                  total_loss_count |-> loss]
  BY DEF Counted
<1>3. CalPktLoss(GetSeqNum(m)) = [is_init |-> TRUE, last_seqnum |-> GetSeqNum(m),
                                  total_packet_count |-> total, total_loss_count |-> loss]
  <2>1. CalPktLoss(GetSeqNum(m))
          = [seqnum EXCEPT !.last_seqnum = GetSeqNum(m), !.total_packet_count = @ + 0,
                           !.total_loss_count = @]
    BY <1>1, <1>2 DEF CalPktLoss
  <2>2. total + 0 = total
    OBVIOUS
  <2> HIDE DEF GetSeqNum
  <2> QED BY <1>2, <2>1, <2>2
<1>4. GetSeqNum(m) \in Int /\ GetSeqNum(m) = m % SeqRange
  BY DEF GetSeqNum
<1> QED BY <1>2, <1>3, <1>4 DEF Counted

\* Another packet counts itself, and the losses between.
LEMMA CountsOn ==
  ASSUME SeqRange \in Nat \ {0}, NEW m \in Nat, NEW p \in Nat, NEW a \in Int,
         Counted(seqnum, m, a), p # m, p - m < SeqRange, m - p < SeqRange
  PROVE  Counted(CalPktLoss(GetSeqNum(p)), p, a + 1)
<1> DEFINE N == SeqRange
<1>0. /\ N \in Nat \ {0} /\ m \in Int /\ p \in Int
      /\ m - 1 \in Int /\ p - 1 \in Int /\ m - a \in Int /\ p - (a + 1) \in Int
  OBVIOUS
<1>1. PICK d \in 1 .. N - 1 : d = Steps(GetSeqNum(p)) /\ (d = p - m \/ d = p - m + N)
  <2>1. Steps(GetSeqNum(p)) = IF p >= m THEN p - m ELSE p - m + SeqRange
    BY StepsBetween DEF Counted
  <2> QED BY <2>1
<1>2. PICK last \in Int, total \in Nat, loss \in Int :
        seqnum = [is_init |-> TRUE, last_seqnum |-> last, total_packet_count |-> total,
                  total_loss_count |-> loss]
  BY DEF Counted
<1>3. d \in Int /\ d - 1 \in Int /\ total \in Int
  BY <1>0
<1>4. total % N = (m - 1) % N /\ loss = (m - a) % N
  BY <1>2 DEF Counted
<1> DEFINE total2 == total + d
           loss2 == IF d > 1 THEN (loss + d - 1) % N ELSE loss
<1>5. CalPktLoss(GetSeqNum(p)) = [is_init |-> TRUE, last_seqnum |-> GetSeqNum(p),
                                  total_packet_count |-> total2, total_loss_count |-> loss2]
  BY <1>1, <1>2 DEF CalPktLoss
<1>6. total2 % N = (p - 1) % N
  <2>1. ((total % N) + d) % N = (total + d) % N
    BY <1>0, <1>3, WrapSum
  <2>2. (((m - 1) % N) + d) % N = (m - 1 + d) % N
    BY <1>0, <1>3, WrapSum
  <2>3. (p - 1 + N) % N = (p - 1) % N
    BY <1>0, WrapRound
  <2>4. m - 1 + d = p - 1 \/ m - 1 + d = p - 1 + N
    BY <1>1
  <2> QED BY <1>4, <2>1, <2>2, <2>3, <2>4
<1>7. loss2 = (p - (a + 1)) % N
  <2>1. (m - a + (d - 1)) % N = (p - (a + 1)) % N
    <3>1. (p - (a + 1) + N) % N = (p - (a + 1)) % N
      BY <1>0, WrapRound
    <3>2. m - a + (d - 1) = p - (a + 1) \/ m - a + (d - 1) = p - (a + 1) + N
      BY <1>1
    <3> QED BY <3>1, <3>2
  <2>2. CASE d > 1
    <3>1. (((m - a) % N) + (d - 1)) % N = (m - a + (d - 1)) % N
      BY <1>0, <1>3, WrapSum
    <3>2. loss2 = (loss + (d - 1)) % N
      BY <2>2
    <3> QED BY <1>4, <2>1, <3>1, <3>2
  <2>3. CASE d = 1
    BY <1>4, <2>1, <2>3
  <2> QED BY <2>2, <2>3
<1>8. GetSeqNum(p) \in Int /\ GetSeqNum(p) = p % N /\ total2 \in Nat /\ loss2 \in Int
  BY DEF GetSeqNum
<1> HIDE DEF total2, loss2
<1> QED BY <1>5, <1>6, <1>7, <1>8 DEF Counted

-----------------------------------------------------------------------------
\* CountInv: before the first packet nothing is counted; ...
NothingSent ==
  /\ seqnum = [is_init |-> FALSE, last_seqnum |-> 0, total_packet_count |-> 0,
               total_loss_count |-> 0]
  /\ sent = 0 /\ packet = None /\ held = None /\ ~scan_complete
  /\ seen = 0 /\ accepted = 0 /\ newest = 0 /\ faults.lost = 0
  /\ last_azimuth_ = 0 /\ last_last_azimuth_ = 0

\* ... then every packet that was sent is decoded, lost, held up, or the one that
\* has completed a frame and is not counted yet; ...
Newest == IF packet.n > newest THEN packet.n ELSE newest
Account ==
  /\ accepted \in Nat /\ newest \in 0 .. sent /\ packet.n \in 1 .. sent
  /\ sent = accepted + faults.lost + (IF held = None THEN 0 ELSE 1)
              + (IF scan_complete THEN 1 ELSE 0)
  /\ ~scan_complete => packet.n <= newest

\* ... the packet decoded last is not far behind, nor the one held up, ...
Near ==
  /\ faults.lost <= MaxLost
  /\ held = None => Newest = sent /\ sent - packet.n <= faults.lost + 1
  /\ held # None =>
       \/ held.n = sent /\ Newest = sent - 1 /\ sent - packet.n <= faults.lost + 2
       \/ held.n \in 1 .. sent - 1 /\ packet.n = sent /\ sent - held.n <= faults.lost + 1

\* ... and the numbers published are right up to the packet counted last.
Published ==
  \E m \in Nat : /\ Counted(seqnum, m, accepted)
                 /\ IF scan_complete
                      THEN m # packet.n /\ packet.n - m < SeqRange /\ m - packet.n < SeqRange
                      ELSE m = packet.n

SentOn == seen >= 1 /\ last_azimuth_ = Azimuth(packet) /\ Account /\ Near /\ Published
CountInv == NothingSent \/ SentOn

\* The index that Run keeps, and the room there is.
IndexInv ==
  /\ ~scan_complete => packet_index = packet_num
  /\ packet_num \in 0 .. MaxPackets - 1 /\ packet_index \in 0 .. MaxPackets - 1

-----------------------------------------------------------------------------
\* A packet that is decoded leaves its azimuth.
LEMMA LeavesAzimuth ==
  ASSUME TypeInv, NEW p \in Packets, Decode(p) \/ (NewFrame /\ p = packet)
  PROVE  /\ seen' >= 1 /\ packet' = p /\ last_azimuth_' = Azimuth(packet)'
<1>1. Remember(p) /\ packet' = p /\ UNCHANGED lidar
  BY DEF Decode, DecodeMore, DecodeTooMany, DecodeSplit, NewFrame
<1>2. seen' >= 1 /\ last_azimuth_' = Azimuth(p)
  BY <1>1 DEF Remember, history, TypeInv, HistoryOK
<1>3. Azimuth(packet)' = Azimuth(p)
  BY <1>1 DEF Azimuth, Wrapped, lidar
<1> QED BY <1>1, <1>2, <1>3

\* A new packet that is decoded is counted, unless it begins the next frame.
LEMMA DecodesNew ==
  ASSUME SplitAssumption, CountAssumption, TypeInv, Account, Published, ~scan_complete,
         NEW p \in Packets, Decode(p), p.n \in Nat, p.n # packet.n,
         p.n - packet.n < SeqRange, packet.n - p.n < SeqRange
  PROVE  \/ /\ scan_complete' = TRUE /\ UNCHANGED <<newest, accepted>>
            /\ \E m \in Nat : /\ Counted(seqnum', m, accepted') /\ m # p.n
                              /\ p.n - m < SeqRange /\ m - p.n < SeqRange
         \/ /\ ~scan_complete' /\ accepted' = accepted + 1
            /\ newest' = (IF p.n > newest THEN p.n ELSE newest)
            /\ Counted(seqnum', p.n, accepted')
<1>1. Counted(seqnum, packet.n, accepted) /\ packet.n \in Nat /\ accepted \in Nat
  BY DEF Account, Published
<1>2. SeqRange \in Nat \ {0}
  BY DEF CountAssumption, SplitAssumption
<1>3. CASE DecodeSplit(p)
  <2>1. UNCHANGED <<seqnum, newest, accepted>> /\ scan_complete' = TRUE
    BY <1>3 DEF DecodeSplit, count
  <2> QED BY <1>1, <2>1
<1>4. CASE DecodeMore(p) \/ DecodeTooMany(p)
  <2>1. /\ ~scan_complete' /\ seqnum' = CalPktLoss(GetSeqNum(p.n)) /\ accepted' = accepted + 1
        /\ newest' = IF p.n > newest THEN p.n ELSE newest
    BY <1>4 DEF DecodeMore, DecodeTooMany, Accept
  <2>2. Counted(CalPktLoss(GetSeqNum(p.n)), p.n, accepted + 1)
    BY <1>1, <1>2, CountsOn
  <2> QED BY <2>1, <2>2
<1> QED BY <1>3, <1>4 DEF Decode

\* One step: nothing is left out of the account.
LEMMA CountStep ==
  ASSUME SplitAssumption, CountAssumption, TypeInv, TypeInv', CountInv, [Next]_vars
  PROVE  CountInv'
<1>1. /\ sent \in Nat /\ sent' \in Nat /\ MaxLost \in Nat /\ SeqRange \in Nat
      /\ MaxLost + 3 < SeqRange /\ packet.n \in Int /\ held.n \in Int
      /\ faults \in [lost : Nat, repeated : Nat, overtaken : Nat] /\ faults.lost \in Nat
  BY DEF TypeInv, SplitAssumption, CountAssumption, Packets
<1>2. ASSUME NEW g \in Gaps, NEW k \in 0 .. MaxLost, Arrive(k, g)
      PROVE  CountInv'
  <2> DEFINE p == Packet(sent', position')
  <2>1. /\ sent' = sent + k + 1 /\ faults'.lost = faults.lost + k /\ faults'.lost <= MaxLost
        /\ held' = held /\ Decode(p) /\ ~scan_complete
        /\ held = None \/ newest < held.n
    BY <1>1, <1>2 DEF Arrive, Decode, DecodeMore, DecodeTooMany, DecodeSplit
  <2>2. p \in Packets /\ p.n = sent + k + 1
    <3>1. position' \in Places
      BY DEF TypeInv
    <3> QED BY <1>1, <2>1, <3>1, PacketMade
  <2>3. packet' = p /\ seen' >= 1 /\ last_azimuth_' = Azimuth(packet)'
    BY <2>1, <2>2, LeavesAzimuth
  <2> HIDE DEF p
  <2>4. CASE NothingSent
    <3>1. k = 0 /\ p.n = 1
      BY <1>2, <2>2, <2>4 DEF Arrive, NothingSent
    <3>2. ~IsNeedFrameSplit(Azimuth(p))
      <4>1. Azimuth(p) \in Int
        BY <2>2, AzimuthRange DEF TypeInv, SplitAssumption, Packets
      <4> QED BY <2>4, <4>1 DEF NothingSent, IsNeedFrameSplit, Comparable, Division, Least, Abs
    <3>3. /\ ~scan_complete' /\ seqnum' = CalPktLoss(GetSeqNum(1)) /\ accepted' = 1
          /\ newest' = 1
      <4>1. p # packet
        BY <2>4, <3>1 DEF NothingSent, None
      <4> QED BY <2>1, <2>4, <3>1, <3>2, <4>1
        DEF Decode, DecodeMore, DecodeTooMany, DecodeSplit, Accept, NothingSent
    <3>4. Counted(seqnum', 1, 1)
      <4>1. seqnum' = [is_init |-> TRUE, last_seqnum |-> GetSeqNum(1), total_packet_count |-> 0,
                       total_loss_count |-> 0]
        BY <2>4, <3>3 DEF NothingSent, CalPktLoss
      <4>2. GetSeqNum(1) = 1 % SeqRange /\ 1 % SeqRange \in Int
        BY <1>1 DEF GetSeqNum
      <4>3. 0 % SeqRange = (1 - 1) % SeqRange /\ 0 = (1 - 1) % SeqRange
        BY <1>1
      <4> HIDE DEF GetSeqNum
      <4> QED BY <4>1, <4>2, <4>3 DEF Counted
    <3>5. Account' /\ Near'
      BY <1>1, <2>1, <2>2, <2>3, <2>4, <3>1, <3>3 DEF Account, Near, Newest, NothingSent
    <3>6. Published'
      BY <2>3, <3>1, <3>3, <3>4 DEF Published
    <3> QED BY <2>3, <3>5, <3>6 DEF CountInv, SentOn
  <2>5. CASE SentOn
    <3>1. Account /\ Near /\ Published
      BY <2>5 DEF SentOn
    <3>2. /\ p.n \in Nat /\ p.n # packet.n /\ p.n - packet.n < SeqRange /\ packet.n - p.n < SeqRange
      BY <1>1, <2>1, <2>2, <3>1 DEF Account, Near, Newest
    <3>3. \/ /\ scan_complete' = TRUE /\ UNCHANGED <<newest, accepted>>
             /\ \E m \in Nat : /\ Counted(seqnum', m, accepted') /\ m # p.n
                               /\ p.n - m < SeqRange /\ m - p.n < SeqRange
          \/ /\ ~scan_complete' /\ accepted' = accepted + 1
             /\ newest' = (IF p.n > newest THEN p.n ELSE newest)
             /\ Counted(seqnum', p.n, accepted')
      BY <2>1, <2>2, <3>1, <3>2, DecodesNew
    <3>4. Account' /\ Near'
      <4>1. packet'.n = sent + k + 1
        BY <2>2, <2>3
      <4>2. PICK acc \in Nat : accepted' = acc /\ acc = accepted + (IF scan_complete' THEN 0 ELSE 1)
        BY <3>1, <3>3 DEF Account
      <4>3. PICK lost \in Nat : faults'.lost = lost /\ lost = faults.lost + k
        BY <1>1, <2>1
      <4>4. sent' = acc + lost + (IF held' = None THEN 0 ELSE 1) + (IF scan_complete' THEN 1 ELSE 0)
        BY <1>1, <2>1, <3>1, <4>2, <4>3 DEF Account
      <4>5. newest' \in 0 .. sent' /\ (~scan_complete' => packet'.n <= newest')
        BY <1>1, <2>1, <2>2, <3>1, <3>3, <4>1 DEF Account
      <4>6. Account'
        BY <1>1, <2>1, <4>1, <4>2, <4>3, <4>4, <4>5 DEF Account
      <4>7. newest' <= sent + k + 1 /\ held' = held
        BY <1>1, <2>1, <2>2, <3>1, <3>3 DEF Account
      <4>8. Newest' = sent + k + 1
        BY <1>1, <2>2, <3>1, <3>3, <4>1 DEF Newest, Account
      <4>9. Near'
        BY <1>1, <2>1, <3>1, <4>1, <4>7, <4>8, <4>3 DEF Near, Newest, Account
      <4> QED BY <4>6, <4>9
    <3>5. Published'
      BY <2>3, <3>2, <3>3 DEF Published
    <3> QED BY <2>3, <3>4, <3>5 DEF CountInv, SentOn
  <2> QED BY <2>4, <2>5 DEF CountInv
<1>3. ASSUME NEW g \in Gaps, HoldUp(g)
      PROVE  CountInv'
  <2>1. /\ sent' = sent + 1 /\ held = None /\ seqnum.is_init /\ faults'.lost = faults.lost
        /\ UNCHANGED <<packet, scan_complete, newest, accepted, seqnum>>
        /\ UNCHANGED <<lidar, seen, last_azimuth_>>
    BY <1>1, <1>3 DEF HoldUp, count, history
  <2>2. held'.n = sent + 1 /\ held' # None
    <3>1. held' = Packet(sent', position') /\ position' \in Places
      BY <1>3 DEF HoldUp, TypeInv
    <3> QED BY <1>1, <2>1, <3>1, PacketMade DEF None
  <2>3. SentOn
    BY <2>1 DEF CountInv, NothingSent
  <2>4. Account' /\ Near'
    BY <1>1, <2>1, <2>2, <2>3 DEF SentOn, Account, Near, Newest
  <2>5. Published'
    BY <2>1, <2>3 DEF SentOn, Published
  <2>6. seen' >= 1 /\ last_azimuth_' = Azimuth(packet)'
    BY <2>1, <2>3 DEF SentOn, Azimuth, Wrapped, lidar
  <2> QED BY <2>4, <2>5, <2>6 DEF CountInv, SentOn
<1>4. CASE Repeat
  <2>1. /\ packet # None /\ Decode(packet) /\ UNCHANGED <<sent, held>> /\ ~scan_complete
        /\ faults'.lost = faults.lost
    BY <1>1, <1>4 DEF Repeat, Decode, DecodeMore, DecodeTooMany, DecodeSplit
  <2>2. SentOn
    BY <2>1 DEF CountInv, NothingSent
  <2>3. packet \in Packets
    BY DEF TypeInv
  <2>4. packet' = packet /\ seen' >= 1 /\ last_azimuth_' = Azimuth(packet)'
    BY <2>1, <2>3, LeavesAzimuth
  <2>5. ~IsNeedFrameSplit(Azimuth(packet))
    BY <2>2, DecodedAgain DEF SentOn
  <2>6. /\ ~scan_complete' /\ seqnum' = CalPktLoss(GetSeqNum(packet.n))
        /\ accepted' = accepted /\ newest' = newest
    BY <1>1, <2>1, <2>2, <2>5
    DEF Decode, DecodeMore, DecodeTooMany, DecodeSplit, Accept, SentOn, Account
  <2>7. Published'
    <3>1. packet.n \in Nat /\ accepted \in Int /\ Counted(seqnum, packet.n, accepted)
      BY <2>1, <2>2 DEF SentOn, Account, Published
    <3>2. Counted(seqnum', packet.n, accepted)
      BY <1>1, <2>6, <3>1, CountsAgain
    <3> QED BY <2>4, <2>6, <3>1, <3>2 DEF Published
  <2>8. Account' /\ Near'
    BY <1>1, <2>1, <2>2, <2>4, <2>6 DEF SentOn, Account, Near, Newest
  <2> QED BY <2>4, <2>7, <2>8 DEF CountInv, SentOn
<1>5. CASE ArriveLate
  <2>1. /\ held # None /\ newest > held.n /\ held' = None /\ Decode(held) /\ ~scan_complete
        /\ UNCHANGED <<sent, faults>>
    BY <1>5 DEF ArriveLate, Decode, DecodeMore, DecodeTooMany, DecodeSplit
  <2>2. SentOn
    BY <2>1 DEF CountInv, NothingSent
  <2>3. Account /\ Near /\ Published /\ held \in Packets
    BY <2>2 DEF SentOn, TypeInv
  <2>4. packet' = held /\ seen' >= 1 /\ last_azimuth_' = Azimuth(packet)'
    BY <2>1, <2>3, LeavesAzimuth
  <2>5. /\ held.n \in Nat /\ held.n # packet.n
        /\ held.n - packet.n < SeqRange /\ packet.n - held.n < SeqRange
    BY <1>1, <2>1, <2>3 DEF Account, Near, Newest
  <2>6. \/ /\ scan_complete' = TRUE /\ UNCHANGED <<newest, accepted>>
           /\ \E m \in Nat : /\ Counted(seqnum', m, accepted') /\ m # held.n
                             /\ held.n - m < SeqRange /\ m - held.n < SeqRange
        \/ /\ ~scan_complete' /\ accepted' = accepted + 1
           /\ newest' = (IF held.n > newest THEN held.n ELSE newest)
           /\ Counted(seqnum', held.n, accepted')
    BY <2>1, <2>3, <2>5, DecodesNew
  <2>7. Account' /\ Near'
    BY <1>1, <2>1, <2>3, <2>4, <2>6 DEF Account, Near, Newest
  <2>8. Published'
    BY <2>4, <2>5, <2>6 DEF Published
  <2> QED BY <2>4, <2>7, <2>8 DEF CountInv, SentOn
<1>6. CASE NewFrame
  <2>1. /\ scan_complete /\ ~scan_complete' /\ UNCHANGED <<lidar, sent, held, packet, faults>>
    BY <1>6 DEF NewFrame
  <2>2. SentOn
    BY <2>1 DEF CountInv, NothingSent
  <2>3. Account /\ Near /\ Published /\ packet \in Packets
    BY <2>2 DEF SentOn, TypeInv
  <2>4. packet' = packet /\ seen' >= 1 /\ last_azimuth_' = Azimuth(packet)'
    BY <1>6, <2>3, LeavesAzimuth
  <2>5. ~IsNeedFrameSplit(Azimuth(packet))
    BY <2>2, DecodedAgain DEF SentOn
  <2>6. /\ seqnum' = CalPktLoss(GetSeqNum(packet.n)) /\ accepted' = accepted + 1
        /\ newest' = IF packet.n > newest THEN packet.n ELSE newest
    BY <1>6, <2>1, <2>5 DEF NewFrame, Accept
  <2>7. Published'
    <3>1. PICK m \in Nat : /\ Counted(seqnum, m, accepted) /\ m # packet.n
                           /\ packet.n - m < SeqRange /\ m - packet.n < SeqRange
      BY <2>1, <2>3 DEF Published
    <3>2. packet.n \in Nat /\ accepted \in Int
      BY <2>3 DEF Account
    <3>3. Counted(seqnum', packet.n, accepted + 1)
      BY <1>1, <2>6, <3>1, <3>2, CountsOn
    <3> QED BY <2>1, <2>4, <2>6, <3>2, <3>3 DEF Published
  <2>8. Account' /\ Near'
    BY <1>1, <2>1, <2>3, <2>4, <2>6 DEF Account, Near, Newest
  <2> QED BY <2>4, <2>7, <2>8 DEF CountInv, SentOn
<1>7. CASE UNCHANGED vars
  BY <1>7 DEF vars, lidar, history, count, CountInv, NothingSent, SentOn, Account, Near,
              Published, Newest, Azimuth, Wrapped
<1> QED BY <1>2, <1>3, <1>4, <1>5, <1>6, <1>7 DEF Next

\* The losses published: with nothing wrapped but the numbers.
LEMMA CountIsExact == SplitAssumption /\ CountAssumption /\ TypeInv /\ CountInv => LossExact
<1> SUFFICES ASSUME SplitAssumption, CountAssumption, TypeInv, CountInv,
                    packet.n = newest, seqnum.is_init, ~scan_complete
             PROVE  /\ seqnum.total_loss_count = newest - accepted
                    /\ seqnum.total_packet_count % SeqRange = (newest - 1) % SeqRange
  BY DEF LossExact
<1>1. SentOn
  BY DEF CountInv, NothingSent
<1>2. Counted(seqnum, newest, accepted)
  BY <1>1 DEF SentOn, Published
<1>3. newest - accepted \in 0 .. SeqRange - 1
  BY <1>1 DEF SentOn, Account, Near, Newest, TypeInv, SplitAssumption, CountAssumption
<1>4. SeqRange \in Nat \ {0}
  BY DEF SplitAssumption, CountAssumption
<1>5. (newest - accepted) % SeqRange = newest - accepted
  <2>1. PICK x \in Int : x = newest - accepted
    BY <1>3
  <2>2. x % SeqRange = IF x < 0 THEN x + SeqRange ELSE IF x < SeqRange THEN x ELSE x - SeqRange
    <3>1. x > -SeqRange /\ x < 2 * SeqRange
      BY <1>3, <1>4, <2>1
    <3> QED BY <1>4, <3>1, WrapNear
  <2> QED BY <1>3, <1>4, <2>1, <2>2
<1> QED BY <1>2, <1>5 DEF Counted

\* Every index that Run queues is of a packet that is in the frame.
LEMMA IndexStep ==
  ASSUME SplitAssumption, CountAssumption, TypeInv, CountInv, IndexInv, [Next]_vars
  PROVE  IndexInv'
<1>1. ASSUME NEW p, Decode(p) PROVE IndexInv'
  BY <1>1 DEF Decode, DecodeMore, DecodeTooMany, DecodeSplit, Accept, IndexInv, CountAssumption
<1>2. CASE NewFrame
  <2>1. SentOn
    BY <1>2 DEF NewFrame, CountInv, NothingSent
  <2>2. ~IsNeedFrameSplit(Azimuth(packet))
    BY <2>1, DecodedAgain DEF SentOn
  <2> QED BY <1>2, <2>2 DEF NewFrame, Accept, IndexInv, CountAssumption
<1>3. ASSUME (\E g \in Gaps : HoldUp(g)) \/ UNCHANGED vars PROVE IndexInv'
  BY <1>3 DEF HoldUp, vars, frame, IndexInv
<1> QED BY <1>1, <1>2, <1>3 DEF Next, Arrive, Repeat, ArriveLate

\* At first nothing is counted, and the frame is empty.
LEMMA CountInit == SplitAssumption /\ CountAssumption /\ Init => CountInv /\ IndexInv
<1> SUFFICES ASSUME SplitAssumption, CountAssumption, Init PROVE CountInv /\ IndexInv
  OBVIOUS
<1>1. faults.lost = 0
  BY DEF Init
<1> QED BY <1>1 DEF Init, CountInv, NothingSent, IndexInv, CountAssumption

\* IndexIsMatched: Run has queued the index of every packet that is in the frame,
\* and of no other.
THEOREM IndexIsMatched == SplitAssumption /\ CountAssumption /\ Spec => []IndexMatches
<1> SUFFICES ASSUME SplitAssumption, CountAssumption PROVE Spec => []IndexMatches
  OBVIOUS
<1>1. Init => TypeInv /\ CountInv /\ IndexInv
  BY InitType, CountInit
<1>2. TypeInv /\ CountInv /\ IndexInv /\ [Next]_vars => (TypeInv /\ CountInv /\ IndexInv)'
  BY StepType, CountStep, IndexStep
<1>3. IndexInv => IndexMatches
  BY DEF IndexInv, IndexMatches
<1> QED BY <1>1, <1>2, <1>3, PTL DEF Spec

\* LossIsExact: the losses and packets that CalPktLoss publishes are those that
\* happened, whatever is lost, repeated or overtaken and however often the
\* numbers wrap, as long as no gap is a whole round of them.
THEOREM LossIsExact == SplitAssumption /\ CountAssumption /\ Spec => []LossExact
<1> SUFFICES ASSUME SplitAssumption, CountAssumption PROVE Spec => []LossExact
  OBVIOUS
<1>1. Init => TypeInv /\ CountInv
  BY InitType, CountInit
<1>2. TypeInv /\ CountInv /\ [Next]_vars => (TypeInv /\ CountInv)'
  BY StepType, CountStep
<1>3. TypeInv /\ CountInv => LossExact
  BY CountIsExact
<1> QED BY <1>1, <1>2, <1>3, PTL DEF Spec

-----------------------------------------------------------------------------
\* The sum stays small: what is left of it when it is cut down is no more than the
\* limit.
LEMMA VoteCut ==
  ASSUME RotationLimit \in Nat \ {0}, RotationShare \in Nat \ {0, 1}
  PROVE  (RotationLimit + 1) \div RotationShare \in 0 .. RotationLimit
<1> DEFINE N == RotationShare
           x == RotationLimit + 1
<1>1. PICK q \in Int, r \in 0 .. N - 1 : x = N * q + r /\ q = x \div N
  BY Quotient
<1>2. q >= 0
  <2> SUFFICES ASSUME q <= -1 PROVE FALSE
    OBVIOUS
  <2>1. N * q <= N * (-1)
    OBVIOUS
  <2> QED BY <1>1, <2>1
<1>3. q < x
  <2> SUFFICES ASSUME q >= x PROVE FALSE
    OBVIOUS
  <2>1. N * q >= 2 * q
    BY <1>2
  <2> QED BY <1>1, <2>1
<1> QED BY <1>1, <1>2, <1>3

\* The sum never leaves the limit by more than one.
LEMMA VoteRange ==
  ASSUME RotationLimit \in Nat \ {0}, RotationShare \in Nat \ {0, 1},
         NEW f \in -(RotationLimit + 1) .. RotationLimit + 1, NEW r \in {1, -1}
  PROVE  UpdateRotation(f, r) \in -(RotationLimit + 1) .. RotationLimit + 1
<1>1. CASE Abs(f) > RotationLimit
  <2>1. Abs(f) = RotationLimit + 1
    BY <1>1 DEF Abs
  <2>2. PICK c \in 0 .. RotationLimit : c = Abs(f) \div RotationShare
    BY <2>1, VoteCut
  <2>3. Abs(f) # 10 * RotationLimit \/ RotationLimit + 1 = 10 * RotationLimit
    BY <2>1
  <2>4. UpdateRotation(f, r) = (IF f < 0 THEN -1 ELSE 1) * c + r
    BY <1>1, <2>1, <2>2, <2>3 DEF UpdateRotation
  <2> QED BY <2>2, <2>4
<1>2. CASE ~(Abs(f) > RotationLimit)
  BY <1>2 DEF UpdateRotation, Abs
<1> QED BY <1>1, <1>2

\* The votes for the direction in which the lidar turns.
Votes(f) == IF direction = 1 THEN f ELSE 0 - f
Cut == (RotationLimit + 1) \div RotationShare

\* What a vote, right or wrong, does to the sum for the direction.
LEMMA VoteCounts ==
  ASSUME RotationLimit \in Nat \ {0}, RotationShare \in Nat \ {0, 1}, direction \in {1, -1},
         NEW f \in -(RotationLimit + 1) .. RotationLimit + 1, NEW r \in {1, -1}
  PROVE  LET v == Votes(UpdateRotation(f, r)) IN
         /\ v >= Votes(f) - 1 \/ v >= Cut - 1
         /\ r = direction => v >= Votes(f) + 1 \/ v >= Cut + 1
<1> DEFINE L == RotationLimit
<1>1. CASE Abs(f) > L
  <2>1. Abs(f) = L + 1
    BY <1>1 DEF Abs
  <2>2. PICK c \in 0 .. L : c = Cut /\ c = Abs(f) \div RotationShare
    BY <2>1, VoteCut DEF Cut
  <2>4. UpdateRotation(f, r) = (IF f < 0 THEN -1 ELSE 1) * c + r
    BY <1>1, <2>1, <2>2 DEF UpdateRotation
  <2>5. f = L + 1 \/ f = -(L + 1)
    BY <2>1 DEF Abs
  <2> HIDE DEF Cut
  <2> QED BY <2>2, <2>4, <2>5 DEF Votes
<1>2. CASE ~(Abs(f) > L)
  <2>1. UpdateRotation(f, r) = f + r
    BY <1>2 DEF UpdateRotation, Abs
  <2> QED BY <2>1 DEF Votes
<1> QED BY <1>1, <1>2

-----------------------------------------------------------------------------
\* Where the lidar is after turning on by at most d; what it turns over n gaps.
Within(p, q, d) == \E e \in 1 .. Circle - 1 : e <= d /\ q = Ahead(p, e)
Span(w, n) == (faults.lost + n) * w
Wide(w) == w \in Nat /\ (\A g \in Gaps : g <= w) /\ (MaxLost + 4) * w < Circle

\* Two ways of less than a turn together are one.
LEMMA AheadTwice ==
  ASSUME Circle \in Nat \ {0}, NEW p \in Places, NEW d \in 1 .. Circle - 1,
         NEW e \in 1 .. Circle - 1, d + e < Circle
  PROVE  Ahead(Ahead(p, d), e) = Ahead(p, d + e)
BY DEF Ahead, Places

\* So are two distances.
LEMMA WithinTwice ==
  ASSUME Circle \in Nat \ {0}, NEW p \in Places, NEW q \in Places, NEW r \in Places,
         NEW d \in Int, NEW e \in Int, Within(p, q, d), Within(q, r, e), d + e < Circle
  PROVE  Within(p, r, d + e)
<1>1. PICK x \in 1 .. Circle - 1 : x <= d /\ q = Ahead(p, x)
  BY DEF Within
<1>2. PICK y \in 1 .. Circle - 1 : y <= e /\ r = Ahead(q, y)
  BY DEF Within
<1>3. x + y \in 1 .. Circle - 1 /\ x + y <= d + e
  BY <1>1, <1>2
<1>4. r = Ahead(p, x + y)
  BY <1>1, <1>2, <1>3, AheadTwice
<1> QED BY <1>3, <1>4 DEF Within

\* A distance may be given too large.
LEMMA WithinMore ==
  ASSUME NEW p, NEW q, NEW d \in Int, NEW e \in Int, Within(p, q, d), d <= e
  PROVE  Within(p, q, e)
BY DEF Within

\* What is less than a turn away has another azimuth.
LEMMA WithinMoves ==
  ASSUME Circle \in Nat \ {0}, frame_start_azimuth_uint16_ \in 0 .. Circle - 1,
         direction \in {1, -1}, NEW p \in Places, NEW q, NEW d, Within(p, q, d)
  PROVE  Azimuth(p) # Azimuth(q)
<1>1. PICK x \in 1 .. Circle - 1 : q = Ahead(p, x)
  BY DEF Within
<1> QED BY <1>1, AzimuthMoves

\* The gap of a packet that arrives, in spans.
LEMMA ReachWithin ==
  ASSUME SplitAssumption, NEW w, Wide(w), NEW g \in Gaps, NEW k \in 0 .. MaxLost, NEW p
  PROVE  Within(p, Ahead(p, Reach(k, g)), (k + 1) * w)
<1>1. Reach(k, g) \in 1 .. Circle - 1
  BY ReachRange
<1>2. (k + 1) * g <= (k + 1) * w
  BY DEF Wide, SplitAssumption
<1> QED BY <1>1, <1>2 DEF Within, Reach

\* Four gaps and all the losses are less than a turn.
LEMMA SpanLength ==
  ASSUME SplitAssumption, NEW w, Wide(w), NEW l \in 0 .. MaxLost, NEW n \in 0 .. 4
  PROVE  (l + n) * w \in Int /\ (l + n) * w < Circle
<1>1. (l + n) * w <= (MaxLost + 4) * w /\ (l + n) * w \in Int
  BY DEF Wide, SplitAssumption
<1>2. (MaxLost + 4) * w \in Int /\ Circle \in Int
  BY DEF Wide, SplitAssumption
<1> QED BY <1>1, <1>2 DEF Wide

-----------------------------------------------------------------------------
\* What has been learnt: each azimuth but the first three brings a right vote,
\* except for what overtaken packets take away; a packet still held up, or only
\* just decoded, has not taken all of it yet (c votes are left).
Enough(c) ==
  \/ Votes(rotation_flag) >= seen - 3 - 4 * faults.overtaken + 2 * c
  \/ Votes(rotation_flag) >= Cut - 2 * faults.overtaken + c

FlagOK ==
  /\ rotation_flag \in -(RotationLimit + 1) .. RotationLimit + 1
  /\ seen <= 1 => rotation_flag = 0

\* Where the last two azimuths were read: the packets arrive in order, ...
InPlace(w) ==
  /\ held = None /\ at = position
  /\ seen >= 2 => Within(before, at, Span(w, 2))
  /\ Enough(0)

\* ... one is held up, ...
Waits == held # None /\ held.n > Newest
HoldsUp(w) ==
  /\ Waits /\ Where(held) = position /\ Within(at, position, w)
  /\ seen >= 2 => Within(before, at, Span(w, 2))
  /\ faults.overtaken >= 1 /\ Enough(2)

\* ... has been overtaken, ...
Overtaken(w) ==
  /\ held # None /\ ~Waits /\ at = position /\ seen >= 2
  /\ Within(Where(held), at, Span(w, 1))
  /\ faults.overtaken >= 1 /\ Enough(2)

\* ... has been decoded after the one that overtook it, ...
CameLate(w) ==
  /\ held = None /\ before = position /\ seen >= 3 /\ Within(at, position, Span(w, 1))
  /\ faults.overtaken >= 1 /\ Enough(1)

\* ... and the next one is held up at once.
HoldsUpAgain(w) ==
  /\ Waits /\ Where(held) = position /\ seen >= 3
  /\ Within(at, before, Span(w, 1)) /\ Within(before, position, w)
  /\ faults.overtaken >= 2 /\ Enough(3)

LearnInv(w) ==
  /\ FlagOK /\ faults.overtaken \in 0 .. MaxOvertaken
  /\ seen >= 1 => \/ InPlace(w) \/ HoldsUp(w) \/ Overtaken(w)
                  \/ CameLate(w) \/ HoldsUpAgain(w)

\* A packet with another azimuth than the last casts its vote.
LEMMA ReadsOn ==
  ASSUME SplitAssumption, CountAssumption, DirectionAssumption, TypeInv, FlagOK, seen >= 1,
         NEW p \in Packets, Decode(p), Azimuth(p) # Azimuth(at),
         faults.overtaken' = faults.overtaken,
         NEW c \in Nat, Enough(c), c <= 2 * faults.overtaken
  PROVE  /\ seen' = seen + 1 /\ before' = at /\ at' = Where(p) /\ FlagOK'
         /\ c >= 1 => Enough(c - 1)'
         /\ InOrder(p) \/ seen = 1 => Enough(c)'
<1>1. /\ Remember(p) /\ UNCHANGED lidar /\ rotation_flag' = NewRotation(Azimuth(p))
  BY DEF Decode, DecodeMore, DecodeTooMany, DecodeSplit
<1>2. seen' = seen + 1 /\ before' = at /\ at' = Where(p)
  BY <1>1 DEF Remember, history, TypeInv, HistoryOK
<1>3. /\ RotationLimit \in Nat \ {0} /\ RotationShare \in Nat \ {0, 1}
      /\ direction \in {1, -1} /\ direction' = direction
      /\ seen \in Nat /\ faults.overtaken \in Nat
  BY <1>1 DEF SplitAssumption, CountAssumption, TypeInv, HistoryOK, lidar
<1>4. PICK r \in {1, -1} : r = Rotation(Azimuth(p))
  BY DEF Rotation
<1>5. FlagOK'
  BY <1>1, <1>2, <1>3, <1>4, VoteRange DEF FlagOK, NewRotation
<1>6. PICK v \in Int, u \in Int, t \in Int :
        v = Votes(rotation_flag) /\ u = Votes(rotation_flag') /\ t = Cut /\ t >= 1
  <2>1. Cut \in 0 .. RotationLimit /\ Cut >= 1
    BY <1>3, VoteCut DEF Cut, DirectionAssumption
  <2>2. Votes(rotation_flag) \in Int /\ Votes(rotation_flag') \in Int
    BY <1>3, <1>5 DEF Votes, FlagOK
  <2>3. Cut \in Int
    BY <1>3, <2>1
  <2> QED BY <2>1, <2>2, <2>3
<1>7. Votes(rotation_flag)' = u /\ Cut' = t
  BY <1>3, <1>6 DEF Votes, Cut
<1>8. u >= v - 1 \/ u >= t - 1
  <2>1. CASE Comparable(Azimuth(p))
    <3>1. rotation_flag' = UpdateRotation(rotation_flag, r)
      BY <1>1, <1>4, <2>1 DEF NewRotation
    <3> QED BY <1>3, <1>6, <3>1, VoteCounts DEF FlagOK
  <2>2. CASE ~Comparable(Azimuth(p))
    BY <1>1, <1>6, <2>2 DEF NewRotation
  <2> QED BY <2>1, <2>2
<1>9. InOrder(p) => u >= v + 1 \/ u >= t + 1
  <2> SUFFICES ASSUME InOrder(p) PROVE u >= v + 1 \/ u >= t + 1
    OBVIOUS
  <2>1. rotation_flag' = UpdateRotation(rotation_flag, r) /\ r = direction
    BY <1>1, <1>4, OrderVotes DEF NewRotation
  <2> QED BY <1>3, <1>6, <2>1, VoteCounts DEF FlagOK
<1>10. v >= seen - 3 - 4 * faults.overtaken + 2 * c \/ v >= t - 2 * faults.overtaken + c
  BY <1>6 DEF Enough
<1>11. c >= 1 => Enough(c - 1)'
  BY <1>2, <1>3, <1>6, <1>7, <1>8, <1>10 DEF Enough
<1>12. InOrder(p) => Enough(c)'
  BY <1>2, <1>3, <1>6, <1>7, <1>9, <1>10 DEF Enough
<1>13. seen = 1 => Enough(c)'
  <2>1. seen = 1 => v = 0
    <3> SUFFICES ASSUME seen = 1 PROVE v = 0
      OBVIOUS
    <3>1. rotation_flag = 0
      BY DEF FlagOK
    <3>2. Votes(rotation_flag) = 0
      <4>1. Votes(0) = 0
        BY DEF Votes
      <4> QED BY <3>1, <4>1
    <3> QED BY <1>6, <3>2
  <2> QED BY <1>2, <1>3, <1>6, <1>7, <1>8, <2>1 DEF Enough
<1> QED BY <1>2, <1>5, <1>11, <1>12, <1>13

\* Three readings, each less than a turn after the one before.
LEMMA InOrderWithin ==
  ASSUME SplitAssumption, seen >= 2, NEW p, NEW d \in Int, NEW e \in Int,
         Within(before, at, d), Within(at, Where(p), e), d + e < Circle
  PROVE  InOrder(p)
<1>1. PICK x \in 1 .. Circle - 1 : x <= d /\ at = Ahead(before, x)
  BY DEF Within
<1>2. PICK y \in 1 .. Circle - 1 : y <= e /\ Where(p) = Ahead(at, y)
  BY DEF Within
<1>3. x + y < Circle
  BY <1>1, <1>2 DEF SplitAssumption
<1> QED BY <1>1, <1>2, <1>3 DEF InOrder

-----------------------------------------------------------------------------
\* The newest packet, as the last readings were taken.
LEMMA ArriveLearns ==
  ASSUME SplitAssumption, CountAssumption, DirectionAssumption, NEW w, Wide(w),
         TypeInv, TypeInv', CountInv, CountInv', LearnInv(w),
         NEW g \in Gaps, NEW k \in 0 .. MaxLost, Arrive(k, g)
  PROVE  LearnInv(w)'
<1> DEFINE p == Packet(sent', position')
           l == faults.lost
<1>1. /\ position' = Ahead(position, Reach(k, g)) /\ sent' = sent + k + 1 /\ held' = held
      /\ faults'.lost = l + k /\ faults.overtaken' = faults.overtaken
      /\ l + k <= MaxLost /\ Decode(p) /\ ~scan_complete
      /\ held = None \/ newest < held.n
  BY DEF Arrive, TypeInv, Decode, DecodeMore, DecodeTooMany, DecodeSplit
<1>2. /\ position \in Places /\ position' \in Places /\ sent' \in Nat /\ at \in Places
      /\ before \in Places /\ held \in Packets /\ packet \in Packets
      /\ l \in 0 .. MaxLost /\ k \in 0 .. MaxLost /\ l + k \in 0 .. MaxLost /\ l \in Nat
      /\ faults.overtaken \in Nat /\ seen \in Nat
      /\ Circle \in Nat \ {0} /\ MaxLost \in Nat
      /\ frame_start_azimuth_uint16_ \in 0 .. Circle - 1 /\ direction \in {1, -1}
  BY <1>1 DEF TypeInv, HistoryOK, SplitAssumption
<1>3. /\ p \in Packets /\ Where(p) = position' /\ p.n = sent + k + 1
      /\ Azimuth(p) = Azimuth(position')
  BY <1>1, <1>2, PacketMade, PacketPlace
<1>4. packet' = p /\ seen' >= 1
  BY <1>1, <1>3, LeavesAzimuth
<1> HIDE DEF p
<1>5. PICK x \in Nat, y \in Nat : x = l * w /\ y = k * w
  BY <1>2 DEF Wide
<1>6. w \in Nat /\ x + y + 4 * w < Circle
  <2>1. (l + k + 4) * w < Circle /\ (l + k + 4) * w = l * w + k * w + 4 * w
    BY <1>2, SpanLength DEF Wide
  <2> QED BY <1>5, <2>1 DEF Wide
<1>7. /\ Span(w, 1) = x + w /\ Span(w, 2) = x + 2 * w
      /\ Span(w, 1)' = x + y + w /\ Span(w, 2)' = x + y + 2 * w
  <2>1. \A n \in Nat : (l + n) * w = l * w + n * w /\ (l + k + n) * w = l * w + k * w + n * w
    BY <1>2, <1>6
  <2> QED BY <1>1, <1>5, <1>6, <2>1 DEF Span
<1>8. Within(position, position', y + w)
  <2>1. (k + 1) * w = y + w
    BY <1>2, <1>5, <1>6
  <2> QED BY <1>1, <1>2, <2>1, ReachWithin
<1>9. ASSUME NEW c \in Nat, seen >= 1, Enough(c), c <= 2 * faults.overtaken,
              NEW d \in Int, Within(at, position', d), d < Circle
      PROVE  /\ seen' = seen + 1 /\ before' = at /\ at' = position' /\ FlagOK'
             /\ c >= 1 => Enough(c - 1)'
             /\ seen = 1 => Enough(c)'
             /\ \A e \in Int : seen >= 2 /\ Within(before, at, e) /\ e + d < Circle => Enough(c)'
  <2>1. Azimuth(p) # Azimuth(at)
    BY <1>2, <1>3, <1>9, WithinMoves
  <2>2. FlagOK
    BY DEF LearnInv
  <2>3. /\ seen' = seen + 1 /\ before' = at /\ at' = Where(p) /\ FlagOK'
        /\ c >= 1 => Enough(c - 1)'
        /\ InOrder(p) \/ seen = 1 => Enough(c)'
    BY <1>1, <1>3, <1>9, <2>1, <2>2, ReadsOn
  <2>4. \A e \in Int : seen >= 2 /\ Within(before, at, e) /\ e + d < Circle => InOrder(p)
    BY <1>3, <1>9, InOrderWithin
  <2> QED BY <1>3, <2>3, <2>4
<1>10. CASE seen = 0
  <2>1. NothingSent
    BY <1>10 DEF CountInv, SentOn
  <2>2. /\ Remember(p) /\ rotation_flag' = NewRotation(Azimuth(p))
    BY <1>1 DEF Decode, DecodeMore, DecodeTooMany, DecodeSplit
  <2>3. seen' = 1 /\ at' = position'
    BY <1>3, <1>10, <2>2 DEF Remember
  <2>4. ~Comparable(Azimuth(p))
    <3>1. Azimuth(p) \in Int
      BY <1>2, <1>3, AzimuthRange DEF Packets
    <3> QED BY <2>1, <3>1 DEF NothingSent, Comparable, Division, Least, Abs
  <2>5. rotation_flag' = 0
    BY <1>10, <2>2, <2>4 DEF NewRotation, LearnInv, FlagOK
  <2>6. Votes(rotation_flag)' = 0
    BY <2>5 DEF Votes
  <2>7. Enough(0)'
    BY <1>1, <1>2, <2>3, <2>6 DEF Enough
  <2>8. held' = None
    BY <1>1, <2>1 DEF NothingSent
  <2>9. FlagOK'
    BY <2>5 DEF FlagOK, SplitAssumption
  <2> QED BY <1>1, <2>3, <2>7, <2>8, <2>9 DEF LearnInv, InPlace
<1>11. CASE seen >= 1
  <2>1. SentOn /\ SentOn' /\ held.n \in Int
    BY <1>2, <1>4, <1>11 DEF CountInv, NothingSent, Packets
  <2>2. held # None => held.n <= sent /\ ~Waits'
    <3> SUFFICES ASSUME held # None PROVE held.n <= sent /\ ~Waits'
      OBVIOUS
    <3>1. held.n <= sent /\ sent \in Nat
      BY <2>1 DEF SentOn, Near, TypeInv
    <3>2. newest' \in Nat
      BY <1>2, <2>1 DEF SentOn, Account
    <3>3. Newest' >= sent + k + 1
      BY <1>2, <1>3, <1>4, <3>1, <3>2 DEF Newest
    <3>4. Newest' > held.n /\ Newest' \in Int
      BY <1>2, <1>3, <1>4, <2>1, <3>1, <3>2 DEF Newest
    <3> QED BY <1>1, <2>1, <3>1, <3>2, <3>4 DEF Waits
  <2>3. held # None => Waits
    BY <1>1, <1>2, <2>1 DEF SentOn, Account, Waits, Newest
  <2>4. LearnInv(w) /\ faults.overtaken' \in 0 .. MaxOvertaken
    BY <1>1 DEF LearnInv
  <2>5. CASE InPlace(w)
    <3>1. at = position /\ held' = None /\ Enough(0)
      BY <1>1, <2>5 DEF InPlace
    <3>2. seen >= 2 => Within(before, at, x + 2 * w)
      BY <1>7, <2>5 DEF InPlace
    <3>3. /\ seen' = seen + 1 /\ before' = at /\ at' = position' /\ FlagOK' /\ Enough(0)'
      <4>1. 0 \in Nat /\ 0 <= 2 * faults.overtaken
        BY <1>2
      <4>2. y + w \in Int /\ y + w < Circle
        BY <1>2, <1>5, <1>6
      <4>3. x + 2 * w \in Int /\ (x + 2 * w) + (y + w) < Circle
        BY <1>2, <1>5, <1>6
      <4>4. seen = 1 \/ seen >= 2
        BY <1>2, <1>11
      <4> QED BY <1>8, <1>9, <1>11, <3>1, <3>2, <4>1, <4>2, <4>3, <4>4
    <3>4. Within(before, at, Span(w, 2))'
      <4>1. Within(before', at', x + y + 2 * w)
        BY <1>2, <1>5, <1>6, <1>7, <1>8, <3>1, <3>3, WithinMore
      <4> QED BY <1>7, <3>1, <4>1 DEF Within, Where
    <3> QED BY <2>4, <3>1, <3>3, <3>4 DEF LearnInv, InPlace
  <2>6. CASE HoldsUp(w)
    <3>1. /\ held' = held /\ held # None /\ Where(held) = position /\ Enough(2)
          /\ Within(at, position, w) /\ faults.overtaken >= 1
      BY <1>1, <2>6 DEF HoldsUp, Waits
    <3>2. seen >= 2 => Within(before, at, x + 2 * w)
      BY <1>7, <2>6 DEF HoldsUp
    <3>3. Within(at, position', w + (y + w))
      BY <1>2, <1>5, <1>6, <1>8, <3>1, WithinTwice
    <3>4. /\ seen' = seen + 1 /\ before' = at /\ at' = position' /\ FlagOK' /\ Enough(2)'
      <4>1. 2 \in Nat /\ 2 <= 2 * faults.overtaken
        BY <1>2, <3>1
      <4>2. w + (y + w) \in Int /\ w + (y + w) < Circle
        BY <1>2, <1>5, <1>6
      <4>3. x + 2 * w \in Int /\ (x + 2 * w) + (w + (y + w)) < Circle
        BY <1>2, <1>5, <1>6
      <4>4. seen = 1 \/ seen >= 2
        BY <1>2, <1>11
      <4> QED BY <1>9, <1>11, <3>1, <3>2, <3>3, <4>1, <4>2, <4>3, <4>4
    <3>5. Within(Where(held), at, Span(w, 1))'
      <4>1. Within(Where(held), at', x + y + w)
        BY <1>2, <1>5, <1>6, <1>7, <1>8, <3>1, <3>4, WithinMore
      <4> QED BY <1>7, <3>1, <4>1 DEF Within, Where
    <3> QED BY <1>1, <1>11, <1>2, <2>2, <2>4, <3>1, <3>4, <3>5 DEF LearnInv, Overtaken
  <2>7. CASE CameLate(w)
    <3>1. /\ held' = None /\ before = position /\ seen >= 3 /\ Enough(1)
          /\ Within(at, position, x + w) /\ faults.overtaken >= 1
      BY <1>1, <1>7, <2>7 DEF CameLate
    <3>2. Within(at, position', (x + w) + (y + w))
      BY <1>2, <1>5, <1>6, <1>8, <3>1, WithinTwice
    <3>3. /\ seen' = seen + 1 /\ before' = at /\ at' = position' /\ FlagOK' /\ Enough(0)'
      <4>1. 1 \in Nat /\ 1 <= 2 * faults.overtaken /\ 1 >= 1 /\ 1 - 1 = 0
        BY <1>2, <3>1
      <4>2. (x + w) + (y + w) \in Int /\ (x + w) + (y + w) < Circle
        BY <1>2, <1>5, <1>6
      <4>3. /\ seen' = seen + 1 /\ before' = at /\ at' = position' /\ FlagOK'
            /\ Enough(1 - 1)'
        BY <1>9, <1>11, <3>1, <3>2, <4>1, <4>2
      <4> QED BY <4>1, <4>3
    <3>4. Within(before, at, Span(w, 2))'
      <4>1. Within(before', at', x + y + 2 * w)
        BY <1>2, <1>5, <1>6, <1>7, <3>2, <3>3, WithinMore
      <4> QED BY <1>7, <3>1, <4>1 DEF Within, Where
    <3> QED BY <2>4, <3>1, <3>3, <3>4 DEF LearnInv, InPlace
  <2>8. CASE HoldsUpAgain(w)
    <3>1. /\ held' = held /\ held # None /\ Where(held) = position /\ Enough(3) /\ seen >= 3
          /\ Within(at, before, x + w) /\ Within(before, position, w)
          /\ faults.overtaken >= 2
      BY <1>1, <1>7, <2>8 DEF HoldsUpAgain, Waits
    <3>2. Within(at, position, (x + w) + w)
      BY <1>2, <1>5, <1>6, <3>1, WithinTwice
    <3>3. Within(at, position', ((x + w) + w) + (y + w))
      BY <1>2, <1>5, <1>6, <1>8, <3>2, WithinTwice
    <3>4. /\ seen' = seen + 1 /\ before' = at /\ at' = position' /\ FlagOK' /\ Enough(2)'
      <4>1. 3 \in Nat /\ 3 <= 2 * faults.overtaken /\ 3 >= 1 /\ 3 - 1 = 2
        BY <1>2, <3>1
      <4>2. /\ ((x + w) + w) + (y + w) \in Int
            /\ ((x + w) + w) + (y + w) < Circle
        BY <1>2, <1>5, <1>6
      <4>3. /\ seen' = seen + 1 /\ before' = at /\ at' = position' /\ FlagOK'
            /\ Enough(3 - 1)'
        BY <1>9, <1>11, <3>1, <3>3, <4>1, <4>2
      <4> QED BY <4>1, <4>3
    <3>5. Within(Where(held), at, Span(w, 1))'
      <4>1. Within(Where(held), at', x + y + w)
        BY <1>2, <1>5, <1>6, <1>7, <1>8, <3>1, <3>4, WithinMore
      <4> QED BY <1>7, <3>1, <4>1 DEF Within, Where
    <3> QED BY <1>1, <1>11, <1>2, <2>2, <2>4, <3>1, <3>4, <3>5 DEF LearnInv, Overtaken
  <2>9. ~Overtaken(w)
    BY <2>3 DEF Overtaken
  <2> QED BY <1>11, <2>4, <2>5, <2>6, <2>7, <2>8, <2>9 DEF LearnInv
<1> QED BY <1>2, <1>10, <1>11

\* The packet that was overtaken.
LEMMA LateLearns ==
  ASSUME SplitAssumption, CountAssumption, DirectionAssumption, NEW w, Wide(w),
         TypeInv, TypeInv', CountInv, LearnInv(w), ArriveLate
  PROVE  LearnInv(w)'
<1>1. /\ held # None /\ newest > held.n /\ held' = None /\ Decode(held) /\ ~scan_complete
      /\ UNCHANGED <<sent, position, faults>>
  BY DEF ArriveLate, Decode, DecodeMore, DecodeTooMany, DecodeSplit
<1>2. /\ at \in Places /\ held \in Packets /\ held.n \in Int /\ packet.n \in Int
      /\ faults.lost \in 0 .. MaxLost /\ faults.overtaken \in Nat /\ seen \in Nat
      /\ Circle \in Nat \ {0}
      /\ frame_start_azimuth_uint16_ \in 0 .. Circle - 1 /\ direction \in {1, -1}
  <2>1. SentOn
    BY <1>1 DEF CountInv, NothingSent
  <2> QED BY <2>1 DEF SentOn, Near, TypeInv, HistoryOK, SplitAssumption, Packets
<1>3. SentOn /\ seen >= 1
  BY <1>1 DEF CountInv, NothingSent, SentOn
<1>4. ~Waits
  BY <1>1, <1>2, <1>3 DEF Waits, Newest, SentOn, Account
<1>5. /\ at = position /\ seen >= 2 /\ Within(Where(held), at, Span(w, 1))
      /\ faults.overtaken >= 1 /\ Enough(2)
  BY <1>1, <1>3, <1>4 DEF LearnInv, InPlace, HoldsUp, Overtaken, CameLate, HoldsUpAgain
<1>6. Where(held) \in Places /\ Azimuth(Where(held)) = Azimuth(held)
  BY <1>2, PacketPlace
<1>7. Azimuth(held) # Azimuth(at)
  BY <1>2, <1>5, <1>6, WithinMoves
<1>8. FlagOK
  BY DEF LearnInv
<1>9. /\ seen' = seen + 1 /\ before' = at /\ at' = Where(held) /\ FlagOK' /\ Enough(1)'
  <2>1. 2 \in Nat /\ 2 <= 2 * faults.overtaken /\ 2 >= 1 /\ 2 - 1 = 1
    BY <1>2, <1>5
  <2>2. /\ seen' = seen + 1 /\ before' = at /\ at' = Where(held) /\ FlagOK'
        /\ Enough(2 - 1)'
    BY <1>1, <1>2, <1>3, <1>5, <1>7, <1>8, <2>1, ReadsOn
  <2> QED BY <2>1, <2>2
<1>10. Within(at, position, Span(w, 1))'
  BY <1>1, <1>5, <1>9 DEF Within, Span
<1>11. CameLate(w)'
  BY <1>1, <1>2, <1>5, <1>9, <1>10 DEF CameLate
<1> QED BY <1>1, <1>9, <1>11 DEF LearnInv

\* A packet that is held up will take votes away.
LEMMA HoldUpLearns ==
  ASSUME SplitAssumption, CountAssumption, DirectionAssumption, NEW w, Wide(w),
         TypeInv, TypeInv', CountInv, LearnInv(w), NEW g \in Gaps, HoldUp(g)
  PROVE  LearnInv(w)'
<1>1. /\ held = None /\ seqnum.is_init /\ faults.overtaken < MaxOvertaken
      /\ sent' = sent + 1 /\ position' = Ahead(position, g)
      /\ held' = Packet(sent', position') /\ faults'.lost = faults.lost
      /\ faults'.overtaken = faults.overtaken + 1
      /\ UNCHANGED <<lidar, packet, scan_complete, history, rotation_flag, newest>>
  BY DEF HoldUp, TypeInv, count
<1>2. UNCHANGED <<at, before, seen, direction>> /\ Newest' = Newest
  BY <1>1 DEF history, lidar, Newest
<1>3. /\ position \in Places /\ position' \in Places /\ sent \in Nat /\ sent' \in Nat
      /\ faults.overtaken \in Nat /\ seen \in Nat /\ MaxOvertaken \in Nat
      /\ rotation_flag \in Int
  BY DEF TypeInv, HistoryOK, DirectionAssumption
<1>4. Where(held') = position' /\ held'.n = sent + 1
  BY <1>1, <1>3, PacketMade
<1>5. SentOn /\ seen >= 1
  BY <1>1 DEF CountInv, NothingSent, SentOn
<1>6. Waits'
  <2>1. Newest = sent /\ Newest' = sent
    BY <1>1, <1>2, <1>5 DEF SentOn, Near
  <2>2. held' # None
    BY <1>3, <1>4 DEF None
  <2> QED BY <1>3, <1>4, <2>1, <2>2 DEF Waits
<1>7. Within(position, position', w)
  <2>1. Reach(0, g) \in 1 .. Circle - 1 /\ Reach(0, g) = g
    BY ReachRange DEF Reach, SplitAssumption
  <2> QED BY <1>1, <2>1 DEF Within, Wide
<1>8. ASSUME NEW c \in Int, Enough(c)
      PROVE  Enough(c + 2)'
  <2>1. PICK v : v = Votes(rotation_flag) /\ v = Votes(rotation_flag)'
    BY <1>1, <1>2 DEF Votes
  <2>2. v \in Int
    BY <1>3, <2>1 DEF Votes
  <2>3. PICK t \in Int : t = Cut /\ t = Cut'
    <3>1. Cut \in Int
      BY VoteCut DEF Cut, SplitAssumption, CountAssumption
    <3> QED BY <3>1 DEF Cut
  <2> QED BY <1>1, <1>2, <1>3, <1>8, <2>1, <2>2, <2>3 DEF Enough
<1>9. FlagOK' /\ faults'.overtaken \in 0 .. MaxOvertaken
  BY <1>1, <1>2, <1>3 DEF LearnInv, FlagOK
<1>10. InPlace(w) \/ CameLate(w)
  BY <1>1, <1>5 DEF LearnInv, HoldsUp, Overtaken, HoldsUpAgain, Waits
<1>11. CASE InPlace(w)
  <2>1. Enough(2)' /\ at' = position
    <3>1. Enough(0 + 2)'
      BY <1>8, <1>11 DEF InPlace
    <3> QED BY <1>2, <1>11, <3>1 DEF InPlace
  <2>2. Within(at, position, w)'
    BY <1>7, <2>1 DEF Within
  <2>3. (seen >= 2 => Within(before, at, Span(w, 2)))'
    BY <1>1, <1>2, <1>11 DEF InPlace, Within, Span
  <2>4. HoldsUp(w)'
    BY <1>1, <1>3, <1>4, <1>6, <2>1, <2>2, <2>3 DEF HoldsUp, Where
  <2> QED BY <1>9, <2>4 DEF LearnInv
<1>12. CASE CameLate(w)
  <2>1. Enough(3)' /\ before' = position /\ seen' >= 3 /\ faults.overtaken >= 1
    <3>1. Enough(1 + 2)'
      BY <1>8, <1>12 DEF CameLate
    <3> QED BY <1>2, <1>12, <3>1 DEF CameLate
  <2>2. Within(before, position, w)'
    BY <1>7, <2>1 DEF Within
  <2>3. Within(at, before, Span(w, 1))'
    BY <1>1, <1>2, <1>12, <2>1 DEF CameLate, Within, Span
  <2>4. HoldsUpAgain(w)'
    BY <1>1, <1>3, <1>4, <1>6, <2>1, <2>2, <2>3 DEF HoldsUpAgain, Where
  <2> QED BY <1>9, <2>4 DEF LearnInv
<1> QED BY <1>10, <1>11, <1>12

\* A packet that is decoded again casts no vote.
LEMMA AgainLearns ==
  ASSUME SplitAssumption, NEW w, TypeInv, CountInv, LearnInv(w),
         Repeat \/ NewFrame
  PROVE  LearnInv(w)'
<1>1. SentOn
  BY DEF Repeat, NewFrame, CountInv, NothingSent
<1>2. /\ ~IsNeedFrameSplit(Azimuth(packet))
      /\ NewRotation(Azimuth(packet)) = rotation_flag
      /\ Remember(packet) => UNCHANGED history
  BY <1>1, DecodedAgain DEF SentOn
<1>3. /\ UNCHANGED <<lidar, history, rotation_flag, position, held, packet>>
      /\ faults'.lost = faults.lost /\ faults'.overtaken = faults.overtaken
  BY <1>2 DEF Repeat, NewFrame, Decode, DecodeMore, DecodeTooMany, DecodeSplit, TypeInv
<1>4. Newest' = Newest
  <2>1. packet.n \in Int /\ newest \in Nat
    BY <1>1 DEF TypeInv, Packets, SentOn, Account
  <2>2. newest' = newest \/ newest' = (IF packet.n > newest THEN packet.n ELSE newest)
    BY <1>2 DEF Repeat, NewFrame, Decode, DecodeMore, DecodeTooMany, DecodeSplit, Accept, count
  <2> QED BY <1>3, <2>1, <2>2 DEF Newest
<1>5. UNCHANGED <<at, before, seen, direction, position, held, rotation_flag>>
  BY <1>3 DEF history, lidar
<1>6. \A c : Enough(c)' <=> Enough(c)
  BY <1>3, <1>5 DEF Enough, Votes, Cut
<1>7. \A n : Span(w, n)' = Span(w, n)
  BY <1>3 DEF Span
<1>8. Waits' <=> Waits
  BY <1>4, <1>5 DEF Waits
<1> QED BY <1>3, <1>5, <1>6, <1>7, <1>8
        DEF LearnInv, FlagOK, InPlace, HoldsUp, Overtaken, CameLate, HoldsUpAgain, Within, Where

\* One step.
LEMMA LearnStep ==
  ASSUME SplitAssumption, CountAssumption, DirectionAssumption, NEW w, Wide(w),
         TypeInv, TypeInv', CountInv, CountInv', LearnInv(w), [Next]_vars
  PROVE  LearnInv(w)'
<1>1. ASSUME NEW g \in Gaps, NEW k \in 0 .. MaxLost, Arrive(k, g)
      PROVE  LearnInv(w)'
  BY <1>1, ArriveLearns
<1>2. ASSUME NEW g \in Gaps, HoldUp(g)
      PROVE  LearnInv(w)'
  BY <1>2, HoldUpLearns
<1>3. CASE UNCHANGED vars
  BY <1>3 DEF vars, lidar, history, count, LearnInv, FlagOK, InPlace, HoldsUp, Overtaken,
              CameLate, HoldsUpAgain, Waits, Newest, Within, Span, Where, Enough, Votes, Cut
<1> QED BY <1>1, <1>2, <1>3, LateLearns, AgainLearns DEF Next

\* At first nothing is learnt, and nothing read.
LEMMA LearnInit ==
  ASSUME SplitAssumption, DirectionAssumption, NEW w, Init
  PROVE  LearnInv(w)
<1>1. seen = 0 /\ rotation_flag = 0 /\ faults.overtaken = 0
  BY DEF Init
<1> QED BY <1>1 DEF LearnInv, FlagOK, SplitAssumption, DirectionAssumption

\* Enough right votes tell the direction.
LEMMA LearnsEnough ==
  ASSUME SplitAssumption, CountAssumption, DirectionAssumption, NEW w, TypeInv, LearnInv(w)
  PROVE  DirectionLearnt
<1> SUFFICES ASSUME seen >= 4 + 4 * faults.overtaken PROVE Learnt(rotation_flag)
  BY DEF DirectionLearnt
<1>1. /\ seen \in Nat /\ faults.overtaken \in 0 .. MaxOvertaken /\ MaxOvertaken \in Nat
      /\ faults.overtaken \in Nat
      /\ rotation_flag \in Int /\ direction \in {1, -1}
  BY DEF TypeInv, HistoryOK, LearnInv, DirectionAssumption
<1>2. PICK t \in Int : t = Cut /\ t > 2 * MaxOvertaken
  BY VoteCut DEF Cut, SplitAssumption, CountAssumption, DirectionAssumption
<1>3. \E c \in {0, 1, 2, 3} : Enough(c)
  BY <1>1 DEF LearnInv, InPlace, HoldsUp, Overtaken, CameLate, HoldsUpAgain
<1>4. Votes(rotation_flag) >= 1
  BY <1>1, <1>2, <1>3 DEF Enough, Votes
<1> QED BY <1>1, <1>4 DEF Votes, Learnt

\* DirectionIsLearnt: whatever is lost and repeated, the direction is known from
\* the fourth azimuth on, and from four later for each packet that is overtaken,
\* as long as what a cut leaves of the sum outvotes them.
THEOREM DirectionIsLearnt ==
  SplitAssumption /\ CountAssumption /\ DirectionAssumption /\ Spec => []DirectionLearnt
<1> SUFFICES ASSUME SplitAssumption, CountAssumption, DirectionAssumption
             PROVE  Spec => []DirectionLearnt
  OBVIOUS
<1>1. PICK w : Wide(w)
  <2>1. PICK x \in 0 .. Circle : (\A g \in Gaps : g <= x) /\ (MaxLost + 4) * x < Circle
    BY DEF DirectionAssumption
  <2>2. x \in Nat
    BY <2>1 DEF SplitAssumption
  <2> QED BY <2>1, <2>2 DEF Wide
<1>2. Init => TypeInv /\ CountInv /\ LearnInv(w)
  BY InitType, CountInit, LearnInit
<1>3. TypeInv /\ CountInv /\ LearnInv(w) /\ [Next]_vars
        => TypeInv' /\ CountInv' /\ LearnInv(w)'
  BY <1>1, StepType, CountStep, LearnStep
<1>4. TypeInv /\ LearnInv(w) => DirectionLearnt
  BY LearnsEnough
<1> QED BY <1>2, <1>3, <1>4, PTL DEF Spec

-----------------------------------------------------------------------------
\* The flag and the turns.
FlagInv ==
  /\ rotation_flag \in -(RotationLimit + 1) .. RotationLimit + 1 /\ turns \subseteq Nat
  /\ scan_complete \in BOOLEAN /\ begun \in BOOLEAN

\* At first nothing is learnt.
LEMMA FlagStarts == SplitAssumption /\ Init => FlagInv
<1> SUFFICES ASSUME SplitAssumption, Init PROVE FlagInv
  OBVIOUS
<1>1. rotation_flag \in -(RotationLimit + 1) .. RotationLimit + 1
  BY DEF Init, SplitAssumption
<1> QED BY <1>1 DEF Init, FlagInv

\* One step: the flag stays near its limit, the turns are numbers.
LEMMA FlagStep ==
  ASSUME SplitAssumption, CountAssumption, TypeInv, FlagInv, [Next]_vars
  PROVE  FlagInv'
<1>1. \A az : NewRotation(az) \in -(RotationLimit + 1) .. RotationLimit + 1
  <2> SUFFICES ASSUME NEW az
               PROVE  NewRotation(az) \in -(RotationLimit + 1) .. RotationLimit + 1
    OBVIOUS
  <2>1. Rotation(az) \in {1, -1}
    BY DEF Rotation
  <2> QED BY <2>1, VoteRange DEF NewRotation, FlagInv, SplitAssumption, CountAssumption
<1>2. ASSUME NEW p \in Packets, Decode(p) PROVE FlagInv'
  <2>1. rotation_flag' = NewRotation(Azimuth(p))
    BY <1>2 DEF Decode, DecodeMore, DecodeTooMany, DecodeSplit
  <2>2. turns' \subseteq Nat
    BY <1>2 DEF Decode, DecodeMore, DecodeTooMany, DecodeSplit, Accept, FlagInv, Packets
  <2>3. scan_complete' \in BOOLEAN /\ begun' \in BOOLEAN
    <3>1. (InOrder(p) /\ Learnt(rotation_flag')) \in BOOLEAN
      BY DEF InOrder, Learnt
    <3> QED BY <1>2, <3>1 DEF Decode, DecodeMore, DecodeTooMany, DecodeSplit, FlagInv
  <2> QED BY <1>1, <2>1, <2>2, <2>3 DEF FlagInv
<1>3. CASE NewFrame
  <2>1. turns' \subseteq Nat
    BY <1>3 DEF NewFrame, Accept, FlagInv, TypeInv, Packets
  <2> QED BY <1>1, <1>3, <2>1 DEF NewFrame, FlagInv
<1>4. ASSUME (\E g \in Gaps : HoldUp(g)) \/ UNCHANGED vars PROVE FlagInv'
  BY <1>4 DEF HoldUp, vars, frame, FlagInv
<1>5. ASSUME NEW g \in Gaps, NEW k \in 0 .. MaxLost, Arrive(k, g) PROVE FlagInv'
  <2>1. position' \in Places /\ sent' \in Nat
    BY <1>5, StepType DEF Next, TypeInv
  <2>2. Packet(sent', position') \in Packets
    BY <2>1, PacketMade
  <2> QED BY <1>2, <1>5, <2>2 DEF Arrive
<1> QED BY <1>2, <1>3, <1>4, <1>5 DEF Next, Repeat, ArriveLate, TypeInv

\* What the variables hold.
LEMMA TypesFollow ==
  ASSUME SplitAssumption, CountAssumption, TypeInv, CountInv, IndexInv, FlagInv
  PROVE  TypeOK
<1>1. /\ newest \in 0 .. sent /\ accepted \in 0 .. sent
      /\ held.n \in 0 .. sent /\ packet.n \in 0 .. sent
  <2>1. CASE NothingSent
    BY <2>1 DEF NothingSent, None
  <2>2. CASE SentOn
    <3>1. Account /\ Near
      BY <2>2 DEF SentOn
    <3>2. held = None => held.n = 0
      BY DEF None
    <3> QED BY <3>1, <3>2 DEF Account, Near, TypeInv
  <2> QED BY <2>1, <2>2 DEF CountInv
<1>2. {held, packet} \subseteq [n : 0 .. sent, turn : Nat, offset : 0 .. Circle - 1]
  BY <1>1 DEF TypeInv, Packets
<1> QED BY <1>1, <1>2 DEF TypeOK, TypeInv, HistoryOK, IndexInv, FlagInv, Positions, Places

\* TypeCorrect: the variables have their types: the flag stays near the limit at
\* which the sum is cut, and neither index leaves the frame.
THEOREM TypeCorrect == SplitAssumption /\ CountAssumption /\ Spec => []TypeOK
<1> SUFFICES ASSUME SplitAssumption, CountAssumption PROVE Spec => []TypeOK
  OBVIOUS
<1>1. Init => TypeInv /\ CountInv /\ IndexInv /\ FlagInv
  BY InitType, CountInit, FlagStarts
<1>2. TypeInv /\ CountInv /\ IndexInv /\ FlagInv /\ [Next]_vars
        => (TypeInv /\ CountInv /\ IndexInv /\ FlagInv)'
  BY StepType, CountStep, IndexStep, FlagStep
<1>3. TypeInv /\ CountInv /\ IndexInv /\ FlagInv => TypeOK
  BY TypesFollow
<1> QED BY <1>1, <1>2, <1>3, PTL DEF Spec

=============================================================================
