------------------------ MODULE BlockingRing_proofs ------------------------
(***************************************************************************)
(* Proofs about Ring and BlockingRing.  The methods of the ring do to its  *)
(* contents what they do to a sequence; so the blocking ring implements    *)
(* BoundedBuffer.                                                          *)
(***************************************************************************)
EXTENDS MCBlockingRing, SequenceTheorems, TLAPS

\* What a slot may hold.
Values == Item \cup {NoItem}

-----------------------------------------------------------------------------
\* Indices that wrap around.

\* Below twice the capacity, an index wraps around at most once.
LEMMA WrapsOnce ==
  ASSUME NEW x \in Nat, x < N + N
  PROVE  x % N = IF x < N THEN x ELSE x - N
<1> USE RingAssumption
<1>1. \A n \in Nat \ {0} : \A y \in 0 .. n - 1 : y % n = y /\ (y + n) % n = y
  OBVIOUS
<1>2. CASE x < N
  BY <1>1, <1>2
<1>3. CASE ~(x < N)
  <2>1. x - N \in 0 .. N - 1 /\ x = (x - N) + N
    BY <1>3
  <2>2. x % N = x - N
    BY <1>1, <2>1
  <2> QED
    BY <1>3, <2>2
<1> QED
  BY <1>2, <1>3

\* The slot of the k-th item is a slot, and no other item's.
LEMMA SlotIs ==
  ASSUME NEW r \in Rings, NEW k \in 0 .. N
  PROVE  /\ Slot(r, k) = IF r.begin + k < N THEN r.begin + k ELSE r.begin + k - N
         /\ Slot(r, k) \in 0 .. N - 1
<1>1. r.begin \in 0 .. N - 1
  BY DEF Rings
<1>2. r.begin + k \in Nat /\ r.begin + k < N + N
  BY <1>1, RingAssumption
<1>3. (r.begin + k) % N = IF r.begin + k < N THEN r.begin + k ELSE r.begin + k - N
  <2> DEFINE x == r.begin + k
  <2> HIDE DEF x
  <2>1. x % N = IF x < N THEN x ELSE x - N
    BY <1>2, WrapsOnce DEF x
  <2> QED
    BY <1>1, <1>2, <2>1, RingAssumption DEF x
<1> QED
  BY <1>1, <1>2, <1>3, RingAssumption DEF Slot

\* Two items less than a round apart are in different slots.
LEMMA SlotsDiffer ==
  ASSUME NEW r \in Rings, NEW j \in 0 .. N - 1, NEW k \in 0 .. N - 1, j # k
  PROVE  Slot(r, j) # Slot(r, k)
<1>1. r.begin \in 0 .. N - 1
  BY DEF Rings
<1>2. j \in 0 .. N /\ k \in 0 .. N
  BY RingAssumption
<1>3. /\ Slot(r, j) = IF r.begin + j < N THEN r.begin + j ELSE r.begin + j - N
      /\ Slot(r, k) = IF r.begin + k < N THEN r.begin + k ELSE r.begin + k - N
  BY <1>2, SlotIs
<1> QED
  BY <1>1, <1>3, RingAssumption

-----------------------------------------------------------------------------
\* What the methods do to the ring, and to its contents.

\* Contents is the sequence of the items.
LEMMA ContentsIs ==
  ASSUME NEW r \in Rings
  PROVE  /\ Contents(r) \in Seq(Values) /\ Len(Contents(r)) = r.size
         /\ \A k \in 1 .. r.size : Contents(r)[k] = r.slots[Slot(r, k - 1)]
<1>1. r.size \in Nat /\ r.size <= N /\ r.slots \in [0 .. N - 1 -> Values]
  BY RingAssumption DEF Rings, Values
<1>2. \A k \in 1 .. r.size : Slot(r, k - 1) \in 0 .. N - 1
  <2>1. \A k \in 1 .. r.size : k - 1 \in 0 .. N
    BY <1>1, RingAssumption
  <2> QED
    BY <2>1, SlotIs
<1>3. Contents(r) \in [1 .. r.size -> Values]
  BY <1>1, <1>2 DEF Contents
<1>4. Contents(r) \in Seq(Values)
  BY <1>1, <1>3, SeqDef
<1>5. DOMAIN Contents(r) = 1 .. r.size
  BY DEF Contents
<1>6. Len(Contents(r)) = r.size
  BY <1>1, <1>4, <1>5, LenProperties
<1> QED
  BY <1>4, <1>6 DEF Contents

\* emplace_back appends, ...
LEMMA EmplaceBackAppends ==
  ASSUME NEW r \in Rings, NEW item \in Item, ~IsFull(r)
  PROVE  /\ EmplaceBack(r, item) \in Rings
         /\ Contents(EmplaceBack(r, item)) = Append(Contents(r), item)
<1> DEFINE e == EmplaceBack(r, item)
           c == Contents(r)
<1>1. /\ r.slots \in [0 .. N - 1 -> Values] /\ r.begin \in 0 .. N - 1
      /\ r.size \in 0 .. N - 1
  BY RingAssumption DEF Rings, Values, IsFull
<1>2. Slot(r, r.size) \in 0 .. N - 1
  BY <1>1, SlotIs, RingAssumption
<1>3. /\ e.slots = [r.slots EXCEPT ![Slot(r, r.size)] = item]
      /\ e.begin = r.begin /\ e.size = r.size + 1
  BY DEF EmplaceBack, Rings
<1>4. e \in Rings
  <2>1. [r.slots EXCEPT ![Slot(r, r.size)] = item] \in [0 .. N - 1 -> Values] /\ r.size + 1 \in 0 .. N
    BY <1>1, <1>2, RingAssumption DEF Values
  <2> QED
    BY <1>1, <2>1 DEF EmplaceBack, Rings, Values
<1>5. /\ c \in Seq(Values) /\ Len(c) = r.size
      /\ Append(c, item) \in Seq(Values) /\ Len(Append(c, item)) = r.size + 1
      /\ Append(c, item)[r.size + 1] = item
      /\ \A k \in 1 .. r.size : Append(c, item)[k] = c[k]
  BY ContentsIs, AppendProperties DEF Values
<1>6. ASSUME NEW k \in 1 .. r.size + 1
      PROVE  Contents(e)[k] = Append(c, item)[k]
  <2>1. Contents(e)[k] = e.slots[Slot(r, k - 1)]
    BY <1>3, <1>4, ContentsIs DEF Slot
  <2>2. CASE k = r.size + 1
    <3>1. k - 1 = r.size
      BY <1>1, <2>2
    <3>2. e.slots[Slot(r, r.size)] = item
      BY <1>1, <1>2, <1>3
    <3> QED
      BY <1>5, <2>1, <2>2, <3>1, <3>2
  <2>3. CASE k # r.size + 1
    <3>1. k - 1 \in 0 .. N - 1 /\ r.size \in 0 .. N - 1 /\ k - 1 # r.size /\ k \in 1 .. r.size
      BY <1>1, <2>3, RingAssumption
    <3>2. Slot(r, k - 1) # Slot(r, r.size) /\ Slot(r, k - 1) \in 0 .. N - 1
      BY <3>1, SlotsDiffer, SlotIs, RingAssumption
    <3>3. e.slots[Slot(r, k - 1)] = r.slots[Slot(r, k - 1)]
      BY <1>1, <1>3, <3>2
    <3> QED
      BY <1>5, <2>1, <3>1, <3>3, ContentsIs
  <2> QED
    BY <2>2, <2>3
<1>7. Contents(e) \in Seq(Values) /\ Len(Contents(e)) = r.size + 1
  BY <1>3, <1>4, ContentsIs
<1>8. Contents(e) = Append(c, item)
  BY <1>5, <1>6, <1>7, SeqEqual
<1> QED
  BY <1>4, <1>8

\* ... push_front prepends, ...
LEMMA PushFrontPrepends ==
  ASSUME NEW r \in Rings, NEW item \in Item, ~IsFull(r)
  PROVE  /\ PushFront(r, item) \in Rings
         /\ Contents(PushFront(r, item)) = <<item>> \o Contents(r)
<1> DEFINE b == (r.begin + N - 1) % N
           e == PushFront(r, item)
           c == Contents(r)
<1>1. /\ r.slots \in [0 .. N - 1 -> Values] /\ r.begin \in 0 .. N - 1
      /\ r.size \in 0 .. N - 1
  BY RingAssumption DEF Rings, Values, IsFull
<1>2. b = (IF r.begin = 0 THEN N - 1 ELSE r.begin - 1) /\ b \in 0 .. N - 1
  <2> DEFINE x == r.begin + N - 1
  <2>1. x \in Nat /\ x < N + N
    BY <1>1, RingAssumption
  <2> HIDE DEF x
  <2>2. x % N = IF x < N THEN x ELSE x - N
    BY <2>1, WrapsOnce
  <2>3. b = IF x < N THEN x ELSE x - N
    BY <2>2 DEF x
  <2> QED
    BY <1>1, <2>3, RingAssumption DEF x
<1> HIDE DEF b
<1>3. /\ e.slots = [r.slots EXCEPT ![b] = item]
      /\ e.begin = b /\ e.size = r.size + 1
  BY DEF PushFront, Rings, b
<1>4. e \in Rings
  <2>1. /\ [r.slots EXCEPT ![b] = item] \in [0 .. N - 1 -> Values]
        /\ r.size + 1 \in 0 .. N
    BY <1>1, <1>2, RingAssumption DEF Values
  <2> QED
    BY <1>2, <2>1 DEF PushFront, Rings, Values, b
<1> HIDE DEF e
<1>5. /\ c \in Seq(Values) /\ Len(c) = r.size
      /\ <<item>> \in Seq(Values) /\ Len(<<item>>) = 1 /\ <<item>>[1] = item
  BY ContentsIs DEF Values
<1> HIDE DEF c
<1>6. /\ <<item>> \o c \in Seq(Values) /\ Len(<<item>> \o c) = 1 + r.size
      /\ \A k \in 1 .. 1 + r.size : (<<item>> \o c)[k] = IF k = 1 THEN item ELSE c[k - 1]
  <2>1. /\ <<item>> \o c \in Seq(Values)
        /\ Len(<<item>> \o c) = Len(<<item>>) + Len(c)
        /\ \A k \in 1 .. Len(<<item>>) + Len(c) :
             (<<item>> \o c)[k] = IF k <= Len(<<item>>) THEN <<item>>[k] ELSE c[k - Len(<<item>>)]
    BY <1>5, ConcatProperties
  <2> QED
    BY <1>1, <1>5, <2>1
<1>7. ASSUME NEW k \in 1 .. r.size + 1
      PROVE  Contents(e)[k] = (<<item>> \o c)[k]
  <2>1. Contents(e)[k] = e.slots[Slot(e, k - 1)]
    BY <1>3, <1>4, ContentsIs
  <2>2. CASE k = 1
    <3>1. 0 \in 0 .. N /\ k - 1 = 0 /\ e.begin + 0 = b /\ b < N
      BY <1>1, <1>2, <1>3, <2>2, RingAssumption
    <3>2. Slot(e, 0) = b
      BY <1>4, <3>1, SlotIs
    <3>3. e.slots[b] = item
      BY <1>1, <1>2, <1>3
    <3>4. Contents(e)[k] = item
      BY <2>1, <3>1, <3>2, <3>3
    <3> QED
      BY <1>1, <1>6, <2>2, <3>4
  <2>3. CASE k # 1
    <3>1. k - 1 \in 0 .. N - 1 /\ k - 1 # 0 /\ k - 2 \in 0 .. N - 1 /\ k - 1 \in 1 .. r.size
      BY <1>1, <2>3, RingAssumption
    <3>2. Slot(e, k - 1) # Slot(e, 0) /\ Slot(e, 0) = b
      <4>1. 0 \in 0 .. N - 1 /\ 0 \in 0 .. N /\ b + 0 = b /\ b < N
        BY <1>2, RingAssumption
      <4>2. Slot(e, 0) = b
        BY <1>3, <1>4, <4>1, SlotIs
      <4> QED
        BY <1>4, <3>1, <4>1, <4>2, SlotsDiffer
    <3>3. Slot(e, k - 1) = Slot(r, k - 2) /\ Slot(e, k - 1) \in 0 .. N - 1
      <4>1. k - 1 \in 0 .. N /\ k - 2 \in 0 .. N
        BY <3>1, RingAssumption
      <4>2. /\ Slot(e, k - 1) = IF b + (k - 1) < N THEN b + (k - 1) ELSE b + (k - 1) - N
            /\ Slot(e, k - 1) \in 0 .. N - 1
        BY <1>3, <1>4, <4>1, SlotIs
      <4>3. Slot(r, k - 2) = IF r.begin + (k - 2) < N THEN r.begin + (k - 2)
                                                    ELSE r.begin + (k - 2) - N
        BY <4>1, SlotIs
      <4>4. /\ N \in Nat /\ k \in Int /\ b \in Int /\ r.begin \in 0 .. N - 1
            /\ b + (k - 1) = r.begin + (k - 2) \/ (r.begin = 0 /\ b = N - 1)
        BY <1>1, <1>2, <3>1, RingAssumption
      <4>5. CASE r.begin = 0 /\ b = N - 1
        BY <3>1, <4>2, <4>3, <4>4, <4>5
      <4>6. CASE b + (k - 1) = r.begin + (k - 2)
        BY <4>2, <4>3, <4>4, <4>6
      <4> QED
        BY <4>4, <4>5, <4>6
    <3>4. e.slots[Slot(e, k - 1)] = r.slots[Slot(r, k - 2)]
      BY <1>1, <1>3, <3>2, <3>3
    <3>5. c[k - 1] = r.slots[Slot(r, k - 2)]
      <4>1. (k - 1) - 1 = k - 2
        OBVIOUS
      <4> QED
        BY <3>1, <4>1, ContentsIs DEF c
    <3> QED
      BY <1>1, <1>6, <2>1, <2>3, <3>4, <3>5
  <2> QED
    BY <2>2, <2>3
<1>8. Contents(e) \in Seq(Values) /\ Len(Contents(e)) = r.size + 1
  BY <1>3, <1>4, ContentsIs
<1>9. Contents(e) = <<item>> \o c
  <2>1. Len(Contents(e)) = Len(<<item>> \o c)
    BY <1>1, <1>6, <1>8
  <2>2. \A k \in 1 .. Len(Contents(e)) : Contents(e)[k] = (<<item>> \o c)[k]
    BY <1>7, <1>8
  <2> QED
    BY <1>6, <1>8, <2>1, <2>2, SeqEqual
<1> QED
  BY <1>4, <1>9 DEF c, e

\* ... pop_front and eff_pop_front take the first, ...
LEMMA FrontIsHead ==
  ASSUME NEW r \in Rings, ~IsEmpty(r)
  PROVE  /\ Contents(r) # <<>> /\ Head(Contents(r)) = PeekFront(r)
         /\ PeekFront(r) \in Values
<1>1. r.begin \in 0 .. N - 1 /\ r.size \in 1 .. N /\ r.slots \in [0 .. N - 1 -> Values]
  BY RingAssumption DEF Rings, Values, IsEmpty
<1>2. 1 \in 1 .. r.size /\ 1 - 1 = 0 /\ 0 \in 0 .. N /\ r.begin + 0 = r.begin /\ r.begin < N
  BY <1>1, RingAssumption
<1>3. Slot(r, 0) = r.begin
  BY <1>2, SlotIs
<1>4. Contents(r)[1] = r.slots[r.begin]
  BY <1>2, <1>3, ContentsIs
<1>5. Contents(r) \in Seq(Values) /\ Len(Contents(r)) = r.size
  BY ContentsIs
<1>6. Contents(r) # <<>>
  BY <1>1, <1>5
<1>7. Head(Contents(r)) = Contents(r)[1]
  BY <1>5, <1>6
<1> QED
  BY <1>1, <1>4, <1>6, <1>7 DEF PeekFront

\* Whatever is left in the slot, to pop the first leaves the others.
LEMMA PoppedIsTail ==
  ASSUME NEW r \in Rings, ~IsEmpty(r), NEW e \in Rings,
         e.begin = (r.begin + 1) % N, e.size = r.size - 1,
         \A i \in 0 .. N - 1 : i # r.begin => e.slots[i] = r.slots[i]
  PROVE  Contents(e) = Tail(Contents(r))
<1> DEFINE c == Contents(r)
<1>1. r.begin \in 0 .. N - 1 /\ r.size \in 1 .. N
  BY RingAssumption DEF Rings, IsEmpty
<1>2. e.begin = IF r.begin + 1 < N THEN r.begin + 1 ELSE r.begin + 1 - N
  <2> DEFINE x == r.begin + 1
  <2>1. x \in Nat /\ x < N + N
    BY <1>1, RingAssumption
  <2> HIDE DEF x
  <2>2. x % N = IF x < N THEN x ELSE x - N
    BY <2>1, WrapsOnce
  <2> QED
    BY <1>1, <2>1, <2>2, RingAssumption DEF x
<1>3. /\ c \in Seq(Values) /\ Len(c) = r.size /\ c # <<>>
  BY ContentsIs, FrontIsHead
<1>4. /\ Tail(c) \in Seq(Values) /\ Len(Tail(c)) = r.size - 1
      /\ \A k \in 1 .. Len(Tail(c)) : Tail(c)[k] = c[k + 1]
  BY <1>3, HeadTailProperties
<1>5. ASSUME NEW k \in 1 .. r.size - 1
      PROVE  Contents(e)[k] = Tail(c)[k]
  <2>1. /\ k - 1 \in 0 .. N /\ k \in 0 .. N /\ k \in 0 .. N - 1 /\ 0 \in 0 .. N - 1 /\ 0 \in 0 .. N
        /\ k # 0 /\ k + 1 \in 1 .. r.size /\ (k + 1) - 1 = k /\ k \in 1 .. e.size
    BY <1>1, RingAssumption
  <2>2. Slot(e, k - 1) = IF e.begin + (k - 1) < N THEN e.begin + (k - 1) ELSE e.begin + (k - 1) - N
    BY <2>1, SlotIs
  <2>3. /\ Slot(r, k) = IF r.begin + k < N THEN r.begin + k ELSE r.begin + k - N
        /\ Slot(r, k) \in 0 .. N - 1
    BY <2>1, SlotIs
  <2>4. Slot(e, k - 1) = Slot(r, k)
    BY <1>1, <1>2, <2>1, <2>2, <2>3, RingAssumption
  <2>5. Slot(r, k) # r.begin
    BY <1>1, <2>1, <2>3, RingAssumption
  <2>6. Contents(e)[k] = r.slots[Slot(r, k)]
    BY <2>1, <2>3, <2>4, <2>5, ContentsIs
  <2>7. c[k + 1] = r.slots[Slot(r, k)]
    BY <2>1, ContentsIs
  <2> QED
    BY <1>4, <2>6, <2>7
<1>6. Contents(e) \in Seq(Values) /\ Len(Contents(e)) = r.size - 1
  BY ContentsIs
<1> QED
  BY <1>4, <1>5, <1>6, SeqEqual

\* pop_front leaves a T() in that slot, eff_pop_front what was there.
LEMMA PopFrontTakesHead ==
  ASSUME NEW r \in Rings, ~IsEmpty(r)
  PROVE  /\ PopFront(r) \in Rings /\ EffPopFront(r) \in Rings
         /\ Contents(PopFront(r)) = Tail(Contents(r))
         /\ Contents(EffPopFront(r)) = Tail(Contents(r))
<1>1. /\ r.slots \in [0 .. N - 1 -> Values] /\ r.begin \in 0 .. N - 1
      /\ r.size \in 1 .. N /\ r.size - 1 \in 0 .. N
  BY RingAssumption DEF Rings, Values, IsEmpty
<1>2. (r.begin + 1) % N \in 0 .. N - 1
  BY <1>1, RingAssumption
<1>3. /\ [r.slots EXCEPT ![r.begin] = NoItem] \in [0 .. N - 1 -> Values]
      /\ \A i \in 0 .. N - 1 : i # r.begin => [r.slots EXCEPT ![r.begin] = NoItem][i] = r.slots[i]
  BY <1>1 DEF Values
<1>4. /\ PopFront(r).begin = (r.begin + 1) % N /\ PopFront(r).size = r.size - 1
      /\ PopFront(r).slots = [r.slots EXCEPT ![r.begin] = NoItem]
  BY DEF PopFront, Rings
<1>5. /\ EffPopFront(r).begin = (r.begin + 1) % N /\ EffPopFront(r).size = r.size - 1
      /\ EffPopFront(r).slots = r.slots
  BY DEF EffPopFront, Rings
<1>6. PopFront(r) \in Rings
  BY <1>1, <1>2, <1>3 DEF PopFront, Rings, Values
<1>7. EffPopFront(r) \in Rings
  BY <1>1, <1>2 DEF EffPopFront, Rings, Values
<1>8. Contents(PopFront(r)) = Tail(Contents(r))
  BY <1>3, <1>4, <1>6, PoppedIsTail
<1>9. Contents(EffPopFront(r)) = Tail(Contents(r))
  BY <1>5, <1>7, PoppedIsTail
<1> QED
  BY <1>6, <1>7, <1>8, <1>9

\* ... pop_back takes the last, ...
LEMMA PopBackTakesLast ==
  ASSUME NEW r \in Rings, ~IsEmpty(r)
  PROVE  /\ PopBack(r) \in Rings
         /\ PeekBack(r) = Contents(r)[Len(Contents(r))] /\ PeekBack(r) \in Values
         /\ Contents(PopBack(r)) = SubSeq(Contents(r), 1, Len(Contents(r)) - 1)
<1> DEFINE c == Contents(r)
           e == PopBack(r)
           last == Slot(r, r.size - 1)
<1>1. /\ r.slots \in [0 .. N - 1 -> Values] /\ r.begin \in 0 .. N - 1
      /\ r.size \in 1 .. N /\ r.size - 1 \in 0 .. N - 1 /\ r.size - 1 \in 0 .. N
  BY RingAssumption DEF Rings, Values, IsEmpty
<1>2. last \in 0 .. N - 1
  BY <1>1, SlotIs
<1>3. e.begin = r.begin /\ e.size = r.size - 1 /\ e.slots = [r.slots EXCEPT ![last] = NoItem]
  BY DEF PopBack, Rings
<1>4. e \in Rings
  <2>1. [r.slots EXCEPT ![last] = NoItem] \in [0 .. N - 1 -> Values]
    BY <1>1, <1>2 DEF Values
  <2> QED
    BY <1>1, <2>1 DEF PopBack, Rings, Values
<1> HIDE DEF e
<1>5. /\ c \in Seq(Values) /\ Len(c) = r.size
      /\ \A k \in 1 .. r.size : c[k] = r.slots[Slot(r, k - 1)]
  BY ContentsIs
<1>6. /\ SubSeq(c, 1, r.size - 1) \in Seq(Values)
      /\ Len(SubSeq(c, 1, r.size - 1)) = r.size - 1
      /\ \A k \in 1 .. r.size - 1 : SubSeq(c, 1, r.size - 1)[k] = c[k]
  <2>1. \A k \in 1 .. r.size - 1 : c[k] \in Values
    BY <1>1, <1>5, ElementOfSeq
  <2> HIDE DEF c
  <2> DEFINE n == r.size - 1
  <2>2. n \in Int /\ 1 \in Int
    BY <1>1
  <2>3. /\ SubSeq(c, 1, n) \in Seq(Values)
        /\ Len(SubSeq(c, 1, n)) = IF 1 <= n THEN n - 1 + 1 ELSE 0
        /\ \A k \in 1 .. n - 1 + 1 : SubSeq(c, 1, n)[k] = c[1 + k - 1]
    BY <2>1, <2>2, SubSeqProperties
  <2> QED
    BY <1>1, <2>3
<1>7. ASSUME NEW k \in 1 .. r.size - 1
      PROVE  Contents(e)[k] = SubSeq(c, 1, r.size - 1)[k]
  <2>1. k \in 1 .. e.size /\ k \in 1 .. r.size /\ k - 1 \in 0 .. N - 1 /\ k - 1 # r.size - 1
    BY <1>1, <1>3, RingAssumption
  <2>2. Slot(e, k - 1) = Slot(r, k - 1)
    BY <1>3 DEF Slot
  <2>3. Slot(r, k - 1) # last /\ Slot(r, k - 1) \in 0 .. N - 1
    <3>1. k - 1 \in 0 .. N
      BY <2>1, RingAssumption
    <3> QED
      BY <1>1, <2>1, <3>1, SlotsDiffer, SlotIs
  <2>4. e.slots[Slot(r, k - 1)] = r.slots[Slot(r, k - 1)]
    BY <1>1, <1>3, <2>3
  <2>5. Contents(e)[k] = e.slots[Slot(e, k - 1)]
    BY <1>4, <2>1, ContentsIs
  <2> QED
    BY <1>5, <1>6, <2>1, <2>2, <2>4, <2>5
<1>8. Contents(e) \in Seq(Values) /\ Len(Contents(e)) = r.size - 1
  BY <1>3, <1>4, ContentsIs
<1>9. Contents(e) = SubSeq(c, 1, r.size - 1)
  BY <1>6, <1>7, <1>8, SeqEqual
<1>10. PeekBack(r) = c[r.size] /\ PeekBack(r) \in Values
  BY <1>1, <1>2, <1>5 DEF PeekBack
<1> QED
  BY <1>4, <1>5, <1>9, <1>10 DEF e

\* ... and eff_clear all.
LEMMA ClearEmpties ==
  ASSUME NEW r \in Rings
  PROVE  EffClear(r) \in Rings /\ Contents(EffClear(r)) = <<>>
<1>1. EffClear(r) \in Rings /\ EffClear(r).size = 0
  <2>1. 0 \in 0 .. N - 1 /\ 0 \in 0 .. N
    BY RingAssumption
  <2> QED
    BY <2>1 DEF EffClear, Rings
<1> QED
  BY <1>1, ContentsIs, EmptySeq

\* A new ring holds nothing.
LEMMA NewIsEmpty == NewRing \in Rings /\ Contents(NewRing) = <<>>
<1>1. NewRing \in Rings /\ NewRing.size = 0
  BY RingAssumption DEF NewRing, Rings
<1> QED
  BY <1>1, ContentsIs, EmptySeq

-----------------------------------------------------------------------------
\* The blocking ring.

\* RingInv: only who calls try_pop_front stops waiting because time is over.
RingInv ==
  /\ TypeOK
  /\ \A t \in expired : call[t].op = "try_pop_front"

\* A call is of one of five kinds, and no call at all is none of them.
LEMMA CallsAreCalls ==
  ASSUME NEW c \in Calls
  PROVE  /\ c # NoCall
         /\ c.op \in {"push_back", "push_front", "try_pop_front", "pop_front", "pop_back"}
         /\ c.op \in {"push_back", "push_front"} => c.item \in Item
  BY DEF Calls, NoCall

\* What a call does once it may is what the bounded buffer does.
LEMMA PerformIsNext ==
  ASSUME ring \in Rings, returned \in [Threads -> Values],
         NEW t \in Threads, NEW c \in Calls, May(c), Perform(t, c)
  PROVE  /\ ring' \in Rings /\ returned' \in [Threads -> Values]
         /\ Buffer!Next
<1> DEFINE q == Contents(ring)
<1>1. Contents(ring)' = Contents(ring') /\ Len(q) = ring.size
  BY ContentsIs DEF Contents, Slot
<1>2. ASSUME c.op \in {"push_back", "push_front"}
      PROVE  c.item \in Item /\ ~IsFull(ring) /\ Len(q) < N
  <2>1. c.item \in Item /\ ~IsFull(ring)
    BY <1>2, CallsAreCalls DEF May
  <2> QED
    BY <1>1, <2>1, RingAssumption DEF IsFull, Rings
<1>3. ASSUME c.op \in {"try_pop_front", "pop_front", "pop_back"}
      PROVE  ~IsEmpty(ring)
  BY <1>3 DEF May
<1>4. CASE c.op = "push_back"
  <2>1. ring' = EmplaceBack(ring, c.item) /\ returned' = returned
    BY <1>4 DEF Perform
  <2>2. ring' \in Rings /\ Contents(ring') = Append(q, c.item)
    BY <1>2, <1>4, <2>1, EmplaceBackAppends
  <2>3. Buffer!Append1
    BY <1>1, <1>2, <1>4, <2>1, <2>2 DEF Buffer!Append1
  <2> QED
    BY <2>1, <2>2, <2>3 DEF Buffer!Next
<1>5. CASE c.op = "push_front"
  <2>1. ring' = PushFront(ring, c.item) /\ returned' = returned
    BY <1>5 DEF Perform
  <2>2. ring' \in Rings /\ Contents(ring') = <<c.item>> \o q
    BY <1>2, <1>5, <2>1, PushFrontPrepends
  <2>3. Buffer!Prepend
    BY <1>1, <1>2, <1>5, <2>1, <2>2 DEF Buffer!Prepend
  <2> QED
    BY <2>1, <2>2, <2>3 DEF Buffer!Next
<1>6. CASE c.op \in {"try_pop_front", "pop_front"}
  <2>1. /\ ring' = EffPopFront(ring) \/ ring' = PopFront(ring)
        /\ returned' = [returned EXCEPT ![t] = PeekFront(ring)]
    BY <1>6 DEF Perform
  <2>2. /\ ring' \in Rings /\ Contents(ring') = Tail(q)
        /\ q # <<>> /\ Head(q) = PeekFront(ring) /\ PeekFront(ring) \in Values
    BY <1>3, <1>6, <2>1, PopFrontTakesHead, FrontIsHead
  <2>3. Buffer!TakeFront(t)
    BY <1>1, <2>1, <2>2 DEF Buffer!TakeFront
  <2> QED
    BY <2>1, <2>2, <2>3 DEF Buffer!Next
<1>7. CASE c.op = "pop_back"
  <2>1. ring' = PopBack(ring) /\ returned' = [returned EXCEPT ![t] = PeekBack(ring)]
    BY <1>7 DEF Perform
  <2>2. /\ ring' \in Rings /\ Contents(ring') = SubSeq(q, 1, Len(q) - 1)
        /\ q # <<>> /\ PeekBack(ring) = q[Len(q)] /\ PeekBack(ring) \in Values
    BY <1>3, <1>7, <2>1, PopBackTakesLast, FrontIsHead
  <2>3. Buffer!TakeBack(t)
    BY <1>1, <2>1, <2>2 DEF Buffer!TakeBack
  <2> QED
    BY <2>1, <2>2, <2>3 DEF Buffer!Next
<1> QED
  BY <1>4, <1>5, <1>6, <1>7, CallsAreCalls

\* Whoever is notified is moved from those who wait to those who are awake.
LEMMA NotifyMoves ==
  ASSUME NEW W, NEW A, NotifyOne(W, A)
  PROVE  /\ waiting' \cup awake' = W \cup A /\ A \subseteq awake'
         /\ W \cap A = {} => waiting' \cap awake' = {}
  BY DEF NotifyOne

\* An attempt of t keeps the books on who is in which call, and does nothing to
\* the contents or what the bounded buffer may do.
LEMMA AttemptTypes ==
  ASSUME RingInv, NEW t \in Threads, t \notin waiting, NEW c \in Calls, Attempt(t, c)
  PROVE  RingInv' /\ (Buffer!Next \/ UNCHANGED <<Contents(ring), returned>>)
<1>1. CASE May(c) /\ Perform(t, c)
  <2>1. /\ ring' \in Rings /\ returned' \in [Threads -> Values] /\ Buffer!Next
    BY <1>1, PerformIsNext DEF RingInv, TypeOK, Values
  <2>2. /\ call' = [call EXCEPT ![t] = NoCall] /\ expired' = expired \ {t}
        /\ NotifyOne(waiting, awake \ {t})
    BY <1>1 DEF Attempt
  <2>3. /\ waiting' \cup awake' = waiting \cup (awake \ {t}) /\ awake \ {t} \subseteq awake'
        /\ waiting' \cap awake' = {}
    BY <2>2, NotifyMoves DEF RingInv, TypeOK
  <2>4. waiting' \cup awake' = (waiting \cup awake) \ {t}
    BY <2>3
  <2>5. /\ call' \in [Threads -> Calls \cup {NoCall}]
        /\ \A u \in Threads : call'[u] = IF u = t THEN NoCall ELSE call[u]
    BY <2>2 DEF RingInv, TypeOK
  <2>6. \A u \in Threads : call'[u] # NoCall <=> u \in waiting' \cup awake'
    BY <2>4, <2>5 DEF RingInv, TypeOK
  <2>7. /\ waiting' \cup awake' \subseteq Threads /\ expired' \subseteq awake'
        /\ \A u \in expired' : call'[u].op = "try_pop_front"
    BY <2>2, <2>3, <2>4, <2>5 DEF RingInv, TypeOK
  <2>8. TypeOK'
    BY <2>1, <2>3, <2>5, <2>6, <2>7 DEF TypeOK, Values
  <2> QED
    BY <2>1, <2>7, <2>8 DEF RingInv
<1>2. CASE ~(May(c) /\ Perform(t, c))
  <2>1. /\ t \notin expired /\ call' = [call EXCEPT ![t] = c]
        /\ waiting' = waiting \cup {t} /\ awake' = awake \ {t}
        /\ UNCHANGED <<ring, expired, returned>>
    BY <1>2 DEF Attempt
  <2>2. c # NoCall
    BY CallsAreCalls
  <2> QED
    BY <2>1, <2>2 DEF RingInv, TypeOK, Contents, Slot
<1> QED
  BY <1>1, <1>2

\* A step of a thread keeps the books, and is one of the bounded buffer or none.
LEMMA StepRefines ==
  ASSUME RingInv, NEW t \in Threads, Step(t)
  PROVE  RingInv' /\ (Buffer!Next \/ UNCHANGED <<Contents(ring), returned>>)
<1>1. CASE Enter(t)
  <2>1. t \notin waiting
    BY <1>1 DEF Enter, RingInv, TypeOK
  <2>2. PICK c \in CallsOf(t) : Attempt(t, c)
    BY <1>1 DEF Enter
  <2>3. c \in Calls
    BY DEF CallsOf
  <2> QED
    BY <2>1, <2>2, <2>3, AttemptTypes
<1>2. CASE Resume(t)
  <2>1. t \notin waiting /\ call[t] \in Calls /\ Attempt(t, call[t])
    BY <1>2 DEF Resume, RingInv, TypeOK
  <2> QED
    BY <2>1, AttemptTypes
<1>3. CASE Timeout(t)
  <2>1. /\ waiting' = waiting \ {t} /\ awake' = awake \cup {t} /\ expired' = expired \cup {t}
        /\ call[t].op = "try_pop_front" /\ t \in waiting \cup awake
        /\ UNCHANGED <<ring, call, returned>>
    BY <1>3 DEF Timeout
  <2> QED
    BY <2>1 DEF RingInv, TypeOK, Contents, Slot
<1>4. CASE GiveUp(t)
  <2>1. /\ t \in awake /\ call[t].op = "try_pop_front" /\ ~May(call[t])
        /\ returned' = [returned EXCEPT ![t] = NoItem] /\ ring' = ring
        /\ call' = [call EXCEPT ![t] = NoCall] /\ expired' = expired \ {t}
        /\ NotifyOne(waiting, awake \ {t})
    BY <1>4 DEF GiveUp, RingInv
  <2>2. /\ waiting' \cup awake' = waiting \cup (awake \ {t}) /\ awake \ {t} \subseteq awake'
        /\ waiting' \cap awake' = {}
    BY <2>1, NotifyMoves DEF RingInv, TypeOK
  <2>3. waiting' \cup awake' = (waiting \cup awake) \ {t}
    BY <2>1, <2>2 DEF RingInv, TypeOK
  <2>4. /\ call' \in [Threads -> Calls \cup {NoCall}]
        /\ \A u \in Threads : call'[u] = IF u = t THEN NoCall ELSE call[u]
    BY <2>1 DEF RingInv, TypeOK
  <2>5. \A u \in Threads : call'[u] # NoCall <=> u \in waiting' \cup awake'
    BY <2>3, <2>4 DEF RingInv, TypeOK
  <2>6. /\ waiting' \cup awake' \subseteq Threads /\ expired' \subseteq awake'
        /\ \A u \in expired' : call'[u].op = "try_pop_front"
    BY <2>1, <2>2, <2>3, <2>4 DEF RingInv, TypeOK
  <2>7. RingInv'
    BY <2>1, <2>2, <2>4, <2>5, <2>6 DEF RingInv, TypeOK
  <2>8. ring.size = 0
    BY <2>1 DEF May, IsEmpty
  <2>9. Contents(ring) = <<>> /\ Contents(ring)' = Contents(ring)
    BY <2>1, <2>8, ContentsIs, EmptySeq DEF RingInv, TypeOK, Contents, Slot
  <2>10. Buffer!Fail(t)
    BY <2>1, <2>9 DEF Buffer!Fail
  <2> QED
    BY <2>7, <2>10 DEF Buffer!Next
<1>5. CASE Spurious(t)
  <2>1. /\ waiting' = waiting \ {t} /\ awake' = awake \cup {t} /\ t \in waiting
        /\ UNCHANGED <<ring, call, expired, returned>>
    BY <1>5 DEF Spurious
  <2> QED
    BY <2>1 DEF RingInv, TypeOK, Contents, Slot
<1>6. CASE EffClearAll(t)
  <2>1. ring' = EffClear(ring) /\ UNCHANGED <<call, waiting, awake, expired, returned>>
    BY <1>6 DEF EffClearAll
  <2>2. ring' \in Rings /\ Contents(ring') = <<>>
    BY <2>1, ClearEmpties DEF RingInv, TypeOK
  <2>3. Contents(ring)' = Contents(ring')
    BY DEF Contents, Slot
  <2>4. Buffer!Clear
    BY <2>1, <2>2, <2>3 DEF Buffer!Clear
  <2>5. RingInv'
    BY <2>1, <2>2 DEF RingInv, TypeOK
  <2> QED
    BY <2>4, <2>5 DEF Buffer!Next
<1> QED
  BY <1>1, <1>2, <1>3, <1>4, <1>5, <1>6 DEF Step

\* In the beginning nobody is in a call, and the buffer is empty.
LEMMA RingInit == Init => RingInv /\ Buffer!Init
<1> SUFFICES ASSUME Init PROVE RingInv /\ Buffer!Init
  OBVIOUS
<1>1. ring \in Rings /\ Contents(ring) = <<>>
  BY NewIsEmpty DEF Init
<1>2. RingInv
  BY <1>1 DEF Init, RingInv, TypeOK
<1>3. Buffer!Init
  BY <1>1 DEF Init, Buffer!Init
<1> QED
  BY <1>2, <1>3

\* ... and every step keeps the books and maps to one of the buffer, or to none.
LEMMA RingStep ==
  ASSUME RingInv, [Next]_vars
  PROVE  RingInv' /\ [Buffer!Next]_<<Contents(ring), returned>>
<1>1. CASE Next
  BY <1>1, StepRefines DEF Next
<1>2. CASE UNCHANGED vars
  BY <1>2 DEF vars, RingInv, TypeOK, Contents, Slot
<1> QED
  BY <1>1, <1>2

\* However many threads of each kind there are, no slot is written beyond the
\* capacity, and a thread is waiting or awake only inside a call of its own.
THEOREM TypeCorrect == Spec => []TypeOK
<1>1. RingInv => TypeOK
  BY DEF RingInv
<1> QED
  BY <1>1, RingInit, RingStep, PTL DEF Spec

\* The blocking ring is a bounded buffer, whatever the number of slots and of
\* threads, and whoever is woken: items come out in the order they went in, none
\* twice and none never written, and try_pop_front fails only on an empty ring.
THEOREM RingKeepsPromise == Spec => KeepsPromise
  BY RingInit, RingStep, PTL DEF Spec, KeepsPromise, Buffer!Spec
-----------------------------------------------------------------------------
\* The run of both queues.

\* TypeOK of the logger, and the types of what it does not mention.
LoggerInv == L!TypeOK /\ logged \in Nat /\ running_ \in BOOLEAN

LEMMA LoggerInit == ASSUME L!Init PROVE LoggerInv
<1>1. /\ lidar = [l \in Lidars |-> "new"] /\ mutex_running = "free" /\ thread = "none"
      /\ running_ = FALSE /\ logged = 0 /\ owed = 0
  BY DEF L!Init
<1>2. \A l \in Lidars : lidar[l] = "new" /\ l # "free"
  BY <1>1, CastAssumption
<1>3. lidar \in [Lidars -> {"new", "start", "up", "notify", "join", "deleted"}]
  BY <1>1
<1>4. \A l \in Lidars : ~(mutex_running = l) /\ ~(lidar[l] \in {"notify", "join"})
  BY <1>1, <1>2
<1>5. logged \in Nat /\ owed \in 0 .. logged
  BY <1>1
<1> QED
  BY <1>1, <1>3, <1>4, <1>5 DEF LoggerInv, L!TypeOK

\* Only in a Stop of its own has a Lidar the mutex.
LEMMA LidarMoves ==
  ASSUME LoggerInv, NEW l \in Lidars, L!LidarStep(l)
  PROVE  LoggerInv'
<1> DEFINE Places == {"new", "start", "up", "notify", "join", "deleted"}
<1>1. l # "free"
  BY CastAssumption
<1>2. ASSUME NEW p \in Places, lidar' = [lidar EXCEPT ![l] = p]
      PROVE  /\ lidar' \in [Lidars -> Places]
             /\ \A m \in Lidars : lidar'[m] = IF m = l THEN p ELSE lidar[m]
  BY <1>2 DEF LoggerInv, L!TypeOK
<1>3. CASE L!SetLogTargetRule(l)
  <2>1. /\ lidar[l] = "new" /\ lidar' = [lidar EXCEPT ![l] = "start"]
        /\ UNCHANGED <<mutex_running, thread, running_, logged, owed>>
    BY <1>3 DEF L!SetLogTargetRule, L!life, L!lines
  <2> QED
    BY <1>2, <2>1 DEF LoggerInv, L!TypeOK
<1>4. CASE L!Start(l)
  <2>1. /\ lidar[l] = "start" /\ lidar' = [lidar EXCEPT ![l] = "up"]
        /\ UNCHANGED <<mutex_running, logged, owed>>
        /\ \/ UNCHANGED <<thread, running_>>
           \/ running_' = TRUE /\ thread' = "begin"
    BY <1>4 DEF L!Start
  <2> QED
    BY <1>2, <2>1 DEF LoggerInv, L!TypeOK
<1>5. CASE L!StartFails(l)
  <2>1. /\ lidar[l] = "start" /\ lidar' = [lidar EXCEPT ![l] = "up"]
        /\ UNCHANGED <<mutex_running, thread, running_, logged, owed>>
    BY <1>5 DEF L!StartFails, L!lines
  <2> QED
    BY <1>2, <2>1 DEF LoggerInv, L!TypeOK
<1>6. CASE L!StopNothing(l)
  <2>1. /\ lidar[l] = "up" /\ lidar' = [lidar EXCEPT ![l] = "deleted"]
        /\ UNCHANGED <<mutex_running, thread, running_, logged, owed>>
    BY <1>6 DEF L!StopNothing, L!life, L!lines
  <2> QED
    BY <1>2, <2>1 DEF LoggerInv, L!TypeOK
<1>7. CASE L!Stop(l)
  <2>1. /\ lidar[l] = "up" /\ lidar' = [lidar EXCEPT ![l] = "notify"]
        /\ mutex_running = "free" /\ mutex_running' = l
        /\ UNCHANGED <<thread, running_, logged, owed>>
    BY <1>7 DEF L!Stop, L!lines
  <2> QED
    BY <1>1, <1>2, <2>1, CastAssumption DEF LoggerInv, L!TypeOK
<1>8. CASE L!StopNotifies(l)
  <2>1. /\ lidar[l] = "notify" /\ lidar' = [lidar EXCEPT ![l] = "join"]
        /\ thread' = IF thread = "waits" THEN "test" ELSE thread
        /\ UNCHANGED <<mutex_running, running_, logged, owed>>
    BY <1>8 DEF L!StopNotifies, L!Woken, L!life, L!lines
  <2> QED
    BY <1>2, <2>1 DEF LoggerInv, L!TypeOK
<1>9. CASE L!StopJoins(l)
  <2>1. /\ lidar[l] = "join" /\ lidar' = [lidar EXCEPT ![l] = "deleted"]
        /\ thread = "exited" /\ running_' = FALSE /\ mutex_running' = "free"
        /\ UNCHANGED <<thread, logged, owed>>
    BY <1>9 DEF L!StopJoins, L!lines
  <2> QED
    BY <1>1, <1>2, <2>1, CastAssumption DEF LoggerInv, L!TypeOK
<1> QED
  BY <1>3, <1>4, <1>5, <1>6, <1>7, <1>8, <1>9 DEF L!LidarStep

\* Who writes the file runs only while the logger does.
LEMMA LoggerMoves ==
  ASSUME LoggerInv, L!Next
  PROVE  LoggerInv'
<1>1. CASE \E l \in Lidars : L!LidarStep(l)
  BY <1>1, LidarMoves
<1>2. CASE L!AddToQueue
  <2>1. /\ logged' = logged + 1 /\ owed' = owed + 1
        /\ UNCHANGED <<lidar, mutex_running, running_, thread>>
    BY <1>2 DEF L!AddToQueue, L!life
  <2>2. owed \in 0 .. logged /\ logged \in Nat
    BY DEF LoggerInv, L!TypeOK
  <2>3. owed' \in 0 .. logged' /\ logged' \in Nat
    BY <2>1, <2>2
  <2> QED
    BY <2>1, <2>3 DEF LoggerInv, L!TypeOK
<1>3. CASE L!AddNotifies
  <2>1. /\ owed > 0 /\ owed' = owed - 1
        /\ thread' = IF thread = "waits" THEN "test" ELSE thread
        /\ UNCHANGED <<lidar, mutex_running, running_, logged>>
    BY <1>3 DEF L!AddNotifies, L!Woken, L!life
  <2>2. owed \in 0 .. logged /\ logged \in Nat
    BY DEF LoggerInv, L!TypeOK
  <2>3. owed' \in 0 .. logged' /\ logged' \in Nat
    BY <2>1, <2>2
  <2> QED
    BY <2>1, <2>3 DEF LoggerInv, L!TypeOK
<1>4. CASE L!Writer
  <2>1. /\ thread \notin {"none", "exited"}
        /\ thread' \in {"loop", "test", "about to wait", "waits", "exited"}
        /\ UNCHANGED <<lidar, mutex_running, running_, logged, owed>>
    BY <1>4 DEF L!Writer, L!Begin, L!Loop, L!Empty, L!Wait, L!Write, L!life, L!lines
  <2> QED
    BY <2>1 DEF LoggerInv, L!TypeOK
<1> QED
  BY <1>1, <1>2, <1>3, <1>4 DEF L!Next

\* Each queue has its own threads, or rests.
BothInv == RingInv /\ cast \subseteq Threads /\ (cast = {} => LoggerInv)

LEMMA BothInit == MCInit => BothInv
<1> SUFFICES ASSUME MCInit PROVE BothInv
  OBVIOUS
<1>1. Init /\ cast \subseteq Threads /\ (cast = {} => L!Init)
  BY CastAssumption DEF MCInit
<1> QED
  BY <1>1, RingInit, LoggerInit DEF BothInv

LEMMA BothStep ==
  ASSUME BothInv, [MCNext]_<<vars, cast, loggerVars>>
  PROVE  BothInv' /\ [Buffer!Next]_<<Contents(ring), returned>>
<1>1. CASE (\E t \in cast : Step(t)) /\ UNCHANGED loggerVars /\ UNCHANGED cast
  <2>1. PICK t \in Threads : Step(t)
    BY <1>1 DEF BothInv
  <2>2. RingInv' /\ [Buffer!Next]_<<Contents(ring), returned>>
    BY <2>1, StepRefines DEF BothInv
  <2>3. cast # {} /\ cast' = cast
    BY <1>1
  <2> QED
    BY <2>2, <2>3 DEF BothInv
<1>2. CASE cast = {} /\ L!Next /\ UNCHANGED vars /\ UNCHANGED cast
  <2>1. LoggerInv'
    BY <1>2, LoggerMoves DEF BothInv
  <2>2. RingInv' /\ [Buffer!Next]_<<Contents(ring), returned>>
    BY <1>2, RingStep DEF BothInv
  <2> QED
    BY <1>2, <2>1, <2>2 DEF BothInv
<1>3. CASE UNCHANGED <<vars, cast, loggerVars>>
  <2>1. RingInv' /\ [Buffer!Next]_<<Contents(ring), returned>>
    BY <1>3, RingStep DEF BothInv
  <2>2. LoggerInv => LoggerInv'
    BY <1>3 DEF LoggerInv, L!TypeOK, loggerVars
  <2> QED
    BY <1>3, <2>1, <2>2 DEF BothInv
<1> QED
  BY <1>1, <1>2, <1>3 DEF MCNext, LoggerIdle

\* TypesHold: whoever takes part, the variables of the ring and of the logger have
\* their types; so Stop has the mutex of the logger from its first step to its
\* last and only one Lidar is in it, and the thread that writes runs only while
\* running_ is set.
THEOREM TypesHold == MCSpec => []TypesOK
<1>1. BothInv => TypesOK
  BY DEF BothInv, RingInv, LoggerInv, TypesOK
<1> QED
  BY <1>1, BothInit, BothStep, PTL DEF MCSpec

\* PromiseKept: each cast of the run finds in the ring a bounded buffer.
THEOREM PromiseKept == MCSpec => KeepsPromise
<1>1. MCInit => Buffer!Init
  BY RingInit DEF MCInit
<1> QED
  BY <1>1, BothInit, BothStep, PTL DEF MCSpec, KeepsPromise, Buffer!Spec
=============================================================================
