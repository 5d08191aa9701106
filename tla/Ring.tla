-------------------------------- MODULE Ring --------------------------------
(***************************************************************************)
(* Ring_SDK<T, N> (ring.cc): N slots, the index of the first item and the  *)
(* number of items.  The operators are its methods, from a ring to a ring. *)
(***************************************************************************)
EXTENDS Integers, Sequences

CONSTANTS
  N,      \* capacity
  Item,   \* what is stored
  NoItem  \* T(), what a slot that never was written holds

ASSUME RingAssumption == N \in Nat \ {0} /\ NoItem \notin Item

Rings == [slots : [0 .. N-1 -> Item \cup {NoItem}], begin : 0 .. N-1, size : 0 .. N]

NewRing == [slots |-> [i \in 0 .. N-1 |-> NoItem], begin |-> 0, size |-> 0]

\* The slot of the k-th item, and the items in order (operator[]).
Slot(r, k) == (r.begin + k) % N
Contents(r) == [k \in 1 .. r.size |-> r.slots[Slot(r, k - 1)]]

IsEmpty(r) == r.size = 0

\* Mutant: one item too many.
IsFullLate(r) == r.size > N

IsFull(r) == r.size >= N

\* Mutant: the item lands on the last one instead of behind it.
EmplaceBackOver(r, item) ==
  [r EXCEPT !.slots[(r.begin + r.size + N - 1) % N] = item, !.size = @ + 1]

EmplaceBack(r, item) ==
  [r EXCEPT !.slots[Slot(r, r.size)] = item, !.size = @ + 1]

PushFront(r, item) ==
  LET b == (r.begin + N - 1) % N
  IN  [r EXCEPT !.begin = b, !.slots[b] = item, !.size = @ + 1]

PeekFront(r) == r.slots[r.begin]

\* pop_front and pop_back leave a T() behind, eff_pop_front what was there.
PopFront(r) == [r EXCEPT !.slots[r.begin] = NoItem, !.begin = (@ + 1) % N, !.size = @ - 1]
EffPopFront(r) == [r EXCEPT !.begin = (@ + 1) % N, !.size = @ - 1]

PeekBack(r) == r.slots[Slot(r, r.size - 1)]
PopBack(r) == [r EXCEPT !.slots[Slot(r, r.size - 1)] = NoItem, !.size = @ - 1]

EffClear(r) == [r EXCEPT !.begin = 0, !.size = 0]

=============================================================================
