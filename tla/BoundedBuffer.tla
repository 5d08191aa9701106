--------------------------- MODULE BoundedBuffer ---------------------------
(***************************************************************************)
(* What a BlockingRing promises its callers: a bounded sequence of items,  *)
(* every call one atomic step, a full buffer never written to, an empty    *)
(* one never read from, and a timed pop that only fails on an empty one.   *)
(***************************************************************************)
EXTENDS Naturals, Sequences

CONSTANTS N, Item, NoItem, Threads

VARIABLES q, returned   \* the items, and what each thread's last pop returned

Init == q = <<>> /\ returned = [t \in Threads |-> NoItem]

Append1 ==
  /\ Len(q) < N
  /\ \E item \in Item : q' = Append(q, item)
  /\ UNCHANGED returned

Prepend ==
  /\ Len(q) < N
  /\ \E item \in Item : q' = <<item>> \o q
  /\ UNCHANGED returned

TakeFront(t) ==
  /\ q # <<>>
  /\ q' = Tail(q) /\ returned' = [returned EXCEPT ![t] = Head(q)]

TakeBack(t) ==
  /\ q # <<>>
  /\ q' = SubSeq(q, 1, Len(q) - 1)
  /\ returned' = [returned EXCEPT ![t] = q[Len(q)]]

Fail(t) ==
  /\ q = <<>> /\ UNCHANGED q
  /\ returned' = [returned EXCEPT ![t] = NoItem]

Clear == q' = <<>> /\ UNCHANGED returned

Next ==
  \/ Append1 \/ Prepend \/ Clear
  \/ \E t \in Threads : TakeFront(t) \/ TakeBack(t) \/ Fail(t)

Spec == Init /\ [][Next]_<<q, returned>>

=============================================================================
