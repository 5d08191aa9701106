---------------------------- MODULE BlockingRing ----------------------------
(***************************************************************************)
(* BlockingRing<T, N> (blocking_ring.cc): a ring behind one mutex and one  *)
(* condition variable, which those who wait for room and those who wait    *)
(* for an item share.                                                      *)
(*                                                                         *)
(* A method holds the mutex from beginning to end but for the time it      *)
(* waits, so a step is what happens between two waits.  notify_one wakes   *)
(* any of the threads that wait, or none if there is none.                 *)
(***************************************************************************)
EXTENDS Ring, FiniteSets

CONSTANTS
  Pushers,      \* threads that call push_back (emplace_back) or push_front
  TimedPoppers, \* threads that call try_pop_front
  Poppers,      \* threads that call pop_front or pop_back
  Clearers      \* threads that call eff_clear (clear)

Threads == Pushers \cup TimedPoppers \cup Poppers \cup Clearers

VARIABLES
  ring,
  call,       \* the call each thread is in, and NoCall
  waiting,    \* threads in _condv.wait
  awake,      \* threads that left it and want the mutex back
  expired,    \* threads whose 100 ms are over
  returned    \* what each thread's last pop returned

vars == <<ring, call, waiting, awake, expired, returned>>

NoCall == [op |-> "none"]
Calls == [op : {"push_back", "push_front"}, item : Item]
         \cup [op : {"try_pop_front", "pop_front", "pop_back"}]

CallsOf(t) ==
  {c \in Calls : \/ t \in Pushers /\ c.op \in {"push_back", "push_front"}
                 \/ t \in TimedPoppers /\ c.op = "try_pop_front"
                 \/ t \in Poppers /\ c.op \in {"pop_front", "pop_back"}}

Init ==
  /\ ring = NewRing
  /\ call = [t \in Threads |-> NoCall]
  /\ waiting = {} /\ awake = {} /\ expired = {}
  /\ returned = [t \in Threads |-> NoItem]

-----------------------------------------------------------------------------
\* The predicate the call waits for: not_full, or not_empty.
May(c) == IF c.op \in {"push_back", "push_front"} THEN ~IsFull(ring) ELSE ~IsEmpty(ring)

\* What the call does once it may.
Perform(t, c) ==
  \/ /\ c.op = "push_back" /\ ring' = EmplaceBack(ring, c.item)
     /\ UNCHANGED returned
  \/ /\ c.op = "push_front" /\ ring' = PushFront(ring, c.item)
     /\ UNCHANGED returned
  \/ /\ c.op = "try_pop_front" /\ ring' = EffPopFront(ring)
     /\ returned' = [returned EXCEPT ![t] = PeekFront(ring)]
  \/ /\ c.op = "pop_front" /\ ring' = PopFront(ring)
     /\ returned' = [returned EXCEPT ![t] = PeekFront(ring)]
  \/ /\ c.op = "pop_back" /\ ring' = PopBack(ring)
     /\ returned' = [returned EXCEPT ![t] = PeekBack(ring)]

\* _condv.notify_one(), when the threads that wait are W and A want the mutex.
NotifyOne(W, A) ==
  IF W = {} THEN waiting' = W /\ awake' = A
  ELSE \E t \in W : waiting' = W \ {t} /\ awake' = A \cup {t}

\* t holds the mutex and is in call c: it does it and leaves, or waits.
Attempt(t, c) ==
  \/ /\ May(c) /\ Perform(t, c)
     /\ NotifyOne(waiting, awake \ {t})
     /\ call' = [call EXCEPT ![t] = NoCall] /\ expired' = expired \ {t}
  \/ /\ ~May(c) /\ t \notin expired
     /\ waiting' = waiting \cup {t} /\ awake' = awake \ {t}
     /\ call' = [call EXCEPT ![t] = c]
     /\ UNCHANGED <<ring, expired, returned>>

-----------------------------------------------------------------------------
Enter(t) ==
  /\ call[t] = NoCall
  /\ \E c \in CallsOf(t) : Attempt(t, c)

Resume(t) == t \in awake /\ Attempt(t, call[t])

\* The 100 ms of wait_for are over, whether the thread sleeps or has just been
\* woken: it looks at the predicate once more.
Timeout(t) ==
  /\ t \in waiting \cup awake /\ t \notin expired
  /\ call[t].op = "try_pop_front"
  /\ waiting' = waiting \ {t} /\ awake' = awake \cup {t} /\ expired' = expired \cup {t}
  /\ UNCHANGED <<ring, call, returned>>

\* Mutant: who gives up leaves without waking anyone.
GiveUpSilently(t) ==
  /\ t \in awake /\ t \in expired /\ ~May(call[t])
  /\ returned' = [returned EXCEPT ![t] = NoItem]
  /\ waiting' = waiting /\ awake' = awake \ {t}
  /\ call' = [call EXCEPT ![t] = NoCall] /\ expired' = expired \ {t}
  /\ UNCHANGED ring

\* try_pop_front returns false, and notifies all the same.
GiveUp(t) ==
  /\ t \in awake /\ t \in expired /\ ~May(call[t])
  /\ returned' = [returned EXCEPT ![t] = NoItem]
  /\ NotifyOne(waiting, awake \ {t})
  /\ call' = [call EXCEPT ![t] = NoCall] /\ expired' = expired \ {t}
  /\ UNCHANGED ring

\* A condition variable may wake a thread for no reason.
Spurious(t) ==
  /\ t \in waiting
  /\ waiting' = waiting \ {t} /\ awake' = awake \cup {t}
  /\ UNCHANGED <<ring, call, expired, returned>>

\* eff_clear and clear notify nobody.
EffClearAll(t) ==
  /\ t \in Clearers
  /\ ring' = EffClear(ring)
  /\ UNCHANGED <<call, waiting, awake, expired, returned>>

Step(t) ==
  Enter(t) \/ Resume(t) \/ Timeout(t) \/ GiveUp(t) \/ Spurious(t) \/ EffClearAll(t)

Next == \E t \in Threads : Step(t)

Spec == Init /\ [][Next]_vars

\* The mutex is granted, time passes, and the consumers go on consuming, as the
\* loops of Run and ParserThread do.
Fairness ==
  /\ \A t \in Threads : WF_vars(Resume(t) \/ GiveUp(t)) /\ WF_vars(Timeout(t))
  /\ \A t \in TimedPoppers : WF_vars(Enter(t))

FairSpec == Spec /\ Fairness

-----------------------------------------------------------------------------
\* No slot is written beyond the capacity, and a thread is waiting or awake only
\* inside a call of its own.
TypeOK ==
  /\ ring \in Rings
  /\ call \in [Threads -> Calls \cup {NoCall}]
  /\ \A t \in Threads : call[t] # NoCall <=> t \in waiting \cup awake
  /\ waiting \cap awake = {}
  /\ waiting \cup awake \subseteq Threads /\ expired \subseteq awake
  /\ returned \in [Threads -> Item \cup {NoItem}]

\* KeepsPromise: the blocking ring is a bounded buffer: items come out in the
\* order they went in, none twice and none never written; try_pop_front fails
\* only on an empty ring.
Buffer == INSTANCE BoundedBuffer WITH q <- Contents(ring)

KeepsPromise == Buffer!Spec

\* PushersServed: a push that waits for room gets through.  It does where one
\* thread pushes and one pops with a timeout; a second pusher, or a popper that
\* waits without a timeout, may get every wake-up instead.
PushersServed == \A t \in Pushers : call[t] # NoCall ~> call[t] = NoCall

=============================================================================
