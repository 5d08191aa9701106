-------------------------- MODULE PtcClient_proofs --------------------------
(***************************************************************************)
(* An answer that the client of the lidar takes is true, for all programs. *)
(*                                                                         *)
(* ControlInv: who holds the mutex, and when there is a connection.        *)
(* StreamInv: what one thread has read of an answer and what is still to   *)
(* be received are, one after the other, answers of the lidar, of which    *)
(* only the first may have lost its beginning.                             *)
(***************************************************************************)
EXTENDS PtcClient, SequenceTheorems, TLAPS

Holding == {"flush", "send", "header", "body"}
Receiving == {"header", "body"}
Unused == opener \in {"address", "connect"}

\* ControlInv: the types; a thread that is not done has something to ask; before
\* TryOpen has connected nobody is past IsOpen.
Places == {"packets", "await", "test", "sleep", "frame", "call", "lock", "flush", "send",
           "header", "body", "done"}
ProgramInv ==
  /\ program \in Programs /\ next \in [Users -> Nat \ {0}] /\ pc \in [Users -> Places]
  /\ \A u \in Users : pc[u] # "done" => next[u] <= Len(program[u])
LockInv ==
  /\ _mutex \in Users \cup {"none"}
  /\ \A u \in Users : _mutex = u <=> pc[u] \in Holding
OpenInv ==
  /\ opener \in {"address", "connect", "set timeout", "exited"}
  /\ Unused => /\ ~m_bLidarConnected /\ opened = 0
               /\ \A u \in Users : pc[u] \notin Holding \cup {"lock"}
  /\ opened \in 0 .. MaxReopened + 1 /\ hung \in 0 .. MaxBroken
StateInv ==
  /\ correction \in {"none", "lidar", "file"}
  /\ main \in {"serving", "join run", "join set", "join opener", "deleted"}
ControlInv == ProgramInv /\ LockInv /\ OpenInv /\ StateInv

\* At first.
LEMMA ControlInit == PtcAssumption /\ Init => ControlInv
<1> SUFFICES ASSUME PtcAssumption, Init PROVE ControlInv
  OBVIOUS
<1>1. pc \in [Users -> {"packets", "test", "frame", "done"}]
  BY DEF Init, Users
<1>2. \A u \in Users : pc[u] # "done" => next[u] <= Len(program[u])
  <2> SUFFICES ASSUME NEW u \in Users, pc[u] # "done" PROVE next[u] <= Len(program[u])
    OBVIOUS
  <2>1. program[u] \in Seq(Commands) /\ program[u] # <<>>
    BY DEF Init, PtcAssumption
  <2> QED BY <2>1 DEF Init
<1>3. next \in [Users -> Nat \ {0}]
  BY DEF Init
<1>4. "none" \notin Users /\ \A u \in Users : pc[u] \notin Holding \cup {"lock"}
  BY <1>1 DEF Users, Holding
<1>5. pc \in [Users -> Places]
  BY <1>1 DEF Places
<1>6. ProgramInv
  BY <1>2, <1>3, <1>5 DEF Init, ProgramInv
<1>7. LockInv
  BY <1>4 DEF Init, LockInv
<1>8. OpenInv
  <2>1. ~m_bLidarConnected
    BY DEF Init
  <2>2. opened = 0 /\ opened \in 0 .. MaxReopened + 1 /\ hung \in 0 .. MaxBroken
    BY DEF Init, PtcAssumption
  <2> QED BY <1>4, <2>1, <2>2 DEF Init, OpenInv
<1> QED BY <1>6, <1>7, <1>8 DEF Init, ControlInv, StateInv

\* What a thread does when QueryCommand returns.
LEMMA ReturnControl ==
  ASSUME PtcAssumption, ControlInv, NEW u \in Users, NEW ok, NEW body, Return(u, ok, body),
         pc[u] # "done"
  PROVE  /\ ProgramInv' /\ StateInv'
         /\ pc'[u] \in {"call", "frame", "done"}
         /\ \A v \in Users : v # u => pc'[v] = pc[v]
<1>1. /\ next' = [next EXCEPT ![u] = @ + 1] /\ UNCHANGED <<program, main>>
      /\ pc' = [pc EXCEPT ![u] = IF next[u] = Len(program[u]) THEN "done"
                                 ELSE IF u = "run" THEN "frame" ELSE "call"]
      /\ correction' \in {"lidar", "file"} \/ correction' = correction
  BY DEF Return
<1>2. /\ program \in Programs /\ next \in [Users -> Nat \ {0}] /\ pc \in [Users -> Places]
      /\ next[u] <= Len(program[u]) /\ program[u] \in Seq(Commands)
      /\ \A v \in Users : pc[v] # "done" => next[v] <= Len(program[v])
  BY DEF ControlInv, ProgramInv, PtcAssumption
<1>3. pc' \in [Users -> Places] /\ next' \in [Users -> Nat \ {0}]
  BY <1>1, <1>2 DEF Places
<1>4. /\ pc'[u] = (IF next[u] = Len(program[u]) THEN "done"
                   ELSE IF u = "run" THEN "frame" ELSE "call")
      /\ next'[u] = next[u] + 1
      /\ \A v \in Users : v # u => pc'[v] = pc[v] /\ next'[v] = next[v]
  BY <1>1, <1>2
<1>5. pc'[u] # "done" => next'[u] <= Len(program[u])
  <2>1. Len(program[u]) \in Nat /\ next[u] \in Nat
    BY <1>2
  <2> QED BY <1>2, <1>4, <2>1
<1>6. ProgramInv'
  BY <1>1, <1>2, <1>3, <1>4, <1>5 DEF ProgramInv
<1> QED BY <1>1, <1>4, <1>6 DEF ControlInv, StateInv

\* A step of one thread to another place.
LEMMA GoesControl ==
  ASSUME ControlInv, NEW u \in Users, NEW q \in Places \ {"done"}, pc[u] # "done",
         pc' = [pc EXCEPT ![u] = q], UNCHANGED <<program, next>>
  PROVE  /\ ProgramInv' /\ pc'[u] = q
         /\ \A v \in Users : v # u => pc'[v] = pc[v]
BY DEF ControlInv, ProgramInv

LEMMA DoneControl ==
  ASSUME ControlInv, NEW u \in Users,
         pc' = [pc EXCEPT ![u] = "done"], UNCHANGED <<program, next>>
  PROVE  /\ ProgramInv' /\ pc'[u] = "done"
         /\ \A v \in Users : v # u => pc'[v] = pc[v]
BY DEF ControlInv, ProgramInv, Places

\* The mutex is as it was, if the thread neither had it nor has it, or keeps it; ...
LEMMA KeepsLock ==
  ASSUME ControlInv, NEW u \in Users, pc[u] \in Holding <=> pc'[u] \in Holding, _mutex' = _mutex,
         \A v \in Users : v # u => pc'[v] = pc[v]
  PROVE  LockInv'
BY DEF ControlInv, LockInv

\* ... or is given back.
LEMMA GivesLock ==
  ASSUME ControlInv, NEW u \in Users, pc[u] \in Holding, pc'[u] \notin Holding, Unlock,
         \A v \in Users : v # u => pc'[v] = pc[v]
  PROVE  LockInv'
<1>1. "none" \notin Users
  BY DEF Users
<1>2. \A v \in Users : v # u => pc[v] \notin Holding
  BY DEF ControlInv, LockInv
<1> QED BY <1>1, <1>2 DEF LockInv, Unlock

\* The connection is no concern of a thread that is not past IsOpen.
LEMMA KeepsOpen ==
  ASSUME ControlInv, NEW u \in Users, UNCHANGED <<opener, opened, hung>>,
         m_bLidarConnected' => m_bLidarConnected,
         pc'[u] \in Holding \cup {"lock"} => m_bLidarConnected \/ pc[u] \in Holding \cup {"lock"},
         \A v \in Users : v # u => pc'[v] = pc[v]
  PROVE  OpenInv'
<1>1. Unused' <=> Unused
  BY DEF Unused
<1>2. Unused => /\ ~m_bLidarConnected /\ opened = 0
                /\ \A v \in Users : pc[v] \notin Holding \cup {"lock"}
  BY DEF ControlInv, OpenInv
<1>3. ASSUME Unused PROVE /\ ~m_bLidarConnected' /\ opened' = 0
                          /\ \A v \in Users : pc'[v] \notin Holding \cup {"lock"}
  <2> SUFFICES ASSUME NEW v \in Users PROVE pc'[v] \notin Holding \cup {"lock"}
    BY <1>2, <1>3
  <2>1. CASE v = u
    BY <1>2, <1>3, <2>1
  <2>2. CASE v # u
    BY <1>2, <1>3, <2>2
  <2> QED BY <2>1, <2>2
<1> QED BY <1>1, <1>3 DEF ControlInv, OpenInv

\* A query.
LEMMA QueryControl ==
  ASSUME PtcAssumption, ControlInv, NEW u \in Users, QueryStep(u)
  PROVE  ControlInv'
<1> USE DEF Holding, Places
<1>1. /\ ProgramInv /\ LockInv /\ OpenInv /\ StateInv
      /\ pc[u] \in Places /\ (_mutex = u <=> pc[u] \in Holding)
  BY DEF ControlInv, ProgramInv, LockInv
<1>2. CASE CallClosed(u)
  <2>1. /\ pc[u] = "call" /\ Return(u, FALSE, <<>>)
        /\ UNCHANGED <<opener, _mutex, m_bLidarConnected, opened, hung>>
    BY <1>2 DEF CallClosed, client, socket
  <2>2. /\ ProgramInv' /\ StateInv' /\ pc'[u] \in {"call", "frame", "done"}
        /\ \A v \in Users : v # u => pc'[v] = pc[v]
    BY <2>1, ReturnControl
  <2> QED BY <2>1, <2>2, KeepsLock, KeepsOpen DEF ControlInv
<1>3. CASE CallOpen(u)
  <2>1. /\ pc[u] = "call" /\ pc' = [pc EXCEPT ![u] = "lock"] /\ m_bLidarConnected
        /\ UNCHANGED <<opener, _mutex, m_bLidarConnected, opened, hung, program, next>>
        /\ UNCHANGED <<correction, main>>
    BY <1>3 DEF CallOpen, client, socket, lidar
  <2>2. ProgramInv' /\ pc'[u] = "lock" /\ \A v \in Users : v # u => pc'[v] = pc[v]
    BY <2>1, GoesControl
  <2> QED BY <1>1, <2>1, <2>2, KeepsLock, KeepsOpen DEF ControlInv, StateInv
<1>4. CASE Lock(u)
  <2>1. /\ pc[u] = "lock" /\ pc' = [pc EXCEPT ![u] = "flush"] /\ _mutex = "none" /\ _mutex' = u
        /\ UNCHANGED <<opener, m_bLidarConnected, opened, hung, program, next>>
        /\ UNCHANGED <<correction, main>>
    BY <1>4 DEF Lock, client, socket, lidar
  <2>2. ProgramInv' /\ pc'[u] = "flush" /\ \A v \in Users : v # u => pc'[v] = pc[v]
    BY <2>1, GoesControl
  <2>3. LockInv'
    BY <1>1, <2>1, <2>2 DEF LockInv, Users
  <2> QED BY <1>1, <2>1, <2>2, <2>3, KeepsOpen DEF ControlInv, StateInv
<1>5. CASE Reopen(u)
  <2>1. /\ pc[u] \in Holding /\ opened <= MaxReopened /\ opened' = opened + 1
        /\ UNCHANGED <<opener, hung, program, next, pc, _mutex, correction, main>>
    BY <1>5 DEF Reopen, Connect, user, client, lidar
  <2>2. OpenInv'
    <3>1. ~Unused
      BY <1>1, <2>1 DEF OpenInv
    <3>2. opened' \in 0 .. MaxReopened + 1
      <4>1. opened \in 0 .. MaxReopened + 1 /\ MaxReopened \in Nat
        BY <1>1 DEF OpenInv, PtcAssumption
      <4> QED BY <2>1, <4>1
    <3> QED BY <1>1, <2>1, <3>1, <3>2 DEF OpenInv, Unused
  <2> QED BY <1>1, <2>1, <2>2 DEF ControlInv, ProgramInv, LockInv, StateInv
<1>6. CASE ReopenFails(u)
  <2>1. pc[u] \in Holding /\ UNCHANGED <<opener, m_bLidarConnected, opened, hung>>
    BY <1>6 DEF ReopenFails, client, socket
  <2>2. CASE /\ pc[u] = "flush" /\ pc' = [pc EXCEPT ![u] = "send"]
             /\ UNCHANGED <<program, next, rx, result, _mutex, lidar>>
    <3>1. ProgramInv' /\ pc'[u] = "send" /\ \A v \in Users : v # u => pc'[v] = pc[v]
      BY <2>2, GoesControl
    <3> QED BY <1>1, <2>1, <2>2, <3>1, KeepsLock, KeepsOpen DEF ControlInv, StateInv, lidar
  <2>3. CASE pc[u] = "send" /\ Return(u, FALSE, <<>>) /\ Unlock
    <3>1. /\ ProgramInv' /\ StateInv' /\ pc'[u] \in {"call", "frame", "done"}
          /\ \A v \in Users : v # u => pc'[v] = pc[v]
      BY <2>3, ReturnControl
    <3> QED BY <2>1, <2>3, <3>1, GivesLock, KeepsOpen DEF ControlInv
  <2> QED BY <1>6, <2>2, <2>3 DEF ReopenFails
<1>7. CASE TcpFlushIn(u) \/ Send(u)
  <2>1. PICK q \in {"send", "header"} :
          /\ pc[u] \in Holding /\ pc' = [pc EXCEPT ![u] = q]
          /\ UNCHANGED <<opener, m_bLidarConnected, opened, hung, program, next, _mutex>>
          /\ UNCHANGED <<correction, main>>
    BY <1>7 DEF TcpFlushIn, Send, client, socket, lidar
  <2>2. ProgramInv' /\ pc'[u] = q /\ \A v \in Users : v # u => pc'[v] = pc[v]
    BY <2>1, GoesControl
  <2> QED BY <1>1, <2>1, <2>2, KeepsLock, KeepsOpen DEF ControlInv, StateInv
<1>8. ASSUME NEW ok \in BOOLEAN, NEW body, pc[u] \in Holding, Return(u, ok, body), Unlock,
             UNCHANGED <<opener, opened, hung>>, m_bLidarConnected' => m_bLidarConnected
      PROVE  ControlInv'
  <2>1. /\ ProgramInv' /\ StateInv' /\ pc'[u] \in {"call", "frame", "done"}
        /\ \A v \in Users : v # u => pc'[v] = pc[v]
    BY <1>8, ReturnControl
  <2> QED BY <1>8, <2>1, GivesLock, KeepsOpen DEF ControlInv
<1>9. CASE SendFails(u) \/ TimeOut(u) \/ HangUp(u)
  <2>1. /\ pc[u] \in Holding /\ Unlock /\ UNCHANGED <<opener, opened, hung>>
        /\ \E ok \in BOOLEAN : Return(u, ok, <<>>)
    BY <1>9 DEF SendFails, TimeOut, HangUp, Close, client, socket
  <2>2. m_bLidarConnected' => m_bLidarConnected
    <3>1. CASE SendFails(u) \/ HangUp(u)
      BY <3>1 DEF SendFails, HangUp, Close
    <3>2. CASE TimeOut(u)
      BY <3>2 DEF TimeOut, socket
    <3> QED BY <1>9, <3>1, <3>2
  <2> QED BY <1>8, <2>1, <2>2
<1>10. ASSUME pc[u] \in Receiving, UNCHANGED <<program, next, _mutex, lidar>>, UNCHANGED client,
              UNCHANGED <<m_bLidarConnected, opened, hung>>,
              UNCHANGED pc \/ pc' = [pc EXCEPT ![u] = "body"]
       PROVE  ControlInv'
  <2>1. CASE UNCHANGED pc
    BY <1>1, <1>10, <2>1
    DEF ControlInv, ProgramInv, LockInv, OpenInv, Unused, StateInv, client, lidar
  <2>2. CASE pc' = [pc EXCEPT ![u] = "body"]
    <3>1. ProgramInv' /\ pc'[u] = "body" /\ \A v \in Users : v # u => pc'[v] = pc[v]
      BY <1>10, <2>2, GoesControl DEF Receiving
    <3>2. pc[u] \in Holding
      BY <1>10 DEF Receiving
    <3> QED BY <1>1, <1>10, <3>1, <3>2, KeepsLock, KeepsOpen
            DEF ControlInv, StateInv, client, lidar
  <2> QED BY <1>10, <2>1, <2>2
<1>11. CASE ReceiveHeader(u)
  <2>1. /\ pc[u] \in Receiving /\ UNCHANGED client
        /\ UNCHANGED <<m_bLidarConnected, opened, hung>>
        /\ \/ \E ok \in BOOLEAN : Return(u, ok, <<>>) /\ Unlock
           \/ /\ UNCHANGED <<program, next, _mutex, lidar>>
              /\ UNCHANGED pc \/ pc' = [pc EXCEPT ![u] = "body"]
    BY <1>11 DEF ReceiveHeader, Took, Receiving
  <2> QED BY <1>8, <1>10, <2>1 DEF client, Receiving
<1>12. CASE ReceiveBody(u)
  <2>1. /\ pc[u] \in Receiving /\ UNCHANGED client
        /\ UNCHANGED <<m_bLidarConnected, opened, hung>>
        /\ \/ \E body : Return(u, TRUE, body) /\ Unlock
           \/ UNCHANGED <<program, next, _mutex, lidar>> /\ UNCHANGED pc
    BY <1>12 DEF ReceiveBody, Took, Receiving
  <2>2. ASSUME NEW ok \in BOOLEAN, NEW body, Return(u, ok, body), Unlock PROVE ControlInv'
    BY <1>8, <2>1, <2>2 DEF client, Receiving
  <2> QED BY <1>10, <2>1, <2>2
<1> QED BY <1>2, <1>3, <1>4, <1>5, <1>6, <1>7, <1>9, <1>11, <1>12 DEF QueryStep

\* One step: the connection, and the places of the threads.
LEMMA ControlStep ==
  ASSUME PtcAssumption, ControlInv, [Next]_vars
  PROVE  ControlInv'
<1>1. /\ ProgramInv /\ LockInv /\ OpenInv /\ StateInv
  BY DEF ControlInv
<1>2. ASSUME UNCHANGED <<user, _mutex, correction, main>>, OpenInv'
      PROVE  ControlInv'
  BY <1>1, <1>2 DEF ControlInv, ProgramInv, LockInv, StateInv, user
<1>3. CASE OpenerStep
  <2>1. UNCHANGED <<user, _mutex, correction, main>> /\ UNCHANGED pc
    BY <1>3 DEF OpenerStep, OpenerHasAddress, OpenerConnects, OpenerGivesUp, SetTimeout, lidar,
                user
  <2>2. CASE OpenerConnects
    <3>1. opened' = 1 /\ opener' = "set timeout" /\ hung' = hung
      <4>1. opened = 0 /\ opened' = opened + 1
        BY <1>1, <2>2 DEF OpenerConnects, Connect, OpenInv, Unused
      <4>2. opener' = "set timeout" /\ hung' = hung
        BY <2>2 DEF OpenerConnects, Connect
      <4>3. 0 + 1 = 1
        OBVIOUS
      <4> QED BY <4>1, <4>2, <4>3, Zenon
    <3>2. opened' \in 0 .. MaxReopened + 1 /\ hung' \in 0 .. MaxBroken
      <4>1. hung \in 0 .. MaxBroken /\ MaxReopened \in Nat
        BY <1>1 DEF OpenInv, PtcAssumption
      <4>2. 1 \in 0 .. MaxReopened + 1
        BY <4>1
      <4> QED BY <3>1, <4>1, <4>2
    <3>3. ~Unused'
      BY <3>1 DEF Unused
    <3> QED BY <1>2, <2>1, <3>1, <3>2, <3>3 DEF OpenInv
  <2>3. CASE OpenerHasAddress \/ OpenerGivesUp \/ SetTimeout
    <3>1. /\ UNCHANGED <<m_bLidarConnected, opened, hung>> /\ (Unused' => Unused)
          /\ opener' \in {"connect", "exited"}
      BY <2>3 DEF OpenerHasAddress, OpenerGivesUp, SetTimeout, socket, Unused
    <3> QED BY <1>1, <1>2, <2>1, <3>1 DEF OpenInv
  <2> QED BY <1>3, <2>2, <2>3 DEF OpenerStep
<1>4. CASE MainStep \/ Stop
  <2>1. /\ UNCHANGED <<user, _mutex, correction>> /\ UNCHANGED <<pc, opener, opened, hung>>
        /\ main' \in {"join run", "join set", "join opener", "deleted"}
    BY <1>4 DEF MainStep, Stop, JoinRun, JoinSet, JoinOpener, Close, client, socket, user
  <2>2. m_bLidarConnected' => m_bLidarConnected
    <3>1. CASE JoinOpener
      BY <3>1 DEF JoinOpener, Close
    <3>2. CASE Stop \/ JoinRun \/ JoinSet
      BY <3>2 DEF Stop, JoinRun, JoinSet, socket
    <3> QED BY <1>4, <3>1, <3>2 DEF MainStep
  <2>3. OpenInv'
    BY <1>1, <2>1, <2>2 DEF OpenInv, Unused
  <2> QED BY <1>1, <2>1, <2>3 DEF ControlInv, ProgramInv, LockInv, StateInv, user
<1>5. CASE Answers \/ Breaks
  <2>1. /\ UNCHANGED <<user, _mutex, correction, main>>
        /\ UNCHANGED <<pc, opener, m_bLidarConnected, opened>>
    BY <1>5 DEF Answers, Breaks, user, client, lidar
  <2>2. hung' \in 0 .. MaxBroken
    <3>1. hung \in 0 .. MaxBroken /\ MaxBroken \in Nat
      BY <1>1 DEF OpenInv, PtcAssumption
    <3>2. CASE Answers
      BY <3>1, <3>2 DEF Answers
    <3>3. CASE Breaks
      BY <3>1, <3>3 DEF Breaks
    <3> QED BY <1>5, <3>2, <3>3
  <2>3. OpenInv'
    BY <1>1, <2>1, <2>2 DEF OpenInv, Unused
  <2> QED BY <1>2, <2>1, <2>3
<1>6. ASSUME NEW u \in Users, NEW q \in {"await", "call", "test", "sleep"},
             pc[u] \in {"packets", "await", "test", "sleep", "frame"},
             pc' = [pc EXCEPT ![u] = q] \/ pc' = [pc EXCEPT ![u] = "done"],
             UNCHANGED <<program, next, _mutex, socket, opener, lidar>>
      PROVE  ControlInv'
  <2>1. /\ ProgramInv' /\ pc'[u] \notin Holding \cup {"lock"}
        /\ \A v \in Users : v # u => pc'[v] = pc[v]
    <3>1. CASE pc' = [pc EXCEPT ![u] = q]
      BY <1>6, <3>1, GoesControl DEF Places, Holding
    <3>2. CASE pc' = [pc EXCEPT ![u] = "done"]
      BY <1>6, <3>2, DoneControl DEF Holding
    <3> QED BY <1>6, <3>1, <3>2
  <2>2. pc[u] \notin Holding
    BY <1>6 DEF Holding
  <2>3. LockInv'
    BY <1>6, <2>1, <2>2, KeepsLock
  <2>4. OpenInv'
    BY <1>6, <2>1, KeepsOpen DEF socket
  <2> QED BY <1>1, <1>6, <2>1, <2>3, <2>4 DEF ControlInv, StateInv, lidar
<1>7. CASE FirstPacket \/ RunFrame
  <2>1. PICK u \in Users, q \in {"await", "call", "test", "sleep"} :
          /\ pc[u] \in {"packets", "await", "test", "sleep", "frame"}
          /\ pc' = [pc EXCEPT ![u] = q]
    BY <1>7 DEF FirstPacket, RunFrame, Users
  <2>2. UNCHANGED <<program, next, _mutex, socket, opener, lidar>>
    BY <1>7 DEF FirstPacket, RunFrame, client
  <2> QED BY <1>6, <2>1, <2>2
<1>8. CASE NoPacket \/ Awaited \/ SetTest \/ SetLook \/ RunExit
  <2>1. PICK u \in Users, q \in {"await", "call", "test", "sleep"} :
          /\ pc[u] \in {"packets", "await", "test", "sleep", "frame"}
          /\ pc' = [pc EXCEPT ![u] = q] \/ pc' = [pc EXCEPT ![u] = "done"]
    <3>1. CASE SetTest
      <4>1. pc["set"] = "test"
            /\ (pc' = [pc EXCEPT !["set"] = "sleep"] \/ pc' = [pc EXCEPT !["set"] = "done"])
        BY <3>1 DEF SetTest
      <4> QED BY <4>1 DEF Users
    <3>2. CASE SetLook
      <4>1. pc["set"] = "sleep"
            /\ (pc' = [pc EXCEPT !["set"] = "call"] \/ pc' = [pc EXCEPT !["set"] = "test"])
        BY <3>2 DEF SetLook
      <4> QED BY <4>1 DEF Users
    <3>3. CASE NoPacket \/ Awaited \/ RunExit
      BY <3>3 DEF NoPacket, Awaited, RunExit, Users
    <3> QED BY <1>8, <3>1, <3>2, <3>3
  <2>2. UNCHANGED <<program, next, _mutex, socket, opener, lidar>>
    BY <1>8 DEF NoPacket, Awaited, SetTest, SetLook, RunExit, client
  <2> QED BY <1>6, <2>1, <2>2
<1>9. CASE UNCHANGED vars
  BY <1>1, <1>2, <1>9 DEF vars, client, socket, user, lidar, OpenInv, Unused
<1> QED BY <1>3, <1>4, <1>5, <1>7, <1>8, <1>9, QueryControl DEF Next, UserStep

-----------------------------------------------------------------------------
\* What is on its way: orders of the programs p, parts of answers to them; only
\* what the lidar has carried out, e, is answered without an error.
OrderSet == [u : Users, i : Nat, cmd : Commands]
Issued(o, p) == o \in OrderSet /\ o.i \in 1 .. Len(p[o.u]) /\ o.cmd = p[o.u][o.i]

Tokens == [k : 1 .. 5, order : OrderSet, return_code : {0, 1}]
Size(t) == HeaderSize + (IF t.return_code = 0 THEN Payload(t.order.cmd) ELSE 0)
Sound(t, p, e) ==
  t.k <= Size(t) /\ Issued(t.order, p) /\ (t.return_code = 0 => t.order \in e)

\* Flow: one answer after the other, each in order; Ends: the last is whole.
Follows(t, s) ==
  IF t.k < Size(t)
    THEN s.order = t.order /\ s.return_code = t.return_code /\ s.k = t.k + 1
    ELSE s.k = 1
Flow(s, p, e) ==
  /\ s \in Seq(Tokens)
  /\ \A i \in 1 .. Len(s) : Sound(s[i], p, e)
  /\ \A i \in 1 .. Len(s) - 1 : Follows(s[i], s[i + 1])
Ends(s) == Len(s) > 0 => s[Len(s)].k = Size(s[Len(s)])

\* The end of a flow is a flow.
LEMMA FlowTail ==
  ASSUME NEW p, NEW e, NEW s, Flow(s, p, e), NEW t \in Seq(Tokens), NEW j \in Nat,
         Len(s) = Len(t) + j, \A i \in 1 .. Len(t) : t[i] = s[i + j]
  PROVE  Flow(t, p, e) /\ (Ends(s) => Ends(t))
<1>1. s \in Seq(Tokens) /\ Len(s) \in Nat /\ Len(t) \in Nat
  BY DEF Flow
<1>2. \A i \in 1 .. Len(t) : Sound(t[i], p, e)
  BY <1>1 DEF Flow
<1>3. \A i \in 1 .. Len(t) - 1 : Follows(t[i], t[i + 1])
  <2> SUFFICES ASSUME NEW i \in 1 .. Len(t) - 1 PROVE Follows(t[i], t[i + 1])
    OBVIOUS
  <2>1. t[i] = s[i + j] /\ t[i + 1] = s[(i + j) + 1] /\ i + j \in 1 .. Len(s) - 1
    <3>1. (i + 1) + j = (i + j) + 1 /\ i \in 1 .. Len(t) /\ i + 1 \in 1 .. Len(t)
      BY <1>1
    <3>2. i + j \in 1 .. Len(s) - 1
      BY <1>1
    <3> QED BY <3>1, <3>2
  <2> QED BY <2>1 DEF Flow
<1>4. Ends(s) => Ends(t)
  <2> SUFFICES ASSUME Ends(s), Len(t) > 0 PROVE t[Len(t)].k = Size(t[Len(t)])
    BY DEF Ends
  <2>1. t[Len(t)] = s[Len(s)] /\ Len(s) > 0
    BY <1>1
  <2> QED BY <2>1 DEF Ends
<1> QED BY <1>2, <1>3, <1>4 DEF Flow

\* So is its beginning.
LEMMA FlowHead ==
  ASSUME NEW p, NEW e, NEW s, Flow(s, p, e), NEW t \in Seq(Tokens), Len(t) <= Len(s),
         \A i \in 1 .. Len(t) : t[i] = s[i]
  PROVE  Flow(t, p, e)
<1>1. s \in Seq(Tokens) /\ Len(s) \in Nat /\ Len(t) \in Nat
  BY DEF Flow
<1> QED BY <1>1 DEF Flow

\* What has been carried out stays so.
LEMMA FlowGrows ==
  ASSUME NEW p, NEW e, NEW f, e \subseteq f, NEW s, Flow(s, p, e)
  PROVE  Flow(s, p, f)
BY DEF Flow, Sound

\* One more answer.
LEMMA PayloadIs == \A cmd : Payload(cmd) \in {0, 2} /\ (Payload(cmd) = 0 <=> cmd \in Setting)
BY DEF Payload

LEMMA AnswerFlows ==
  ASSUME NEW p, NEW e, NEW o, Issued(o, p), NEW c \in {0, 1}, c = 0 => o \in e
  PROVE  /\ Flow(Answer(o, c), p, e) /\ Ends(Answer(o, c))
         /\ Len(Answer(o, c)) >= 3 /\ Answer(o, c)[1].k = 1
<1> DEFINE n == HeaderSize + (IF c = 0 THEN Payload(o.cmd) ELSE 0)
           a == Answer(o, c)
<1>1. n \in 3 .. 5 /\ o \in OrderSet
  BY PayloadIs DEF HeaderSize, Issued
<1>2. a = [k \in 1 .. n |-> Token(k, o, c)]
  BY DEF Answer
<1>3. \A k \in 1 .. n : /\ a[k] = Token(k, o, c) /\ a[k] \in Tokens
                        /\ a[k].k = k /\ a[k].order = o /\ a[k].return_code = c
                        /\ Size(a[k]) = n
  BY <1>1, <1>2 DEF Token, Tokens, Size
<1> HIDE DEF n
<1>4. a \in Seq(Tokens) /\ Len(a) = n
  <2>1. a \in [1 .. n -> Tokens]
    BY <1>2, <1>3
  <2> HIDE DEF a
  <2> QED BY <1>1, <2>1
<1> HIDE DEF a
<1>5. \A i \in 1 .. Len(a) : Sound(a[i], p, e)
  BY <1>1, <1>3, <1>4 DEF Sound
<1>6. \A i \in 1 .. Len(a) - 1 : Follows(a[i], a[i + 1])
  BY <1>1, <1>3, <1>4 DEF Follows
<1> QED BY <1>1, <1>3, <1>4, <1>5, <1>6 DEF Flow, Ends, a

LEMMA FlowJoins ==
  ASSUME NEW p, NEW e, NEW s, Flow(s, p, e), Ends(s), NEW t, Flow(t, p, e), Ends(t),
         Len(t) > 0, t[1].k = 1
  PROVE  Flow(s \o t, p, e) /\ Ends(s \o t)
<1>1. /\ s \in Seq(Tokens) /\ Len(s) \in Nat /\ t \in Seq(Tokens) /\ Len(t) \in Nat
      /\ s \o t \in Seq(Tokens) /\ Len(s \o t) = Len(s) + Len(t)
      /\ \A i \in 1 .. Len(s) + Len(t) :
           (s \o t)[i] = IF i <= Len(s) THEN s[i] ELSE t[i - Len(s)]
  BY DEF Flow
<1> DEFINE w == s \o t
<1> HIDE DEF w
<1>2. \A i \in 1 .. Len(w) : Sound(w[i], p, e)
  BY <1>1 DEF Flow, w
<1>3. \A i \in 1 .. Len(w) - 1 : Follows(w[i], w[i + 1])
  <2> SUFFICES ASSUME NEW i \in 1 .. Len(w) - 1 PROVE Follows(w[i], w[i + 1])
    OBVIOUS
  <2>1. CASE i < Len(s)
    <3>1. w[i] = s[i] /\ w[i + 1] = s[i + 1] /\ i \in 1 .. Len(s) - 1
      BY <1>1, <2>1 DEF w
    <3> QED BY <3>1 DEF Flow
  <2>2. CASE i = Len(s)
    <3>1. w[i] = s[Len(s)] /\ w[i + 1] = t[1] /\ Len(s) > 0
      BY <1>1, <2>2 DEF w
    <3>2. s[Len(s)].k = Size(s[Len(s)]) /\ Size(s[Len(s)]) \in Int
      BY <3>1, PayloadIs DEF Ends, Size, HeaderSize
    <3> QED BY <3>1, <3>2 DEF Follows
  <2>3. CASE i > Len(s)
    <3>1. w[i] = t[i - Len(s)] /\ w[i + 1] = t[(i - Len(s)) + 1]
          /\ i - Len(s) \in 1 .. Len(t) - 1
      BY <1>1, <2>3 DEF w
    <3> QED BY <3>1 DEF Flow
  <2> QED BY <1>1, <2>1, <2>2, <2>3
<1>4. w[Len(w)] = t[Len(t)]
  BY <1>1 DEF w
<1> QED BY <1>1, <1>2, <1>3, <1>4 DEF Flow, Ends, w

\* A flow without its first part is a flow.
LEMMA FlowDrops ==
  ASSUME NEW p, NEW e, NEW t \in Seq(Tokens), NEW s \in Seq(Tokens), Flow(t \o s, p, e)
  PROVE  Flow(s, p, e) /\ (Ends(t \o s) => Ends(s))
<1> DEFINE w == t \o s
<1>1. /\ w \in Seq(Tokens) /\ Len(t) \in Nat /\ Len(s) \in Nat /\ Len(w) = Len(s) + Len(t)
      /\ \A i \in 1 .. Len(s) : s[i] = w[i + Len(t)]
  <2>1. /\ w \in Seq(Tokens) /\ Len(w) = Len(t) + Len(s)
        /\ \A i \in 1 .. Len(t) + Len(s) : w[i] = IF i <= Len(t) THEN t[i] ELSE s[i - Len(t)]
    BY ConcatProperties
  <2> HIDE DEF w
  <2>2. ASSUME NEW i \in 1 .. Len(s) PROVE s[i] = w[i + Len(t)]
    <3>1. i + Len(t) \in 1 .. Len(t) + Len(s) /\ ~(i + Len(t) <= Len(t))
          /\ (i + Len(t)) - Len(t) = i
      OBVIOUS
    <3> QED BY <2>1, <3>1
  <2> QED BY <2>1, <2>2
<1> HIDE DEF w
<1> QED BY <1>1, FlowTail DEF w

\* What recv takes from the stream and what it leaves there.
LEMMA Taken ==
  ASSUME NEW s \in Seq(Tokens), NEW n \in 1 .. Len(s)
  PROVE  LET chunk == SubSeq(s, 1, n)
             rest  == SubSeq(s, n + 1, Len(s))
         IN  /\ chunk \in Seq(Tokens) /\ Len(chunk) = n /\ rest \in Seq(Tokens)
             /\ chunk \o rest = s
             /\ \A i \in 1 .. n : chunk[i] = s[i]
<1>1. Len(s) \in Nat /\ \A i \in 1 .. Len(s) : s[i] \in Tokens
  OBVIOUS
<1>2. /\ SubSeq(s, 1, n) \in Seq(Tokens)
      /\ Len(SubSeq(s, 1, n)) = n
      /\ \A i \in 1 .. n : SubSeq(s, 1, n)[i] = s[i]
  BY <1>1, SubSeqProperties
<1>3. SubSeq(s, n + 1, Len(s)) \in Seq(Tokens)
  BY <1>1, SubSeqProperties
<1>4. SubSeq(s, 1, n) \o SubSeq(s, n + 1, Len(s)) = SubSeq(s, 1, Len(s))
  BY <1>1, ConcatAdjacentSubSeq
<1> QED BY <1>2, <1>3, <1>4, SubSeqFull

\* HeaderIn finds the first identifiers of a chunk, and keeps what follows them.
LEMMA HeaderFound ==
  ASSUME NEW c \in Seq(Tokens), Len(c) \in 1 .. 3
  PROVE  \/ HeaderIn(c) = <<>>
         \/ \E i \in 1 .. Len(c) - 1 : /\ HeaderIn(c) = SubSeq(c, i, Len(c))
                                       /\ c[i].k = 1
<1> DEFINE at == {i \in 1 .. Len(c) - 1 : c[i].k = 1 /\ c[i + 1].k = 2}
<1>1. CASE at = {}
  BY <1>1 DEF HeaderIn
<1>2. CASE at # {}
  <2>1. \E i \in at : \A j \in at : i <= j
    <3>1. at \subseteq {1, 2}
      OBVIOUS
    <3> HIDE DEF at
    <3>2. CASE 1 \in at
      BY <3>1, <3>2
    <3>3. CASE 1 \notin at
      <4>1. 2 \in at /\ \A j \in at : j = 2
        BY <1>2, <3>1, <3>3
      <4> QED BY <4>1
    <3> QED BY <3>2, <3>3
  <2> DEFINE first == CHOOSE i \in at : \A j \in at : i <= j
  <2>2. first \in at
    <3> HIDE DEF at
    <3> QED BY <2>1
  <2>3. HeaderIn(c) = SubSeq(c, first, Len(c))
    BY <1>2 DEF HeaderIn
  <2> HIDE DEF first
  <2> QED BY <2>2, <2>3
<1> QED BY <1>1, <1>2

\* The first tokens of a flow that starts with an answer: one header, and, if it
\* says so, one payload.
LEMMA FlowStarts ==
  ASSUME NEW p, NEW e, NEW s, Flow(s, p, e), Len(s) >= HeaderSize, s[1].k = 1
  PROVE  /\ \A i \in 1 .. HeaderSize : /\ s[i].k = i /\ s[i].order = s[HeaderSize].order
                                       /\ s[i].return_code = s[HeaderSize].return_code
         /\ Issued(s[HeaderSize].order, p)
         /\ s[HeaderSize].return_code = 0 => s[HeaderSize].order \in e
<1> USE DEF HeaderSize
<1>1. Len(s) \in Nat /\ \A i \in 1 .. 3 : s[i] \in Tokens /\ Sound(s[i], p, e) /\ Size(s[i]) \in 3 .. 5
  BY PayloadIs DEF Flow, Size
<1>2. Follows(s[1], s[2]) /\ Follows(s[2], s[3])
  <2>1. 1 \in 1 .. Len(s) - 1 /\ 2 \in 1 .. Len(s) - 1 /\ 1 + 1 = 2 /\ 2 + 1 = 3
    BY <1>1
  <2> QED BY <2>1 DEF Flow
<1>3. s[2].k = 2 /\ s[2].order = s[1].order /\ s[2].return_code = s[1].return_code
  BY <1>1, <1>2 DEF Follows
<1>4. s[3].k = 3 /\ s[3].order = s[2].order /\ s[3].return_code = s[2].return_code
  BY <1>1, <1>2, <1>3 DEF Follows
<1> QED BY <1>1, <1>3, <1>4 DEF Sound

LEMMA FlowGoesOn ==
  ASSUME NEW p, NEW e, NEW s, Flow(s, p, e), Len(s) >= HeaderSize + 2, s[1].k = 1,
         s[HeaderSize].return_code = 0, Payload(s[HeaderSize].order.cmd) = 2
  PROVE  \A i \in 4 .. 5 : s[i] = Token(i, s[HeaderSize].order, 0)
<1> USE DEF HeaderSize
<1>1. Len(s) \in Nat /\ \A i \in 1 .. 5 : s[i] \in Tokens
  BY DEF Flow
<1>2. s[3].k = 3 /\ Size(s[3]) = 5
  BY FlowStarts DEF Size
<1>3. Follows(s[3], s[4]) /\ Follows(s[4], s[5])
  <2>1. 3 \in 1 .. Len(s) - 1 /\ 4 \in 1 .. Len(s) - 1 /\ 3 + 1 = 4 /\ 4 + 1 = 5
    BY <1>1
  <2> QED BY <2>1 DEF Flow
<1>4. s[4].k = 4 /\ s[4].order = s[3].order /\ s[4].return_code = 0
  BY <1>2, <1>3 DEF Follows
<1>5. s[5].k = 5 /\ s[5].order = s[3].order /\ s[5].return_code = 0
  BY <1>2, <1>3, <1>4 DEF Follows, Size
<1> QED BY <1>1, <1>4, <1>5 DEF Token, Tokens

\* What is joined.
LEMMA JoinedIs ==
  \A s, t \in Seq(Tokens) :
    /\ s \o t \in Seq(Tokens) /\ Len(s \o t) = Len(s) + Len(t)
    /\ \A i \in 1 .. Len(s) : (s \o t)[i] = s[i]
<1> SUFFICES ASSUME NEW s \in Seq(Tokens), NEW t \in Seq(Tokens)
             PROVE  /\ s \o t \in Seq(Tokens) /\ Len(s \o t) = Len(s) + Len(t)
                    /\ \A i \in 1 .. Len(s) : (s \o t)[i] = s[i]
  OBVIOUS
<1>1. /\ s \o t \in Seq(Tokens) /\ Len(s \o t) = Len(s) + Len(t)
      /\ \A i \in 1 .. Len(s) + Len(t) :
           (s \o t)[i] = IF i <= Len(s) THEN s[i] ELSE t[i - Len(s)]
  BY ConcatProperties
<1>2. \A i \in 1 .. Len(s) : i \in 1 .. Len(s) + Len(t) /\ i <= Len(s)
  OBVIOUS
<1> QED BY <1>1, <1>2

LEMMA JoinedTwice ==
  \A s, t, u \in Seq(Tokens) : (s \o t) \o u = s \o (t \o u)
BY ConcatAssociative

LEMMA JoinedNothing ==
  /\ \A s \in Seq(Tokens) : /\ s \o <<>> = s /\ <<>> \o s = s /\ Len(s) \in Nat
                             /\ (Len(s) = 0 <=> s = <<>>)
  /\ <<>> \in Seq(Tokens)
BY ConcatEmptySeq, EmptySeq

\* What a thread has of the header after a recv, and what is still to come.
LEMMA HeaderRead ==
  ASSUME NEW p, NEW e, NEW found \in Seq(Tokens), Len(found) \in {0, 2},
         Len(found) = 2 => found[1].k = 1,
         NEW s \in Seq(Tokens), Flow(found \o s, p, e),
         NEW n \in 1 .. Len(s), n <= HeaderSize - Len(found)
  PROVE  LET chunk == SubSeq(s, 1, n)
             rest  == SubSeq(s, n + 1, Len(s))
             got   == IF found = <<>> THEN HeaderIn(chunk) ELSE found \o chunk
         IN  /\ got \in Seq(Tokens) /\ Len(got) \in {0, 2, 3} /\ rest \in Seq(Tokens)
             /\ Len(got) > 0 => got[1].k = 1
             /\ Flow(got \o rest, p, e) /\ (Ends(found \o s) => Ends(got \o rest))
<1> DEFINE chunk == SubSeq(s, 1, n)
           rest  == SubSeq(s, n + 1, Len(s))
           got   == IF found = <<>> THEN HeaderIn(chunk) ELSE found \o chunk
<1>1. /\ chunk \in Seq(Tokens) /\ Len(chunk) = n /\ rest \in Seq(Tokens) /\ chunk \o rest = s
      /\ \A i \in 1 .. n : chunk[i] \in Tokens
  BY Taken
<1>2. n \in 1 .. 3 /\ Len(found) \in Nat
  BY DEF HeaderSize
<1> HIDE DEF chunk, rest
<1>3. CASE found # <<>>
  <2>1. got = found \o chunk
    BY <1>3
  <2> HIDE DEF got
  <2>4. Len(found) = 2 /\ n = 1
    <3>1. Len(found) # 0
      BY <1>3, JoinedNothing
    <3>2. Len(found) = 2
      BY <3>1
    <3> QED BY <1>2, <3>2 DEF HeaderSize
  <2>2. got \in Seq(Tokens) /\ Len(got) = 3 /\ got[1] = found[1]
    <3>1. 1 \in 1 .. Len(found)
      BY <2>4
    <3>2. got \in Seq(Tokens) /\ Len(got) = Len(found) + Len(chunk)
      BY <1>1, <2>1, JoinedIs
    <3>3. got[1] = found[1]
      BY <1>1, <2>1, <3>1, JoinedIs
    <3> QED BY <1>1, <2>4, <3>2, <3>3
  <2>3. got \o rest = found \o s
    BY <1>1, <2>1, JoinedTwice, Zenon
  <2>5. /\ got \in Seq(Tokens) /\ Len(got) \in {0, 2, 3} /\ (Len(got) > 0 => got[1].k = 1)
        /\ Flow(got \o rest, p, e) /\ (Ends(found \o s) => Ends(got \o rest))
    BY <2>2, <2>3, <2>4
  <2> QED BY <1>1, <2>5 DEF chunk, rest, got
<1>4. CASE found = <<>> /\ HeaderIn(chunk) = <<>>
  <2>1. got = <<>> /\ got \o rest = rest /\ found \o s = chunk \o rest
    BY <1>1, <1>4, JoinedNothing
  <2>2. Flow(rest, p, e) /\ (Ends(chunk \o rest) => Ends(rest))
    BY <1>1, <2>1, FlowDrops
  <2>3. got \in Seq(Tokens) /\ Len(got) = 0
    BY <2>1, JoinedNothing
  <2> HIDE DEF got
  <2>4. /\ got \in Seq(Tokens) /\ Len(got) \in {0, 2, 3} /\ (Len(got) > 0 => got[1].k = 1)
        /\ Flow(got \o rest, p, e) /\ (Ends(found \o s) => Ends(got \o rest))
    BY <2>1, <2>2, <2>3
  <2> QED BY <1>1, <2>4 DEF chunk, rest, got
<1>5. CASE found = <<>> /\ HeaderIn(chunk) # <<>>
  <2>1. PICK i \in 1 .. n - 1 : HeaderIn(chunk) = SubSeq(chunk, i, n) /\ chunk[i].k = 1
    BY <1>1, <1>2, <1>5, HeaderFound
  <2>2. got = SubSeq(chunk, i, n) /\ i \in 1 .. 2 /\ n \in Int /\ i <= n
    BY <1>2, <1>5, <2>1
  <2> DEFINE front == SubSeq(chunk, 1, i - 1)
  <2>3. front \in Seq(Tokens) /\ front \o got = chunk
    <3>1. SubSeq(chunk, 1, i - 1) \o SubSeq(chunk, (i - 1) + 1, n) = SubSeq(chunk, 1, n)
      BY <1>1, <1>2, <2>1, ConcatAdjacentSubSeq
    <3>2. SubSeq(chunk, 1, n) = chunk /\ (i - 1) + 1 = i
      BY <1>1, <2>2, SubSeqFull
    <3>3. front \in Seq(Tokens)
      BY <1>1, <1>2, <2>1, SubSeqProperties
    <3> QED BY <2>2, <3>1, <3>2, <3>3
  <2>4. got \in Seq(Tokens) /\ Len(got) = n - i + 1 /\ got[1] = chunk[i]
    <3>1. /\ SubSeq(chunk, i, n) \in Seq(Tokens)
          /\ Len(SubSeq(chunk, i, n)) = n - i + 1
          /\ \A j \in 1 .. n - i + 1 : SubSeq(chunk, i, n)[j] = chunk[i + j - 1]
      BY <1>1, <2>2, SubSeqProperties
    <3>2. 1 \in 1 .. n - i + 1 /\ i + 1 - 1 = i
      BY <1>2, <2>2
    <3> QED BY <2>2, <3>1, <3>2
  <2> HIDE DEF got, front
  <2>5. found \o s = front \o (got \o rest)
    <3>1. found \o s = s
      BY <1>5, JoinedNothing
    <3>2. (front \o got) \o rest = front \o (got \o rest)
      <4>1. front \in Seq(Tokens) /\ got \in Seq(Tokens) /\ rest \in Seq(Tokens)
        BY <1>1, <2>3, <2>4
      <4> QED BY <4>1, JoinedTwice, Zenon
    <3> QED BY <1>1, <2>3, <3>1, <3>2
  <2>6. Flow(got \o rest, p, e) /\ (Ends(found \o s) => Ends(got \o rest))
    BY <1>1, <2>3, <2>4, <2>5, FlowDrops, JoinedIs
  <2>7. Len(got) \in {2, 3}
    BY <1>2, <2>1, <2>2, <2>4
  <2> QED BY <1>1, <2>1, <2>4, <2>6, <2>7 DEF chunk, rest, got
<1> QED BY <1>3, <1>4, <1>5

\* The same of the payload.
LEMMA BodyRead ==
  \A b, s \in Seq(Tokens) : \A n \in 1 .. Len(s) :
    /\ b \o SubSeq(s, 1, n) \in Seq(Tokens) /\ Len(b \o SubSeq(s, 1, n)) = Len(b) + n
    /\ SubSeq(s, n + 1, Len(s)) \in Seq(Tokens)
BY Taken, JoinedIs

LEMMA BodyJoins ==
  \A f, b, s \in Seq(Tokens) : \A n \in 1 .. Len(s) :
    (f \o (b \o SubSeq(s, 1, n))) \o SubSeq(s, n + 1, Len(s)) = (f \o b) \o s
<1> TAKE f, b, s \in Seq(Tokens)
<1> TAKE n \in 1 .. Len(s)
<1> DEFINE chunk == SubSeq(s, 1, n)
           rest  == SubSeq(s, n + 1, Len(s))
<1>1. chunk \in Seq(Tokens) /\ Len(chunk) = n /\ rest \in Seq(Tokens) /\ chunk \o rest = s
  BY Taken
<1> HIDE DEF chunk, rest
<1>3. f \o (b \o chunk) = (f \o b) \o chunk
  BY <1>1, JoinedTwice, Zenon
<1>4. f \o b \in Seq(Tokens)
  BY JoinedIs
<1>5. ((f \o b) \o chunk) \o rest = (f \o b) \o (chunk \o rest)
  BY <1>1, <1>4, JoinedTwice, Zenon
<1>6. (f \o (b \o chunk)) \o rest = (f \o b) \o s
  BY <1>1, <1>3, <1>5
<1> QED BY <1>6 DEF chunk, rest

-----------------------------------------------------------------------------
\* LineInv: the stream holds answers, of which the first may have lost its
\* beginning, and, unless the lidar has hung up, the last is whole.
IsLine(s) == Flow(s, program, executed) /\ (Ends(s) \/ broken)
LineInv ==
  /\ stream \in Seq(Tokens) /\ IsLine(stream)
  /\ orders \in Seq(OrderSet) /\ \A i \in 1 .. Len(orders) : Issued(orders[i], program)
  /\ \A o \in executed : Issued(o, program)

\* HeaderInv, BodyInv: what a thread has read of its answer is what comes before
\* the stream.
HeaderInv(u) ==
  /\ rx[u].body = <<>> /\ Len(rx[u].found) \in {0, 2}
  /\ rx[u].nLeft = HeaderSize - Len(rx[u].found)
  /\ Len(rx[u].found) = 2 => rx[u].found[1].k = 1
  /\ IsLine(rx[u].found \o stream)
BodyInv(u) ==
  /\ Len(rx[u].found) = HeaderSize /\ rx[u].found[1].k = 1
  /\ rx[u].found[HeaderSize].return_code = 0
  /\ rx[u].found[HeaderSize].order.cmd = program[u][next[u]]
  /\ Payload(program[u][next[u]]) = 2
  /\ rx[u].nLeft \in 1 .. 2 /\ Len(rx[u].body) = 2 - rx[u].nLeft
  /\ IsLine((rx[u].found \o rx[u].body) \o stream)
RxInv(u) ==
  pc[u] \in Receiving =>
    /\ rx[u].found \in Seq(Tokens) /\ rx[u].body \in Seq(Tokens)
    /\ pc[u] = "header" => HeaderInv(u)
    /\ pc[u] = "body" => BodyInv(u)
StreamInv == DOMAIN rx = Users /\ LineInv /\ \A u \in Users : RxInv(u)

\* AnswerInv: the answers taken are true.
AnswerInv == DOMAIN result = Users /\ AnswerTrue

\* At first.
LEMMA StreamInit == Init => StreamInv /\ AnswerInv
<1> SUFFICES ASSUME Init PROVE StreamInv /\ AnswerInv
  OBVIOUS
<1>1. stream = <<>> /\ orders = <<>> /\ executed = {}
  BY DEF Init
<1>2. /\ stream \in Seq(Tokens) /\ Len(stream) = 0
      /\ orders \in Seq(OrderSet) /\ Len(orders) = 0
  BY <1>1
<1>3. IsLine(stream)
  BY <1>2 DEF IsLine, Flow, Ends
<1>4. LineInv
  BY <1>1, <1>2, <1>3 DEF LineInv
<1>5. \A u \in Users : pc[u] \notin Receiving
  BY DEF Init, Receiving, Users
<1>6. AnswerInv
  <2>1. result = [u \in Users |-> NoResult] /\ ~NoResult.ok
    BY DEF Init, NoResult
  <2> QED BY <2>1 DEF AnswerInv, AnswerTrue
<1>7. DOMAIN rx = Users
  BY DEF Init
<1> QED BY <1>4, <1>5, <1>6, <1>7 DEF StreamInv, RxInv

\* Nothing of the line changes, and nobody begins to receive.
LEMMA StreamKept ==
  ASSUME StreamInv, UNCHANGED <<program, orders, stream, executed>>, broken => broken',
         DOMAIN rx' = Users,
         \A u \in Users : pc'[u] \in Receiving =>
           pc'[u] = pc[u] /\ rx'[u] = rx[u] /\ next'[u] = next[u]
  PROVE  StreamInv'
<1>1. \A s : IsLine(s) => IsLine(s)'
  BY DEF IsLine
<1>2. LineInv'
  BY <1>1 DEF StreamInv, LineInv
<1>3. ASSUME NEW u \in Users PROVE RxInv(u)'
  <2> SUFFICES ASSUME pc'[u] \in Receiving
               PROVE  /\ rx'[u].found \in Seq(Tokens) /\ rx'[u].body \in Seq(Tokens)
                      /\ pc'[u] = "header" => HeaderInv(u)'
                      /\ pc'[u] = "body" => BodyInv(u)'
    BY DEF RxInv
  <2>1. pc'[u] = pc[u] /\ rx'[u] = rx[u] /\ next'[u] = next[u] /\ RxInv(u)
    BY DEF StreamInv
  <2>2. HeaderInv(u) => HeaderInv(u)'
    BY <1>1, <2>1 DEF HeaderInv
  <2>3. BodyInv(u) => BodyInv(u)'
    BY <1>1, <2>1 DEF BodyInv
  <2> QED BY <2>1, <2>2, <2>3 DEF RxInv
<1> QED BY <1>2, <1>3 DEF StreamInv

\* Only the thread that holds the mutex receives.
LEMMA Alone ==
  ASSUME ControlInv, NEW u \in Users, pc[u] \in Holding
  PROVE  \A v \in Users : v # u => pc[v] \notin Holding
BY DEF ControlInv, LockInv

LEMMA NoneReceives ==
  ASSUME LineInv', DOMAIN rx' = Users, \A u \in Users : pc'[u] \notin Receiving
  PROVE  StreamInv'
BY DEF StreamInv, RxInv

\* A query returns, and the line is still in order.
LEMMA ReturnStream ==
  ASSUME PtcAssumption, ControlInv, StreamInv, NEW u \in Users, pc[u] \in Holding,
         NEW ok, NEW body, Return(u, ok, body), LineInv'
  PROVE  StreamInv'
<1>1. pc'[u] \in {"call", "frame", "done"} /\ \A v \in Users : v # u => pc'[v] = pc[v]
  BY ReturnControl DEF Holding
<1>2. \A v \in Users : v # u => pc[v] \notin Holding
  BY Alone
<1>3. \A v \in Users : pc'[v] \notin Receiving
  BY <1>1, <1>2 DEF Holding, Receiving
<1>4. DOMAIN rx' = Users
  BY DEF Return, StreamInv
<1> QED BY <1>3, <1>4, NoneReceives

\* A new connection has an empty line.
LEMMA NewLine ==
  ASSUME LineInv, Connect, UNCHANGED <<program, executed>>
  PROVE  LineInv'
<1>1. stream' = <<>> /\ orders' = <<>>
  BY DEF Connect
<1>2. /\ stream' \in Seq(Tokens) /\ Len(stream') = 0
      /\ orders' \in Seq(OrderSet) /\ Len(orders') = 0
  BY <1>1
<1>3. IsLine(stream)'
  BY <1>2 DEF IsLine, Flow, Ends
<1> QED BY <1>2, <1>3 DEF LineInv

\* What is said of an answer that is taken.
True(u, body) ==
  \E o \in executed :
    /\ o.cmd = program[u][next[u]]
    /\ body = SubSeq(Answer(o, 0), HeaderSize + 1, HeaderSize + Payload(o.cmd))
    /\ o.cmd \in Setting => o = Order(u)

LEMMA AnswerKept ==
  ASSUME AnswerInv, executed \subseteq executed', UNCHANGED result
  PROVE  AnswerInv'
BY DEF AnswerInv, AnswerTrue

LEMMA ReturnAnswer ==
  ASSUME AnswerInv, UNCHANGED executed, NEW u \in Users, NEW body,
         Return(u, FALSE, body) \/ (Return(u, TRUE, body) /\ True(u, body))
  PROVE  AnswerInv'
<1>1. CASE Return(u, FALSE, body)
  <2>1. /\ DOMAIN result' = Users /\ ~result'[u].ok
        /\ \A v \in Users : v # u => result'[v] = result[v]
    BY <1>1 DEF Return, AnswerInv
  <2> QED BY <2>1 DEF AnswerInv, AnswerTrue
<1>2. CASE Return(u, TRUE, body) /\ True(u, body)
  <2>1. /\ DOMAIN result' = Users
        /\ result'[u].order = Order(u) /\ result'[u].body = body
        /\ \A v \in Users : v # u => result'[v] = result[v]
    BY <1>2 DEF Return, AnswerInv
  <2>2. Order(u).cmd = program[u][next[u]]
    BY DEF Order
  <2> QED BY <1>2, <2>1, <2>2 DEF AnswerInv, AnswerTrue, True
<1> QED BY <1>1, <1>2

\* An order that is issued and sets something is known by what it sets.
LEMMA SettingIs ==
  ASSUME PtcAssumption, ControlInv, NEW u \in Users, pc[u] # "done",
         NEW o, Issued(o, program), o.cmd = program[u][next[u]], o.cmd \in Setting
  PROVE  o = Order(u)
<1>1. /\ program \in Programs /\ o \in OrderSet /\ o.i \in 1 .. Len(program[o.u])
      /\ program[o.u][o.i] = program[u][next[u]] /\ program[o.u][o.i] \in Setting
  BY DEF ControlInv, ProgramInv, Issued
<1>2. next[u] \in 1 .. Len(program[u])
  BY DEF ControlInv, ProgramInv
<1>3. o.u \in Users
  BY <1>1 DEF OrderSet
<1>4. o.u = u /\ o.i = next[u]
  BY <1>1, <1>2, <1>3 DEF PtcAssumption
<1> QED BY <1>1, <1>4 DEF Order, OrderSet

\* A header that has been read is one header, ...
LEMMA HeaderIs ==
  ASSUME NEW p, NEW e, NEW h \in Seq(Tokens), Len(h) = HeaderSize, h[1].k = 1,
         NEW s \in Seq(Tokens), Flow(h \o s, p, e)
  PROVE  /\ Issued(h[HeaderSize].order, p)
         /\ h[HeaderSize].return_code = 0 => h[HeaderSize].order \in e
<1> DEFINE w == h \o s
<1>1. w \in Seq(Tokens) /\ Len(w) = 3 + Len(s) /\ \A i \in 1 .. 3 : w[i] = h[i]
  <2>1. w \in Seq(Tokens) /\ Len(w) = Len(h) + Len(s) /\ \A i \in 1 .. Len(h) : w[i] = h[i]
    BY JoinedIs
  <2>2. Len(h) = 3
    BY DEF HeaderSize
  <2> QED BY <2>1, <2>2
<1>2. Len(w) >= 3 /\ w[1] = h[1] /\ w[3] = h[3]
  <2>1. Len(s) \in Nat
    OBVIOUS
  <2> HIDE DEF w
  <2> QED BY <1>1, <2>1
<1> HIDE DEF w
<1>3. /\ Issued(w[3].order, p)
      /\ w[3].return_code = 0 => w[3].order \in e
  BY <1>2, FlowStarts DEF HeaderSize, w
<1> QED BY <1>2, <1>3 DEF HeaderSize

\* ... and the payload that follows it is that of the same answer.
LEMMA BodyIs ==
  ASSUME NEW p, NEW e, NEW h \in Seq(Tokens), Len(h) = HeaderSize, h[1].k = 1,
         h[HeaderSize].return_code = 0, Payload(h[HeaderSize].order.cmd) = 2,
         NEW b \in Seq(Tokens), Len(b) = 2, NEW s \in Seq(Tokens), Flow((h \o b) \o s, p, e)
  PROVE  /\ b = SubSeq(Answer(h[HeaderSize].order, 0), HeaderSize + 1, HeaderSize + 2)
         /\ Issued(h[HeaderSize].order, p) /\ h[HeaderSize].order \in e
<1> DEFINE g == h \o b
           w == g \o s
           o == h[HeaderSize].order
           a == Answer(o, 0)
<1> USE DEF HeaderSize
<1>1. g \in Seq(Tokens) /\ Len(g) = 5 /\ \A i \in 1 .. 5 : g[i] = IF i <= 3 THEN h[i] ELSE b[i - 3]
  <2>1. /\ g \in Seq(Tokens) /\ Len(g) = Len(h) + Len(b)
        /\ \A i \in 1 .. Len(h) + Len(b) : g[i] = IF i <= Len(h) THEN h[i] ELSE b[i - Len(h)]
    BY ConcatProperties
  <2>2. Len(h) + Len(b) = 5 /\ Len(h) = 3
    OBVIOUS
  <2> QED BY <2>1, <2>2
<1>3. Flow(w, p, e)
  OBVIOUS
<1> HIDE DEF g
<1>2. Len(w) >= 5 /\ w[1] = h[1] /\ w[3] = h[3] /\ w[4] = b[1] /\ w[5] = b[2]
  <2>1. w \in Seq(Tokens) /\ Len(w) = 5 + Len(s) /\ \A i \in 1 .. 5 : w[i] = g[i]
    <3>1. w \in Seq(Tokens) /\ Len(w) = Len(g) + Len(s) /\ \A i \in 1 .. Len(g) : w[i] = g[i]
      BY <1>1, JoinedIs
    <3> HIDE DEF w
    <3> QED BY <1>1, <3>1
  <2>2. Len(s) \in Nat
    OBVIOUS
  <2>3. g[1] = h[1] /\ g[3] = h[3] /\ g[4] = b[1] /\ g[5] = b[2]
    BY <1>1
  <2> HIDE DEF w
  <2> QED BY <2>1, <2>2, <2>3
<1> HIDE DEF w
<1>4. \A i \in 4 .. 5 : w[i] = Token(i, o, 0)
  BY <1>2, <1>3, FlowGoesOn
<1>5. Issued(o, p) /\ o \in e
  BY <1>2, <1>3, FlowStarts
<1>6. \A k \in 1 .. 5 : a[k] = Token(k, o, 0)
  <2>1. a = [k \in 1 .. 5 |-> Token(k, o, 0)]
    BY DEF Answer
  <2> QED BY <2>1
<1>7. /\ SubSeq(a, 4, 5) \in Seq(Tokens)
      /\ Len(SubSeq(a, 4, 5)) = 2
      /\ \A i \in 1 .. 2 : SubSeq(a, 4, 5)[i] = a[4 + i - 1]
  <2>1. \A i \in 4 .. 5 : a[i] \in Tokens
    BY <1>5, <1>6 DEF Issued, Token, Tokens
  <2> HIDE DEF a
  <2> QED BY <2>1, SubSeqProperties
<1>8. b[1] = SubSeq(a, 4, 5)[1] /\ b[2] = SubSeq(a, 4, 5)[2]
  <2>1. b[1] = a[4] /\ b[2] = a[5]
    BY <1>2, <1>4, <1>6
  <2> HIDE DEF a
  <2> QED BY <1>7, <2>1
<1>9. b = SubSeq(a, 4, 5)
  <2>1. \A i \in 1 .. Len(b) : b[i] = SubSeq(a, 4, 5)[i]
    BY <1>8
  <2> HIDE DEF a
  <2> QED BY <1>7, <2>1, SeqEqual
<1> QED BY <1>5, <1>9

\* A part of the header is received.
LEMMA HeaderStream ==
  ASSUME PtcAssumption, ControlInv, StreamInv, AnswerInv, NEW u \in Users, ReceiveHeader(u)
  PROVE  StreamInv' /\ AnswerInv'
<1>1. /\ pc[u] = "header" /\ UNCHANGED <<broken, executed, orders>>
      /\ rx[u].found \in Seq(Tokens) /\ HeaderInv(u)
      /\ LineInv /\ DOMAIN rx = Users
  BY DEF ReceiveHeader, Took, StreamInv, RxInv, Receiving
<1>2. PICK n \in Chunks(u) :
        LET chunk == SubSeq(stream, 1, n)
            found == IF rx[u].found = <<>> THEN HeaderIn(chunk) ELSE rx[u].found \o chunk
            h     == found[HeaderSize]
        IN  /\ Took(n)
            /\ IF Len(found) < HeaderSize
                 THEN /\ Receive(u, found, HeaderSize - Len(found), <<>>)
                      /\ UNCHANGED <<program, next, pc, result, _mutex, lidar>>
               ELSE IF ~Accepts(h, Order(u).cmd)
                 THEN Return(u, FALSE, <<>>) /\ Unlock
               ELSE IF Payload(h.order.cmd) = 0
                 THEN Return(u, TRUE, <<>>) /\ Unlock
                 ELSE /\ Receive(u, found, Payload(h.order.cmd), <<>>)
                      /\ pc' = [pc EXCEPT ![u] = "body"]
                      /\ UNCHANGED <<program, next, result, _mutex, lidar>>
  BY DEF ReceiveHeader
<1> DEFINE chunk == SubSeq(stream, 1, n)
           rest  == SubSeq(stream, n + 1, Len(stream))
           got   == IF rx[u].found = <<>> THEN HeaderIn(chunk) ELSE rx[u].found \o chunk
           h     == got[HeaderSize]
<1>3. /\ stream' = rest /\ program' = program
      /\ \/ /\ Len(got) < HeaderSize
            /\ Receive(u, got, HeaderSize - Len(got), <<>>) /\ UNCHANGED <<next, pc, result>>
         \/ Return(u, FALSE, <<>>)
         \/ /\ ~(Len(got) < HeaderSize) /\ Accepts(h, Order(u).cmd)
            /\ Payload(h.order.cmd) = 0 /\ Return(u, TRUE, <<>>)
         \/ /\ ~(Len(got) < HeaderSize) /\ Accepts(h, Order(u).cmd)
            /\ Payload(h.order.cmd) # 0
            /\ Receive(u, got, Payload(h.order.cmd), <<>>)
            /\ pc' = [pc EXCEPT ![u] = "body"] /\ UNCHANGED <<next, result>>
  BY <1>2 DEF Took, Return
<1>4. n \in 1 .. Len(stream) /\ n <= HeaderSize - Len(rx[u].found) /\ stream \in Seq(Tokens)
  BY <1>1 DEF Chunks, HeaderInv, LineInv
<1>5. /\ got \in Seq(Tokens) /\ Len(got) \in {0, 2, 3} /\ rest \in Seq(Tokens)
      /\ Len(got) > 0 => got[1].k = 1
      /\ Flow(got \o rest, program, executed) /\ (Ends(rx[u].found \o stream) => Ends(got \o rest))
  BY <1>1, <1>4, HeaderRead DEF HeaderInv, IsLine
<1> HIDE DEF chunk, rest, got
<1>6. IsLine(got \o rest)
  BY <1>1, <1>5 DEF HeaderInv, IsLine
<1>7. IsLine(rest)
  BY <1>5, <1>6, FlowDrops DEF IsLine
<1>8. \A s : IsLine(s) => IsLine(s)'
  BY <1>1, <1>3 DEF IsLine
<1>9. LineInv'
  BY <1>1, <1>3, <1>5, <1>7, <1>8 DEF LineInv
<1>10. \A v \in Users : v # u => pc[v] \notin Receiving
  BY <1>1, Alone DEF Holding, Receiving
<1>11. pc \in [Users -> Places] /\ pc[u] \in Holding
  BY <1>1 DEF ControlInv, ProgramInv, Holding
<1>12. CASE /\ Len(got) < HeaderSize
            /\ Receive(u, got, HeaderSize - Len(got), <<>>) /\ UNCHANGED <<next, pc, result>>
  <2>1. /\ DOMAIN rx' = Users /\ rx'[u].found = got /\ rx'[u].nLeft = HeaderSize - Len(got)
        /\ rx'[u].body = <<>>
    BY <1>1, <1>12 DEF Receive
  <2>2. Len(got) \in {0, 2} /\ <<>> \in Seq(Tokens)
    <3>1. Len(got) < 3
      BY <1>12 DEF HeaderSize
    <3>2. Len(got) = 0 \/ Len(got) = 2 \/ Len(got) = 3
      BY <1>5
    <3>3. Len(got) # 3
      BY <3>1
    <3> QED BY <3>2, <3>3, JoinedNothing
  <2>3. HeaderInv(u)'
    BY <1>3, <1>5, <1>6, <1>8, <2>1, <2>2 DEF HeaderInv
  <2>4. RxInv(u)'
    BY <1>1, <1>5, <1>12, <2>1, <2>2, <2>3 DEF RxInv
  <2>5. \A v \in Users : RxInv(v)'
    BY <1>10, <1>12, <2>4 DEF RxInv
  <2>6. AnswerInv'
    BY <1>1, <1>12, AnswerKept
  <2> QED BY <1>9, <2>1, <2>5, <2>6 DEF StreamInv
<1>13. CASE Return(u, FALSE, <<>>)
  BY <1>1, <1>9, <1>11, <1>13, ReturnStream, ReturnAnswer
<1>14. ASSUME ~(Len(got) < HeaderSize), Accepts(h, Order(u).cmd)
       PROVE  /\ Len(got) = HeaderSize /\ got[1].k = 1
              /\ h.return_code = 0 /\ h.order.cmd = program[u][next[u]]
              /\ Issued(h.order, program) /\ h.order \in executed
  <2>1. Len(got) = HeaderSize /\ got[1].k = 1
    BY <1>5, <1>14 DEF HeaderSize
  <2>2. h.return_code = 0 /\ h.order.cmd = program[u][next[u]]
    BY <1>14 DEF Accepts, Order
  <2> QED BY <1>5, <2>1, <2>2, HeaderIs
<1>15. CASE /\ ~(Len(got) < HeaderSize) /\ Accepts(h, Order(u).cmd)
            /\ Payload(h.order.cmd) = 0 /\ Return(u, TRUE, <<>>)
  <2>1. h.order.cmd \in Setting => h.order = Order(u)
    BY <1>1, <1>14, <1>15, SettingIs
  <2>2. SubSeq(Answer(h.order, 0), HeaderSize + 1, HeaderSize + 0) = <<>>
    BY SubSeqEmpty DEF HeaderSize
  <2>3. True(u, <<>>)
    BY <1>14, <1>15, <2>1, <2>2 DEF True
  <2> QED BY <1>1, <1>9, <1>11, <1>15, <2>3, ReturnStream, ReturnAnswer
<1>16. CASE /\ ~(Len(got) < HeaderSize) /\ Accepts(h, Order(u).cmd)
            /\ Payload(h.order.cmd) # 0
            /\ Receive(u, got, Payload(h.order.cmd), <<>>)
            /\ pc' = [pc EXCEPT ![u] = "body"] /\ UNCHANGED <<next, result>>
  <2>1. /\ DOMAIN rx' = Users /\ rx'[u].found = got /\ rx'[u].nLeft = Payload(h.order.cmd)
        /\ rx'[u].body = <<>>
    BY <1>1, <1>16 DEF Receive
  <2>2. pc'[u] = "body" /\ \A v \in Users : v # u => pc'[v] = pc[v]
    BY <1>11, <1>16
  <2>3. Payload(h.order.cmd) = 2
    BY <1>16, PayloadIs
  <2>4. (got \o <<>>) = got /\ <<>> \in Seq(Tokens) /\ Len(<<>>) = 0
    BY <1>5, JoinedNothing
  <2>5. program'[u][next'[u]] = program[u][next[u]]
    BY <1>3, <1>16
  <2>6. BodyInv(u)'
    <3>1. \A s : s = (got \o <<>>) \o rest => IsLine(s)'
      BY <1>6, <1>8, <2>4
    <3>2. IsLine((rx[u].found \o rx[u].body) \o stream)'
      BY <1>3, <2>1, <3>1
    <3>3. /\ Len(rx'[u].found) = HeaderSize /\ rx'[u].found[1].k = 1
          /\ rx'[u].found[HeaderSize].return_code = 0
          /\ rx'[u].found[HeaderSize].order.cmd = program'[u][next'[u]]
          /\ Payload(program'[u][next'[u]]) = 2
      BY <1>14, <1>16, <2>1, <2>3, <2>5
    <3>4. rx'[u].nLeft \in 1 .. 2 /\ Len(rx'[u].body) = 2 - rx'[u].nLeft
      BY <2>1, <2>3, <2>4
    <3> QED BY <3>2, <3>3, <3>4 DEF BodyInv
  <2>7. RxInv(u)'
    BY <1>5, <2>1, <2>2, <2>4, <2>6 DEF RxInv
  <2>8. \A v \in Users : RxInv(v)'
    BY <1>10, <2>2, <2>7 DEF RxInv
  <2>9. AnswerInv'
    BY <1>1, <1>16, AnswerKept
  <2> QED BY <1>9, <2>1, <2>8, <2>9 DEF StreamInv
<1> QED BY <1>3, <1>12, <1>13, <1>15, <1>16

\* A part of the payload is received.
LEMMA BodyStream ==
  ASSUME PtcAssumption, ControlInv, StreamInv, AnswerInv, NEW u \in Users, ReceiveBody(u)
  PROVE  StreamInv' /\ AnswerInv'
<1>1. /\ pc[u] = "body" /\ UNCHANGED <<broken, executed, orders>>
      /\ rx[u].found \in Seq(Tokens) /\ rx[u].body \in Seq(Tokens) /\ BodyInv(u)
      /\ LineInv /\ DOMAIN rx = Users
  BY DEF ReceiveBody, Took, StreamInv, RxInv, Receiving
<1>2. PICK n \in Chunks(u) :
        LET body == rx[u].body \o SubSeq(stream, 1, n)
        IN  /\ Took(n)
            /\ IF n < rx[u].nLeft
                 THEN /\ Receive(u, rx[u].found, rx[u].nLeft - n, body)
                      /\ UNCHANGED <<program, next, pc, result, _mutex, lidar>>
                 ELSE Return(u, TRUE, body) /\ Unlock
  BY DEF ReceiveBody
<1> DEFINE found == rx[u].found
           rest  == SubSeq(stream, n + 1, Len(stream))
           body  == rx[u].body \o SubSeq(stream, 1, n)
<1>3. /\ stream' = rest /\ program' = program
      /\ \/ /\ n < rx[u].nLeft
            /\ Receive(u, found, rx[u].nLeft - n, body) /\ UNCHANGED <<next, pc, result>>
         \/ ~(n < rx[u].nLeft) /\ Return(u, TRUE, body)
  BY <1>2 DEF Took, Return
<1>4. n \in 1 .. Len(stream) /\ n <= rx[u].nLeft /\ stream \in Seq(Tokens)
  BY <1>1 DEF Chunks, BodyInv, LineInv
<1>5. /\ body \in Seq(Tokens) /\ Len(body) = Len(rx[u].body) + n
      /\ rest \in Seq(Tokens)
      /\ (found \o body) \o rest = (found \o rx[u].body) \o stream
  <2>1. n \in 1 .. Len(stream)
    BY <1>4
  <2>2. rx[u].found \in Seq(Tokens) /\ rx[u].body \in Seq(Tokens) /\ stream \in Seq(Tokens)
    BY <1>1, <1>4
  <2>3. body \in Seq(Tokens) /\ Len(body) = Len(rx[u].body) + n /\ rest \in Seq(Tokens)
    BY <2>1, <2>2, BodyRead
  <2>4. (found \o body) \o rest = (found \o rx[u].body) \o stream
    <3>1. \A m \in 1 .. Len(stream) :
            (found \o (rx[u].body \o SubSeq(stream, 1, m))) \o SubSeq(stream, m + 1, Len(stream))
              = (found \o rx[u].body) \o stream
      BY <2>2, BodyJoins, Zenon
    <3> QED BY <2>1, <3>1
  <2> QED BY <2>3, <2>4
<1> HIDE DEF rest, body
<1>6. IsLine((found \o body) \o rest)
  BY <1>1, <1>5 DEF BodyInv
<1>7. IsLine(rest)
  <2>1. found \o body \in Seq(Tokens)
    BY <1>1, <1>5, JoinedIs
  <2> DEFINE t == found \o body
  <2> HIDE DEF t
  <2> QED BY <1>5, <1>6, <2>1, FlowDrops DEF IsLine, t
<1>8. \A s : IsLine(s) => IsLine(s)'
  BY <1>1, <1>3 DEF IsLine
<1>9. LineInv'
  BY <1>1, <1>3, <1>5, <1>7, <1>8 DEF LineInv
<1>10. \A v \in Users : v # u => pc[v] \notin Receiving
  BY <1>1, Alone DEF Holding, Receiving
<1>11. pc[u] \in Holding /\ rx[u].nLeft \in 1 .. 2 /\ Len(rx[u].body) = 2 - rx[u].nLeft
  BY <1>1 DEF Holding, BodyInv
<1>12. CASE /\ n < rx[u].nLeft
            /\ Receive(u, found, rx[u].nLeft - n, body) /\ UNCHANGED <<next, pc, result>>
  <2>1. /\ DOMAIN rx' = Users /\ rx'[u].found = found /\ rx'[u].nLeft = rx[u].nLeft - n
        /\ rx'[u].body = body
    BY <1>1, <1>12 DEF Receive
  <2>2. rx'[u].nLeft \in 1 .. 2 /\ Len(rx'[u].body) = 2 - rx'[u].nLeft
    BY <1>4, <1>5, <1>11, <1>12, <2>1
  <2>3. BodyInv(u)'
    <3>1. \A s : s = (found \o body) \o rest => IsLine(s)'
      BY <1>6, <1>8
    <3> QED BY <1>1, <1>3, <1>12, <2>1, <2>2, <3>1 DEF BodyInv
  <2>4. RxInv(u)'
    BY <1>1, <1>5, <1>12, <2>1, <2>3 DEF RxInv
  <2>5. \A v \in Users : RxInv(v)'
    BY <1>10, <1>12, <2>4 DEF RxInv
  <2>6. AnswerInv'
    BY <1>1, <1>12, AnswerKept
  <2> QED BY <1>9, <2>1, <2>5, <2>6 DEF StreamInv
<1>13. CASE ~(n < rx[u].nLeft) /\ Return(u, TRUE, body)
  <2> DEFINE o == found[HeaderSize].order
  <2>1. Len(body) = 2
    BY <1>4, <1>5, <1>11, <1>13
  <2>2. /\ Len(found) = HeaderSize /\ found[1].k = 1 /\ found[HeaderSize].return_code = 0
        /\ o.cmd = program[u][next[u]] /\ Payload(o.cmd) = 2
    BY <1>1 DEF BodyInv
  <2>3. Flow((found \o body) \o rest, program, executed)
    BY <1>6 DEF IsLine
  <2>4. /\ body = SubSeq(Answer(o, 0), HeaderSize + 1, HeaderSize + 2)
        /\ Issued(o, program) /\ o \in executed
    BY <1>1, <1>5, <2>1, <2>2, <2>3, BodyIs
  <2>5. o.cmd \notin Setting
    BY <2>2, PayloadIs
  <2>6. True(u, body)
    BY <2>2, <2>4, <2>5 DEF True
  <2> QED BY <1>1, <1>9, <1>11, <1>13, <2>6, ReturnStream, ReturnAnswer
<1> QED BY <1>3, <1>12, <1>13

\* A thread goes on, but not to receive.
LEMMA GoesStream ==
  ASSUME ControlInv, StreamInv, AnswerInv, NEW u \in Users, NEW q, q \notin Receiving,
         pc' = [pc EXCEPT ![u] = q],
         UNCHANGED <<program, next, rx, result, orders, stream, broken, executed>>
  PROVE  StreamInv' /\ AnswerInv'
<1>1. \A v \in Users : pc'[v] \in Receiving => pc'[v] = pc[v]
  BY DEF ControlInv, ProgramInv
<1>2. DOMAIN rx' = Users
  BY DEF StreamInv
<1> QED BY <1>1, <1>2, StreamKept, AnswerKept

\* Nothing changes for those who receive.
LEMMA StreamStays ==
  ASSUME StreamInv, AnswerInv, UNCHANGED user,
         UNCHANGED <<orders, stream, broken, executed>>
  PROVE  StreamInv' /\ AnswerInv'
<1>1. UNCHANGED <<program, next, pc, rx, result>>
  BY DEF user
<1>2. DOMAIN rx' = Users
  BY <1>1 DEF StreamInv
<1> QED BY <1>1, <1>2, StreamKept, AnswerKept

\* The connection is made, or made again.
LEMMA ConnectStream ==
  ASSUME StreamInv, AnswerInv, Connect, UNCHANGED <<user, executed>>,
         \A u \in Users : pc[u] \notin Receiving
  PROVE  StreamInv' /\ AnswerInv'
<1>1. UNCHANGED <<program, next, pc, rx, result, executed>>
  BY DEF user
<1>2. LineInv' /\ DOMAIN rx' = Users
  BY <1>1, NewLine DEF StreamInv
<1> QED BY <1>1, <1>2, NoneReceives, AnswerKept

\* The order is sent.
LEMMA SendStream ==
  ASSUME PtcAssumption, ControlInv, StreamInv, AnswerInv, NEW u \in Users, Send(u)
  PROVE  StreamInv' /\ AnswerInv'
<1>1. /\ pc[u] = "send" /\ UNCHANGED <<program, next, result, stream, broken, executed>>
      /\ orders' = (IF broken THEN orders ELSE Append(orders, Order(u)))
      /\ pc' = [pc EXCEPT ![u] = "header"] /\ Receive(u, <<>>, HeaderSize, <<>>)
      /\ LineInv /\ DOMAIN rx = Users /\ pc \in [Users -> Places]
  BY DEF Send, StreamInv, ControlInv, ProgramInv
<1>2. Issued(Order(u), program)
  <2>1. /\ program[u] \in Seq(Commands) /\ next[u] \in 1 .. Len(program[u])
        /\ next[u] \in Nat
    BY <1>1 DEF ControlInv, ProgramInv, PtcAssumption
  <2>2. program[u][next[u]] \in Commands
    BY <2>1
  <2>3. Order(u) \in OrderSet
    BY <2>1, <2>2 DEF Order, OrderSet
  <2> QED BY <2>1, <2>3 DEF Issued, Order
<1>3. orders' \in Seq(OrderSet) /\ \A i \in 1 .. Len(orders') : Issued(orders'[i], program)
  <2>1. CASE broken
    BY <1>1, <2>1 DEF LineInv
  <2>2. CASE ~broken
    <3>1. orders' = Append(orders, Order(u)) /\ orders \in Seq(OrderSet) /\ Order(u) \in OrderSet
      BY <1>1, <1>2, <2>2 DEF LineInv, Issued
    <3>2. /\ orders' \in Seq(OrderSet) /\ Len(orders') = Len(orders) + 1
          /\ \A i \in 1 .. Len(orders) : orders'[i] = orders[i]
          /\ orders'[Len(orders) + 1] = Order(u)
      BY <3>1, AppendProperties
    <3> QED BY <1>1, <1>2, <3>1, <3>2 DEF LineInv
  <2> QED BY <2>1, <2>2
<1>4. \A s : IsLine(s) => IsLine(s)'
  BY <1>1 DEF IsLine
<1>5. LineInv'
  BY <1>1, <1>3, <1>4 DEF LineInv
<1>6. /\ DOMAIN rx' = Users /\ rx'[u].found = <<>> /\ rx'[u].nLeft = HeaderSize
      /\ rx'[u].body = <<>>
  BY <1>1 DEF Receive
<1>7. <<>> \in Seq(Tokens) /\ Len(<<>>) = 0 /\ <<>> \o stream = stream
  BY <1>1, JoinedNothing DEF LineInv
<1>8. HeaderInv(u)'
  <2>1. \A s : s = <<>> \o stream => IsLine(s)'
    BY <1>1, <1>4, <1>7 DEF LineInv
  <2>2. IsLine(rx[u].found \o stream)'
    BY <1>1, <1>6, <2>1
  <2>3. /\ rx'[u].body = <<>> /\ Len(rx'[u].found) \in {0, 2}
        /\ rx'[u].nLeft = HeaderSize - Len(rx'[u].found)
        /\ Len(rx'[u].found) # 2
    BY <1>6, <1>7 DEF HeaderSize
  <2> QED BY <2>2, <2>3 DEF HeaderInv
<1>9. pc'[u] = "header" /\ \A v \in Users : v # u => pc'[v] = pc[v]
  BY <1>1
<1>10. RxInv(u)'
  BY <1>6, <1>7, <1>8, <1>9 DEF RxInv
<1>11. \A v \in Users : v # u => pc[v] \notin Receiving
  BY <1>1, Alone DEF Holding, Receiving
<1>12. \A v \in Users : RxInv(v)'
  BY <1>9, <1>10, <1>11 DEF RxInv
<1>13. AnswerInv'
  BY <1>1, AnswerKept
<1> QED BY <1>5, <1>6, <1>12, <1>13 DEF StreamInv

\* A query.
LEMMA QueryStream ==
  ASSUME PtcAssumption, ControlInv, StreamInv, AnswerInv, NEW u \in Users, QueryStep(u)
  PROVE  StreamInv' /\ AnswerInv'
<1>1. CASE CallClosed(u)
  <2>1. /\ pc[u] = "call" /\ Return(u, FALSE, <<>>)
        /\ UNCHANGED <<program, orders, stream, broken, executed>>
    BY <1>1 DEF CallClosed, socket, Return
  <2>2. pc'[u] \notin Receiving /\ \A v \in Users : v # u => pc'[v] = pc[v]
    BY <2>1, ReturnControl DEF Receiving
  <2>3. /\ DOMAIN rx' = Users
        /\ \A v \in Users : v # u => rx'[v] = rx[v] /\ next'[v] = next[v]
    BY <2>1 DEF Return, StreamInv, ControlInv, ProgramInv
  <2> QED BY <2>1, <2>2, <2>3, StreamKept, ReturnAnswer
<1>2. CASE CallOpen(u) \/ Lock(u) \/ TcpFlushIn(u)
  BY <1>2, GoesStream DEF CallOpen, Lock, TcpFlushIn, socket, Receiving
<1>3. CASE Reopen(u)
  <2>1. /\ pc[u] \in {"flush", "send"} /\ Connect
        /\ UNCHANGED user /\ UNCHANGED executed
    BY <1>3 DEF Reopen
  <2>2. \A v \in Users : pc[v] \notin Receiving
    BY <2>1, Alone DEF Holding, Receiving
  <2> QED BY <2>1, <2>2, ConnectStream
<1>4. ASSUME pc[u] \in Holding, NEW body, Return(u, FALSE, body),
             UNCHANGED <<orders, stream, broken, executed>>
      PROVE  StreamInv' /\ AnswerInv'
  <2>1. program' = program
    BY <1>4 DEF Return
  <2>2. \A s : IsLine(s) => IsLine(s)'
    BY <1>4, <2>1 DEF IsLine
  <2>3. LineInv'
    BY <1>4, <2>1, <2>2 DEF StreamInv, LineInv
  <2> QED BY <1>4, <2>3, ReturnStream, ReturnAnswer
<1>5. CASE ReopenFails(u)
  <2>1. CASE /\ pc[u] = "flush" /\ pc' = [pc EXCEPT ![u] = "send"]
             /\ UNCHANGED <<program, next, rx, result, _mutex, lidar>>
    BY <1>5, <2>1, GoesStream DEF ReopenFails, socket, Receiving
  <2>2. CASE pc[u] = "send" /\ Return(u, FALSE, <<>>) /\ Unlock
    BY <1>4, <1>5, <2>2 DEF ReopenFails, socket, Holding
  <2> QED BY <1>5, <2>1, <2>2 DEF ReopenFails
<1>6. CASE Send(u)
  BY <1>6, SendStream
<1>7. CASE SendFails(u) \/ TimeOut(u) \/ HangUp(u)
  BY <1>4, <1>7 DEF SendFails, TimeOut, HangUp, Close, socket, Holding
<1>8. CASE ReceiveHeader(u)
  BY <1>8, HeaderStream
<1>9. CASE ReceiveBody(u)
  BY <1>9, BodyStream
<1> QED BY <1>1, <1>2, <1>3, <1>5, <1>6, <1>7, <1>8, <1>9 DEF QueryStep

\* The lidar answers: one more answer comes after what has been read and what is
\* still to be received.
LEMMA AnswersStream ==
  ASSUME StreamInv, AnswerInv, Answers
  PROVE  StreamInv' /\ AnswerInv'
<1>1. /\ ~broken /\ orders # <<>> /\ orders' = Tail(orders) /\ LineInv /\ DOMAIN rx = Users
      /\ UNCHANGED <<program, next, pc, rx, result, broken>>
  BY DEF Answers, user, StreamInv
<1>2. PICK c \in {0, 1} :
        /\ stream' = stream \o Answer(Head(orders), c)
        /\ c = 0 => executed' = executed \cup {Head(orders)}
        /\ c = 1 => executed' = executed
  BY DEF Answers
<1> DEFINE a == Answer(Head(orders), c)
<1>3. Issued(Head(orders), program)
  <2>1. Len(orders) \in Nat \ {0} /\ Head(orders) = orders[1]
    BY <1>1 DEF LineInv
  <2> QED BY <1>1, <2>1 DEF LineInv
<1>4. /\ executed \subseteq executed' /\ \A o \in executed' : Issued(o, program)
      /\ c = 0 => Head(orders) \in executed'
  BY <1>1, <1>2, <1>3 DEF LineInv
<1>5. /\ Flow(a, program, executed') /\ Ends(a) /\ Len(a) > 0 /\ a[1].k = 1
      /\ a \in Seq(Tokens)
  <2>1. /\ Flow(a, program, executed') /\ Ends(a) /\ Len(a) >= 3 /\ a[1].k = 1
    BY <1>3, <1>4, AnswerFlows
  <2>2. a \in Seq(Tokens)
    BY <2>1 DEF Flow
  <2>3. Len(a) > 0
    <3> HIDE DEF a
    <3> QED BY <2>1, <2>2
  <2> QED BY <2>1, <2>2, <2>3
<1> HIDE DEF a
<1>6. \A s : IsLine(s) => Flow(s \o a, program, executed') /\ Ends(s \o a)
  <2> SUFFICES ASSUME NEW s, IsLine(s)
               PROVE  Flow(s \o a, program, executed') /\ Ends(s \o a)
    OBVIOUS
  <2>1. Flow(s, program, executed') /\ Ends(s)
    BY <1>1, <1>4, FlowGrows DEF IsLine
  <2> QED BY <1>5, <2>1, FlowJoins
<1>7. \A s, t : IsLine(s) /\ t = s \o a => IsLine(t)'
  BY <1>1, <1>6 DEF IsLine
<1>8. stream' = stream \o a
  BY <1>2 DEF a
<1>9. LineInv'
  <2>1. stream' \in Seq(Tokens)
    BY <1>1, <1>5, <1>8, JoinedIs DEF LineInv
  <2>2. IsLine(stream)'
    BY <1>1, <1>7, <1>8 DEF LineInv
  <2>3. orders' \in Seq(OrderSet) /\ \A i \in 1 .. Len(orders') : Issued(orders'[i], program)
    <3>1. /\ orders \in Seq(OrderSet) /\ Len(orders') = Len(orders) - 1
          /\ orders' \in Seq(OrderSet)
          /\ \A i \in 1 .. Len(orders') : orders'[i] = orders[i + 1]
      BY <1>1, HeadTailProperties DEF LineInv
    <3>2. \A i \in 1 .. Len(orders') : i + 1 \in 1 .. Len(orders)
      BY <3>1
    <3> QED BY <1>1, <3>1, <3>2 DEF LineInv
  <2> QED BY <1>1, <1>4, <2>1, <2>2, <2>3 DEF LineInv
<1>10. ASSUME NEW u \in Users PROVE RxInv(u)'
  <2> SUFFICES ASSUME pc[u] \in Receiving, rx[u].found \in Seq(Tokens),
                      rx[u].body \in Seq(Tokens)
               PROVE  /\ pc[u] = "header" /\ HeaderInv(u) => HeaderInv(u)'
                      /\ pc[u] = "body" /\ BodyInv(u) => BodyInv(u)'
    BY <1>1 DEF StreamInv, RxInv
  <2>1. \A f \in Seq(Tokens) : f \o stream' = (f \o stream) \o a
    <3>1. stream \in Seq(Tokens) /\ a \in Seq(Tokens)
      BY <1>1, <1>5 DEF LineInv
    <3> QED BY <1>8, <3>1, JoinedTwice, Zenon
  <2>2. \A f \in Seq(Tokens) : IsLine(f \o stream) => IsLine(f \o stream)'
    BY <1>7, <2>1
  <2>3. ASSUME HeaderInv(u) PROVE HeaderInv(u)'
    <3>1. IsLine(rx[u].found \o stream)'
      BY <1>1, <2>2, <2>3 DEF HeaderInv
    <3> QED BY <1>1, <2>3, <3>1 DEF HeaderInv
  <2>4. ASSUME BodyInv(u) PROVE BodyInv(u)'
    <3>1. rx[u].found \o rx[u].body \in Seq(Tokens)
      BY JoinedIs
    <3>2. IsLine((rx[u].found \o rx[u].body) \o stream)'
      BY <1>1, <2>2, <2>4, <3>1 DEF BodyInv
    <3> QED BY <1>1, <2>4, <3>2 DEF BodyInv
  <2> QED BY <2>3, <2>4
<1>11. AnswerInv'
  BY <1>1, <1>4, AnswerKept
<1> QED BY <1>1, <1>9, <1>10, <1>11 DEF StreamInv

\* The lidar hangs up: what is still to be received may be lost, but not changed.
LEMMA BreaksStream ==
  ASSUME StreamInv, AnswerInv, Breaks
  PROVE  StreamInv' /\ AnswerInv'
<1>1. /\ broken' /\ orders' = <<>> /\ stream' \in {stream, <<>>} /\ LineInv /\ DOMAIN rx = Users
      /\ UNCHANGED <<program, next, pc, rx, result, executed>>
  BY DEF Breaks, user, StreamInv
<1>2. stream \in Seq(Tokens) /\ stream' \in Seq(Tokens)
  BY <1>1, JoinedNothing DEF LineInv
<1>3. ASSUME NEW f \in Seq(Tokens), IsLine(f \o stream)
      PROVE  Flow(f \o stream', program, executed)
  <2>1. CASE stream' = stream
    BY <1>3, <2>1 DEF IsLine
  <2>2. CASE stream' = <<>>
    <3>1. f \o stream' = f
      BY <2>2, JoinedNothing
    <3>2. Len(f \o stream) = Len(f) + Len(stream) /\ \A i \in 1 .. Len(f) : (f \o stream)[i] = f[i]
      BY <1>2, JoinedIs
    <3>3. Len(f) <= Len(f \o stream)
      BY <1>2, <3>2
    <3> DEFINE w == f \o stream
    <3>4. Flow(w, program, executed)
      BY <1>3 DEF IsLine
    <3>5. Len(f) <= Len(w) /\ \A i \in 1 .. Len(f) : f[i] = w[i]
      BY <3>2, <3>3
    <3> HIDE DEF w
    <3>6. Flow(f, program, executed)
      BY <3>4, <3>5, FlowHead
    <3> QED BY <3>1, <3>6
  <2> QED BY <1>1, <2>1, <2>2
<1>4. \A f \in Seq(Tokens) : IsLine(f \o stream) => IsLine(f \o stream)'
  BY <1>1, <1>3 DEF IsLine
<1>5. LineInv'
  <2>1. <<>> \in Seq(Tokens) /\ <<>> \o stream = stream /\ <<>> \o stream' = stream'
    BY <1>2, JoinedNothing
  <2>2. IsLine(<<>> \o stream) => IsLine(<<>> \o stream)'
    BY <1>4, <2>1
  <2>3. IsLine(stream)'
    BY <1>1, <2>1, <2>2 DEF LineInv
  <2>4. orders' \in Seq(OrderSet) /\ Len(orders') = 0
    BY <1>1
  <2> QED BY <1>1, <1>2, <2>3, <2>4 DEF LineInv
<1>6. ASSUME NEW u \in Users PROVE RxInv(u)'
  <2> SUFFICES ASSUME pc[u] \in Receiving, rx[u].found \in Seq(Tokens),
                      rx[u].body \in Seq(Tokens)
               PROVE  /\ pc[u] = "header" /\ HeaderInv(u) => HeaderInv(u)'
                      /\ pc[u] = "body" /\ BodyInv(u) => BodyInv(u)'
    BY <1>1 DEF StreamInv, RxInv
  <2>1. ASSUME HeaderInv(u) PROVE HeaderInv(u)'
    <3>1. IsLine(rx[u].found \o stream)'
      BY <1>1, <1>4, <2>1 DEF HeaderInv
    <3> QED BY <1>1, <2>1, <3>1 DEF HeaderInv
  <2>2. ASSUME BodyInv(u) PROVE BodyInv(u)'
    <3>1. rx[u].found \o rx[u].body \in Seq(Tokens)
      BY JoinedIs
    <3>2. IsLine((rx[u].found \o rx[u].body) \o stream)'
      BY <1>1, <1>4, <2>2, <3>1 DEF BodyInv
    <3> QED BY <1>1, <2>2, <3>2 DEF BodyInv
  <2> QED BY <2>1, <2>2
<1>7. AnswerInv'
  BY <1>1, AnswerKept
<1> QED BY <1>1, <1>5, <1>6, <1>7 DEF StreamInv

\* One step: the line, and the answers.
LEMMA StreamStep ==
  ASSUME PtcAssumption, ControlInv, StreamInv, AnswerInv, [Next]_vars
  PROVE  StreamInv' /\ AnswerInv'
<1>1. CASE OpenerConnects
  <2>1. \A u \in Users : pc[u] \notin Receiving
    BY <1>1 DEF OpenerConnects, ControlInv, OpenInv, Unused, Holding, Receiving
  <2>2. Connect /\ UNCHANGED <<user, executed>>
    BY <1>1 DEF OpenerConnects
  <2> QED BY <2>1, <2>2, ConnectStream
<1>2. CASE \/ OpenerHasAddress \/ OpenerGivesUp \/ SetTimeout \/ MainStep \/ Stop
           \/ UNCHANGED vars
  <2>1. UNCHANGED user /\ UNCHANGED <<orders, stream, broken, executed>>
    BY <1>2 DEF OpenerHasAddress, OpenerGivesUp, SetTimeout, MainStep, JoinRun, JoinSet,
                JoinOpener, Close, Stop, vars, socket
  <2> QED BY <2>1, StreamStays
<1>3. ASSUME NEW u \in Users, NEW q, q \notin Receiving, pc' = [pc EXCEPT ![u] = q],
             UNCHANGED <<program, next, rx, result, socket, executed>>
      PROVE  StreamInv' /\ AnswerInv'
  BY <1>3, GoesStream DEF socket
<1>4. CASE FirstPacket \/ NoPacket \/ Awaited \/ SetTest \/ SetLook \/ RunFrame \/ RunExit
  <2>1. UNCHANGED <<program, next, rx, result, socket, executed>>
    BY <1>4 DEF FirstPacket, NoPacket, Awaited, SetTest, SetLook, RunFrame, RunExit
  <2>2. \E u \in Users, q \in {"await", "done", "call", "sleep", "test"} :
          pc' = [pc EXCEPT ![u] = q]
    <3>1. CASE SetTest
      BY <3>1 DEF SetTest, Users
    <3>2. CASE SetLook
      BY <3>2 DEF SetLook, Users
    <3>3. CASE FirstPacket \/ NoPacket \/ Awaited \/ RunFrame \/ RunExit
      BY <3>3 DEF FirstPacket, NoPacket, Awaited, RunFrame, RunExit, Users
    <3> QED BY <1>4, <3>1, <3>2, <3>3
  <2> QED BY <1>3, <2>1, <2>2 DEF Receiving
<1> QED BY <1>1, <1>2, <1>4, QueryStream, AnswersStream, BreaksStream
        DEF Next, OpenerStep, UserStep

-----------------------------------------------------------------------------
\* The types follow.
LEMMA ControlTypes == ControlInv => TypeOK
BY DEF ControlInv, ProgramInv, LockInv, OpenInv, StateInv, TypeOK, Places, Holding

\* TypeCorrect: the variables have their types, and the mutex is held by the
\* thread that is between flush and the end of its query, whatever is asked.
THEOREM TypeCorrect == PtcAssumption /\ Spec => []TypeOK
<1> SUFFICES ASSUME PtcAssumption PROVE Spec => []TypeOK
  OBVIOUS
<1>1. Init => ControlInv
  BY ControlInit
<1>2. ControlInv /\ [Next]_vars => ControlInv'
  BY ControlStep
<1>3. ControlInv => TypeOK
  BY ControlTypes
<1> QED BY <1>1, <1>2, <1>3, PTL DEF Spec

\* AnswersAreTrue: whatever time-outs leave in the stream and wherever the lidar
\* hangs up, an answer that QueryCommand takes is one whole answer to such a
\* command, and for a setting the answer to this very one.  TcpFlushIn leaves
\* earlier answers in the stream; LineInv says in which order they are.
THEOREM AnswersAreTrue == PtcAssumption /\ Spec => []AnswerTrue
<1> SUFFICES ASSUME PtcAssumption PROVE Spec => []AnswerTrue
  OBVIOUS
<1>1. Init => ControlInv /\ StreamInv /\ AnswerInv
  BY ControlInit, StreamInit
<1>2. ControlInv /\ StreamInv /\ AnswerInv /\ [Next]_vars
      => ControlInv' /\ StreamInv' /\ AnswerInv'
  BY ControlStep, StreamStep
<1>3. AnswerInv => AnswerTrue
  BY DEF AnswerInv
<1> QED BY <1>1, <1>2, <1>3, PTL DEF Spec
=============================================================================
