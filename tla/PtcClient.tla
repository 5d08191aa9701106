------------------------------ MODULE PtcClient ------------------------------
(***************************************************************************)
(* The control connection to the lidar: PtcClient and TcpClient, and the   *)
(* threads of the driver that use them.  Lidar::Init loads the correction, *)
(* InitSetPtc sets the standby mode and the speed, Run asks for the state  *)
(* of PTP, and each waits for its answer; PtcClient::TryOpen connects; in  *)
(* the end ~Lidar and ~PtcClient join.                                     *)
(*                                                                         *)
(* A TCP stream is a sequence of tokens: the two bytes that identify a     *)
(* header, the rest of the header, the parts of the payload.  recv returns *)
(* as many of them as have arrived; those that a time-out finds in the     *)
(* stream are still on their way.                                          *)
(***************************************************************************)
EXTENDS Integers, Sequences

CONSTANTS
  Programs,     \* what the three threads may have to ask: [Users -> Seq(Commands)]
  MaxReopened,  \* bound: connections after the first
  MaxBroken     \* bound: how often the lidar hangs up

Users == {"init", "set", "run"}
Commands == {"calibration", "standby", "speed", "ptp", "offset"}
Setting == {"standby", "speed"}

\* What the proofs assume: the bounds are numbers, and no setting is made twice.
PtcAssumption ==
  /\ MaxReopened \in Nat /\ MaxBroken \in Nat
  /\ Programs \subseteq [Users -> Seq(Commands)]
  /\ \A p \in Programs : \A u, v \in Users : \A i \in 1 .. Len(p[u]), j \in 1 .. Len(p[v]) :
       p[u][i] \in Setting /\ p[u][i] = p[v][j] => u = v /\ i = j

\* Parts of the payload of an answer.
Payload(cmd) == IF cmd \in Setting THEN 0 ELSE 2

VARIABLES
  program, next,         \* what each thread asks, and how far it has come
  pc,                    \* where each thread is
  rx,                    \* what it has received of the answer: locals of QueryCommand
  result,                \* what its last QueryCommand returned
  opener,                \* where TryOpen is
  InitOpen, lidar_ip_,   \* of the client; is the address known?
  ptc_connect_timeout_,  \* do the waits for the connection end?
  _mutex,
  m_bLidarConnected,
  timed,                 \* SetTimeout has been called for this socket
  orders, stream,        \* what the lidar has not answered, what is to be received
  broken,                \* the lidar has hung up
  executed,              \* the orders the lidar has carried out
  opened, hung,          \* connections made and broken: for the bounds
  init_running, correction, main

user == <<program, next, pc, rx, result>>
client == <<opener, InitOpen, lidar_ip_, ptc_connect_timeout_>>
socket == <<m_bLidarConnected, timed, orders, stream, broken, opened, hung>>
lidar == <<init_running, correction, main>>
vars == <<user, client, _mutex, socket, executed, lidar>>

NoOrder == [u |-> "none", i |-> 0, cmd |-> "none"]
Order(u) == [u |-> u, i |-> next[u], cmd |-> program[u][next[u]]]
Token(k, o, code) == [k |-> k, order |-> o, return_code |-> code]

\* The parts of an answer: two identifiers, the rest of the header, the payload.
HeaderSize == 3
Answer(o, code) ==
  [k \in 1 .. HeaderSize + (IF code = 0 THEN Payload(o.cmd) ELSE 0) |-> Token(k, o, code)]
NoRx == [found |-> <<>>, nLeft |-> 0, body |-> <<>>, patient |-> FALSE]
NoResult == [ok |-> FALSE, order |-> NoOrder, body |-> <<>>]

-----------------------------------------------------------------------------
\* A connection begins with nothing on its way, and without a time-out.
Connect ==
  /\ m_bLidarConnected' = TRUE /\ timed' = FALSE
  /\ orders' = <<>> /\ stream' = <<>> /\ broken' = FALSE /\ opened' = opened + 1
  /\ UNCHANGED hung

Close == m_bLidarConnected' = FALSE /\ UNCHANGED <<timed, orders, stream, broken, opened, hung>>

\* PtcClient::TryOpen: the address first, ...
OpenerHasAddress ==
  /\ opener = "address" /\ lidar_ip_
  /\ opener' = "connect"
  /\ UNCHANGED <<InitOpen, lidar_ip_, ptc_connect_timeout_, user, _mutex, socket, executed,
                 lidar>>

\* ... then TcpClient::TryOpen again and again until it connects, ...
OpenerConnects ==
  /\ opener = "connect" /\ Connect
  /\ opener' = "set timeout"
  /\ UNCHANGED <<InitOpen, lidar_ip_, ptc_connect_timeout_, user, _mutex, executed, lidar>>

\* Mutant: only the time-out ends the attempts.
OpenerGivesUpLate ==
  /\ opener \in {"address", "connect"} /\ ptc_connect_timeout_
  /\ opener' = "exited"
  /\ UNCHANGED <<InitOpen, lidar_ip_, ptc_connect_timeout_, user, _mutex, socket, executed,
                 lidar>>

\* ... unless it is told to end, or its time is up, ...
OpenerGivesUp ==
  /\ opener \in {"address", "connect"} /\ (~InitOpen \/ ptc_connect_timeout_)
  /\ opener' = "exited"
  /\ UNCHANGED <<InitOpen, lidar_ip_, ptc_connect_timeout_, user, _mutex, socket, executed,
                 lidar>>

\* ... and then, while others find the client open already, SetTimeout.
SetTimeout ==
  /\ opener = "set timeout" /\ opener' = "exited"
  /\ timed' = (timed \/ (InitOpen /\ m_bLidarConnected))
  /\ UNCHANGED <<InitOpen, lidar_ip_, ptc_connect_timeout_, user, _mutex, m_bLidarConnected,
                 orders, stream, broken, opened, hung, executed, lidar>>

OpenerStep == OpenerHasAddress \/ OpenerConnects \/ OpenerGivesUp \/ SetTimeout

-----------------------------------------------------------------------------
\* QueryCommand returns.  Init takes the correction from a file if not from the
\* lidar, and is over then.
Return(u, ok, body) ==
  /\ result' = [result EXCEPT ![u] = [ok |-> ok, order |-> Order(u), body |-> body]]
  /\ next' = [next EXCEPT ![u] = @ + 1]
  /\ pc' = [pc EXCEPT ![u] = IF next[u] = Len(program[u]) THEN "done"
                              ELSE IF u = "run" THEN "frame" ELSE "call"]
  /\ rx' = [rx EXCEPT ![u] = NoRx]
  /\ IF u = "init"
       THEN /\ correction' = (IF ok /\ body # <<>> THEN "lidar" ELSE "file")
            /\ init_running' = FALSE
       ELSE UNCHANGED <<correction, init_running>>
  /\ UNCHANGED <<program, main>>

Unlock == _mutex' = "none"

\* IsOpen is looked at before the mutex is taken, ...
CallClosed(u) ==
  /\ pc[u] = "call" /\ ~m_bLidarConnected
  /\ Return(u, FALSE, <<>>)
  /\ UNCHANGED <<client, _mutex, socket, executed>>

CallOpen(u) ==
  /\ pc[u] = "call" /\ m_bLidarConnected
  /\ pc' = [pc EXCEPT ![u] = "lock"]
  /\ UNCHANGED <<program, next, rx, result, client, _mutex, socket, executed, lidar>>

Lock(u) ==
  /\ pc[u] = "lock" /\ _mutex = "none"
  /\ _mutex' = u /\ pc' = [pc EXCEPT ![u] = "flush"]
  /\ UNCHANGED <<program, next, rx, result, client, socket, executed, lidar>>

\* ... and the client may have been closed since: TcpClient::Receive and Send
\* open it again, this time without a time-out.
Reopen(u) ==
  /\ pc[u] \in {"flush", "send"} /\ ~m_bLidarConnected /\ opened <= MaxReopened
  /\ Connect
  /\ UNCHANGED <<user, client, _mutex, executed, lidar>>

ReopenFails(u) ==
  /\ ~m_bLidarConnected
  /\ \/ /\ pc[u] = "flush" /\ pc' = [pc EXCEPT ![u] = "send"]
        /\ UNCHANGED <<program, next, rx, result, _mutex, lidar>>
     \/ pc[u] = "send" /\ Return(u, FALSE, <<>>) /\ Unlock
  /\ UNCHANGED <<client, socket, executed>>

\* TcpFlushIn passes 0xFF to recv, which holds MSG_OOB: recv fails, and what is
\* in the stream stays there.
TcpFlushIn(u) ==
  /\ pc[u] = "flush" /\ m_bLidarConnected
  /\ pc' = [pc EXCEPT ![u] = "send"]
  /\ UNCHANGED <<program, next, rx, result, client, _mutex, socket, executed, lidar>>

\* From now on u receives; recv is as patient as the socket is when it is called.
Receive(u, found, nLeft, body) ==
  rx' = [rx EXCEPT ![u] = [found |-> found, nLeft |-> nLeft, body |-> body,
                           patient |-> ~timed]]

Send(u) ==
  /\ pc[u] = "send" /\ m_bLidarConnected
  /\ orders' = IF broken THEN orders ELSE Append(orders, Order(u))
  /\ pc' = [pc EXCEPT ![u] = "header"] /\ Receive(u, <<>>, HeaderSize, <<>>)
  /\ UNCHANGED <<program, next, result, client, _mutex, m_bLidarConnected, timed, stream,
                 broken, opened, hung, executed, lidar>>

SendFails(u) ==
  /\ pc[u] = "send" /\ m_bLidarConnected /\ broken
  /\ Close /\ Return(u, FALSE, <<>>) /\ Unlock
  /\ UNCHANGED <<client, executed>>

\* What a chunk shows of a header: the two identifiers must be in one chunk.
HeaderIn(chunk) ==
  LET at == {i \in 1 .. Len(chunk) - 1 : chunk[i].k = 1 /\ chunk[i + 1].k = 2}
  IN  IF at = {} THEN <<>>
      ELSE SubSeq(chunk, CHOOSE i \in at : \A j \in at : i <= j, Len(chunk))

Chunks(u) == {n \in 1 .. rx[u].nLeft : n <= Len(stream)}
Took(n) ==
  /\ stream' = SubSeq(stream, n + 1, Len(stream))
  /\ UNCHANGED <<m_bLidarConnected, timed, orders, broken, opened, hung>>

\* The answer of this command, without an error.
Accepts(h, cmd) == h.return_code = 0 /\ h.order.cmd = cmd

\* A part of the header.  Before its beginning is found what is read is dropped.
ReceiveHeader(u) ==
  /\ pc[u] = "header" /\ m_bLidarConnected
  /\ \E n \in Chunks(u) :
       LET chunk == SubSeq(stream, 1, n)
           found == IF rx[u].found = <<>> THEN HeaderIn(chunk) ELSE rx[u].found \o chunk
           h     == found[HeaderSize]
       IN  /\ Took(n)
           /\ IF Len(found) < HeaderSize
                THEN /\ Receive(u, found, HeaderSize - Len(found), <<>>)
                     /\ UNCHANGED <<program, next, pc, result, _mutex, lidar>>
              ELSE IF ~Accepts(h, Order(u).cmd)
                THEN Return(u, FALSE, <<>>) /\ Unlock
              ELSE IF Payload(h.order.cmd) = 0
                THEN Return(u, TRUE, <<>>) /\ Unlock
                ELSE /\ Receive(u, found, Payload(h.order.cmd), <<>>)
                     /\ pc' = [pc EXCEPT ![u] = "body"]
                     /\ UNCHANGED <<program, next, result, _mutex, lidar>>
  /\ UNCHANGED <<client, executed>>

\* A part of the payload.
ReceiveBody(u) ==
  /\ pc[u] = "body" /\ m_bLidarConnected
  /\ \E n \in Chunks(u) :
       LET body == rx[u].body \o SubSeq(stream, 1, n)
       IN  /\ Took(n)
           /\ IF n < rx[u].nLeft
                THEN /\ Receive(u, rx[u].found, rx[u].nLeft - n, body)
                     /\ UNCHANGED <<program, next, pc, result, _mutex, lidar>>
                ELSE Return(u, TRUE, body) /\ Unlock
  /\ UNCHANGED <<client, executed>>

\* Mutant: a payload that a time-out cuts short is returned as it is.
TimeOutReturns(u) ==
  /\ pc[u] \in {"header", "body"} /\ ~rx[u].patient
  /\ Return(u, pc[u] = "body", rx[u].body) /\ Unlock
  /\ UNCHANGED <<client, socket, executed>>

\* recv fails for want of data, and the connection stays as it is, ...
TimeOut(u) ==
  /\ pc[u] \in {"header", "body"} /\ ~rx[u].patient
  /\ Return(u, FALSE, <<>>) /\ Unlock
  /\ UNCHANGED <<client, socket, executed>>

\* ... or because the lidar has hung up, and it is closed.
HangUp(u) ==
  /\ pc[u] \in {"header", "body"} /\ broken /\ stream = <<>>
  /\ Close /\ Return(u, FALSE, <<>>) /\ Unlock
  /\ UNCHANGED <<client, executed>>

QueryStep(u) ==
  \/ CallClosed(u) \/ CallOpen(u) \/ Lock(u) \/ Reopen(u) \/ ReopenFails(u) \/ TcpFlushIn(u)
  \/ Send(u) \/ SendFails(u) \/ ReceiveHeader(u) \/ ReceiveBody(u) \/ TimeOut(u) \/ HangUp(u)

-----------------------------------------------------------------------------
\* Lidar::Init: the first packet tells the address; without one it fails.
FirstPacket ==
  /\ pc["init"] = "packets" /\ init_running
  /\ lidar_ip_' = TRUE /\ pc' = [pc EXCEPT !["init"] = "await"]
  /\ UNCHANGED <<opener, InitOpen, ptc_connect_timeout_, program, next, rx, result, _mutex,
                 socket, executed, lidar>>

NoPacket ==
  /\ pc["init"] = "packets" /\ ~init_running
  /\ pc' = [pc EXCEPT !["init"] = "done"]
  /\ UNCHANGED <<program, next, rx, result, client, _mutex, socket, executed, lidar>>

\* It waits for the connection, and then asks in any case.
Awaited ==
  /\ pc["init"] = "await" /\ (m_bLidarConnected \/ ~init_running \/ ptc_connect_timeout_)
  /\ pc' = [pc EXCEPT !["init"] = "call"]
  /\ UNCHANGED <<program, next, rx, result, client, _mutex, socket, executed, lidar>>

\* InitSetPtc: while init_running, sleep and see whether the client is open.
SetTest ==
  /\ pc["set"] = "test"
  /\ pc' = [pc EXCEPT !["set"] = IF init_running THEN "sleep" ELSE "done"]
  /\ UNCHANGED <<program, next, rx, result, client, _mutex, socket, executed, lidar>>

SetLook ==
  /\ pc["set"] = "sleep"
  /\ pc' = [pc EXCEPT !["set"] = IF m_bLidarConnected THEN "call" ELSE "test"]
  /\ UNCHANGED <<program, next, rx, result, client, _mutex, socket, executed, lidar>>

\* Run: with a frame it asks, once the initialisation is over, until it is stopped.
RunFrame ==
  /\ pc["run"] = "frame" /\ correction # "none" /\ main = "serving"
  /\ pc' = [pc EXCEPT !["run"] = "call"]
  /\ UNCHANGED <<program, next, rx, result, client, _mutex, socket, executed, lidar>>

RunExit ==
  /\ pc["run"] = "frame" /\ main # "serving"
  /\ pc' = [pc EXCEPT !["run"] = "done"]
  /\ UNCHANGED <<program, next, rx, result, client, _mutex, socket, executed, lidar>>

\* Stop joins Run; ~Lidar ends the waits and joins InitSetPtc; ~PtcClient joins
\* TryOpen.  Init is over by then (SdkLifecycle says when it is not).
Stop ==
  /\ main = "serving" /\ main' = "join run"
  /\ UNCHANGED <<user, client, _mutex, socket, executed, init_running, correction>>

JoinRun ==
  /\ main = "join run" /\ pc["run"] = "done"
  /\ main' = "join set" /\ init_running' = FALSE
  /\ UNCHANGED <<user, client, _mutex, socket, executed, correction>>

JoinSet ==
  /\ main = "join set" /\ pc["set"] = "done" /\ pc["init"] = "done"
  /\ main' = "join opener" /\ InitOpen' = FALSE
  /\ UNCHANGED <<user, opener, lidar_ip_, ptc_connect_timeout_, _mutex, socket, executed,
                 init_running, correction>>

JoinOpener ==
  /\ main = "join opener" /\ opener = "exited"
  /\ main' = "deleted" /\ Close
  /\ UNCHANGED <<user, client, _mutex, executed, init_running, correction>>

-----------------------------------------------------------------------------
\* The lidar carries out an order and answers, or refuses it; it may take its
\* time, or hang up with what it has sent, or not, still on its way.
Answers ==
  /\ m_bLidarConnected /\ ~broken /\ orders # <<>>
  /\ orders' = Tail(orders)
  /\ \/ stream' = stream \o Answer(Head(orders), 0) /\ executed' = executed \cup {Head(orders)}
     \/ stream' = stream \o Answer(Head(orders), 1) /\ UNCHANGED executed
  /\ UNCHANGED <<user, client, _mutex, m_bLidarConnected, timed, broken, opened, hung, lidar>>

Breaks ==
  /\ m_bLidarConnected /\ ~broken /\ hung < MaxBroken
  /\ broken' = TRUE /\ hung' = hung + 1 /\ orders' = <<>> /\ stream' \in {stream, <<>>}
  /\ UNCHANGED <<user, client, _mutex, m_bLidarConnected, timed, opened, executed, lidar>>

UserStep(u) ==
  \/ QueryStep(u)
  \/ u = "init" /\ (NoPacket \/ Awaited)
  \/ u = "set" /\ (SetTest \/ SetLook)
  \/ u = "run" /\ RunExit
MainStep == JoinRun \/ JoinSet \/ JoinOpener

Init ==
  /\ program \in Programs
  /\ next = [u \in Users |-> 1]
  /\ pc = [u \in Users |-> IF program[u] = <<>> THEN "done"
                            ELSE CASE u = "init" -> "packets" [] u = "set" -> "test"
                                   [] u = "run" -> "frame"]
  /\ rx = [u \in Users |-> NoRx] /\ result = [u \in Users |-> NoResult]
  /\ opener = "address" /\ InitOpen = TRUE
  /\ lidar_ip_ \in BOOLEAN /\ ptc_connect_timeout_ \in BOOLEAN
  /\ _mutex = "none" /\ m_bLidarConnected = FALSE /\ timed = FALSE
  /\ orders = <<>> /\ stream = <<>> /\ broken = FALSE /\ executed = {}
  /\ opened = 0 /\ hung = 0
  /\ init_running = TRUE /\ correction = "none" /\ main = "serving"

Next ==
  \/ OpenerStep \/ MainStep \/ Stop \/ FirstPacket \/ RunFrame \/ Answers \/ Breaks
  \/ \E u \in Users : UserStep(u)

Spec == Init /\ [][Next]_vars

\* The threads are scheduled; the lidar owes nothing: no packet, connection or answer.
Fairness ==
  /\ WF_vars(OpenerGivesUp) /\ WF_vars(SetTimeout) /\ WF_vars(MainStep)
  /\ \A u \in Users : WF_vars(UserStep(u))

-----------------------------------------------------------------------------
Querying(u) == pc[u] \in {"call", "lock", "flush", "send", "header", "body"}

TypeOK ==
  /\ pc \in [Users -> {"packets", "await", "test", "sleep", "frame", "call", "lock", "flush",
                       "send", "header", "body", "done"}]
  /\ opener \in {"address", "connect", "set timeout", "exited"}
  /\ _mutex \in Users \cup {"none"}
  /\ \A u \in Users : (_mutex = u) <=> (pc[u] \in {"flush", "send", "header", "body"})
  /\ correction \in {"none", "lidar", "file"}
  /\ main \in {"serving", "join run", "join set", "join opener", "deleted"}
  /\ opened \in 0 .. MaxReopened + 1 /\ hung \in 0 .. MaxBroken

\* AnswerTrue: an answer that is taken is one answer of the lidar, whole, to a
\* query of this command, whatever was left of earlier ones in the stream; and a
\* setting that is reported as made has been made by this very order.
AnswerTrue ==
  \A u \in Users : result[u].ok =>
    \E o \in executed :
      /\ o.cmd = result[u].order.cmd
      /\ result[u].body = SubSeq(Answer(o, 0), HeaderSize + 1, HeaderSize + Payload(o.cmd))
      /\ o.cmd \in Setting => o = result[u].order

\* Blocked: in a recv that no time-out ends.
Blocked(u) == pc[u] \in {"header", "body"} /\ rx[u].patient

\* QueryReturns: every query returns and Stop comes to its end, unless a thread
\* stays in a recv without a time-out: called before TryOpen came to SetTimeout,
\* or on a connection that was opened again.
QueryReturns ==
  (\A v \in Users : []<>~Blocked(v)) =>
    /\ \A u \in Users : Querying(u) ~> ~Querying(u)
    /\ main # "serving" ~> main = "deleted"

=============================================================================
