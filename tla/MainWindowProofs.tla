--------------------------- MODULE MainWindowProofs ---------------------------
(***************************************************************************)
(* Proofs about MainWindow and the worker it runs, for any server packets, *)
(* any number of sessions, received packets and commands, and any socket   *)
(* capacity.                                                               *)
(***************************************************************************)
EXTENDS MainWindow, TLAPS

USE DEF WorkerPC, GuiPC, Crashes, Goto
USE DEF mutexes, session, socket, window, menus, processes, bounds

\* What the worker queues in answer is a sequence of packets.
LEMMA AnswerType ==
    ASSUME NEW p \in Packet
    PROVE  Answer(p) \in Seq(Packet)
<1>1. \A i \in 0..255, c \in Commands : <<NewPacket(i, c)>> \in Seq(Packet)
  BY DEF NewPacket, Packet
<1>2. /\ "Version" \in Commands /\ "Username" \in Commands /\ "Password" \in Commands
      /\ "ProcessGetInfo" \in Commands
  BY DEF Commands
<1>3. SyncIndex \in 0..255 /\ AuthIndex \in 0..255 /\ p.idx \in 0..255
  BY DEF SyncIndex, AuthIndex, Packet
<1>4. <<>> \in Seq(Packet)
  OBVIOUS
<1> QED
  BY <1>1, <1>2, <1>3, <1>4, Zenon DEF Answer

\* The packets the program builds itself.
LEMMA OwnPackets == SyncHello \in Packet /\ SessionDisconnect \in Packet
  BY DEF SyncHello, SessionDisconnect, NewPacket, Packet, Commands, SyncIndex, MainIndex

\* Send keeps the types, whichever thread runs it.
LEMMA SendType ==
    ASSUME TypeOK, NEW t \in {"worker", "gui"}, Send(t), UNCHANGED window
    PROVE  TypeOK'
<1>1. CASE SendLock(t)
  BY <1>1 DEF TypeOK, FlagsOK, SendLock
<1>2. CASE SendNext(t)
  BY <1>2 DEF TypeOK, FlagsOK, SendNext
<1>3. CASE SendFails(t)
  BY <1>3 DEF TypeOK, FlagsOK, SendFails
<1>4. CASE SendReturns(t)
  BY <1>4 DEF TypeOK, FlagsOK, SendReturns
<1> QED
  BY <1>1, <1>2, <1>3, <1>4 DEF Send

\* Every step of the worker keeps the types.
LEMMA WorkerType ==
    ASSUME TypeOK, Worker, UNCHANGED window
    PROVE  TypeOK'
<1>1. CASE Connect
  <2>1. FlagsOK'
    BY <1>1, Zenon DEF TypeOK, FlagsOK, Connect
  <2> QED
    BY <1>1, <2>1 DEF TypeOK, Connect
<1>2. ASSUME NEW p \in ServerPackets, ReceivePacket(p)
      PROVE  TypeOK'
  BY <1>2, ConstantsAssumption DEF TypeOK, FlagsOK, ReceivePacket
<1>3. CASE PostConnect
  BY <1>3 DEF TypeOK, FlagsOK, PostConnect, Post
<1>4. CASE PostFailConnect
  BY <1>4 DEF TypeOK, FlagsOK, PostFailConnect, Post
<1>5. CASE PostFailRead
  BY <1>5 DEF TypeOK, FlagsOK, PostFailRead, Post
<1>6. CASE PostRead
  BY <1>6 DEF TypeOK, FlagsOK, PostRead, Post
<1>7. CASE QueueHello
  BY <1>7, OwnPackets DEF TypeOK, FlagsOK, QueueHello
<1>8. CASE ReceiveFails
  BY <1>8 DEF TypeOK, FlagsOK, ReceiveFails
<1>9. CASE AppendIncoming
  BY <1>9 DEF TypeOK, FlagsOK, AppendIncoming
<1>10. CASE LockOutgoing
  BY <1>10 DEF TypeOK, FlagsOK, LockOutgoing
<1>11. CASE LockIncoming
  BY <1>11 DEF TypeOK, FlagsOK, LockIncoming
<1>12. CASE AnswerLast
  <2>1. CASE incoming = <<>>
    BY <1>12, <2>1 DEF TypeOK, FlagsOK, AnswerLast
  <2>2. CASE incoming # <<>>
    <3> DEFINE answer == Answer(incoming[Len(incoming)])
    <3>1. incoming[Len(incoming)] \in Packet
      BY <2>2 DEF TypeOK
    <3>2. answer \in Seq(Packet)
      BY <3>1, AnswerType
    <3>3. outgoing' = outgoing \o answer
      BY <1>12, <2>2 DEF AnswerLast
    <3>4. outgoing' \in Seq(Packet)
      BY <3>2, <3>3 DEF TypeOK
    <3>5. sendNow' \in BOOLEAN /\ pc' = [pc EXCEPT !["worker"] = "unlockOut"]
      BY <1>12, <2>2 DEF AnswerLast
    <3> QED
      BY <1>12, <3>4, <3>5 DEF TypeOK, FlagsOK, AnswerLast
  <2> QED
    BY <2>1, <2>2
<1>13. CASE UnlockOutgoing
  BY <1>13 DEF TypeOK, FlagsOK, UnlockOutgoing
<1>14. CASE UnlockIncoming
  <2>1. FlagsOK'
    BY <1>14, Zenon DEF TypeOK, FlagsOK, UnlockIncoming
  <2> QED
    BY <1>14, <2>1 DEF TypeOK, UnlockIncoming
<1>15. CASE DropTerminal
  <2>1. FlagsOK'
    BY <1>15, Zenon DEF TypeOK, FlagsOK, DropTerminal, Drop
  <2> QED
    BY <1>15, <2>1 DEF TypeOK, DropTerminal, Drop
<1>16. CASE DropError
  <2>1. FlagsOK'
    BY <1>16, Zenon DEF TypeOK, FlagsOK, DropError, Drop
  <2> QED
    BY <1>16, <2>1 DEF TypeOK, DropError, Drop
<1>17. CASE CheckExiting
  BY <1>17 DEF TypeOK, FlagsOK, CheckExiting
<1>18. CASE Send("worker")
  BY <1>18, SendType
<1> QED
  BY <1>1, <1>2, <1>3, <1>4, <1>5, <1>6, <1>7, <1>8, <1>9, <1>10, <1>11, <1>12, <1>13,
     <1>14, <1>15, <1>16, <1>17, <1>18 DEF Worker, WorkerStep

\* The server's steps keep the types.
LEMMA ServerType ==
    ASSUME TypeOK, Server, UNCHANGED window
    PROVE  TypeOK'
  BY DEF TypeOK, FlagsOK, Server, ServerReads, ServerCloses

\* The user's commands keep the types.
LEMMA UserType ==
    ASSUME TypeOK, User
    PROVE  TypeOK'
<1> USE BoundsAssumption
<1>1. CASE OnConnect
  BY <1>1 DEF TypeOK, FlagsOK, OnConnect, network
<1>2. CASE LoginOk
  <2>1. FlagsOK'
    BY <1>2, Zenon DEF TypeOK, FlagsOK, LoginOk, StartNetwork
  <2>2. pc' \in [{"worker", "gui"} -> WorkerPC \cup GuiPC]
        /\ pc'["worker"] \in WorkerPC /\ pc'["gui"] \in GuiPC
    BY <1>2 DEF TypeOK, LoginOk, StartNetwork
  <2>3. started' \in 0..MaxSessions
    BY <1>2 DEF TypeOK, LoginOk
  <2>4. outgoing' = <<>> /\ incoming' = <<>> /\ wire' = <<>> /\ taken' = 0 /\ modal' = <<>>
    BY <1>2 DEF LoginOk, StartNetwork
  <2> QED
    BY <1>2, <2>1, <2>2, <2>3, <2>4 DEF TypeOK, LoginOk, StartNetwork
<1>3. CASE LoginCancel
  BY <1>3 DEF TypeOK, FlagsOK, LoginCancel, network
<1>4. CASE OnDisconnect
  BY <1>4, OwnPackets DEF TypeOK, FlagsOK, OnDisconnect, SendDisconnect, QueueAndSend
<1>5. CASE OnClose
  <2>1. CASE net /\ connected
    BY <1>5, <2>1, OwnPackets DEF TypeOK, FlagsOK, OnClose, SendDisconnect, QueueAndSend
  <2>2. CASE ~(net /\ connected)
    BY <1>5, <2>2 DEF TypeOK, FlagsOK, OnClose, GuiGoto
  <2> QED
    BY <2>1, <2>2
<1>6. ASSUME NEW idx \in pages, OnProcessCommand(idx, "ProcessKill")
      PROVE  TypeOK'
  <2>1. NewPacket(idx, "ProcessKill") \in Packet
    BY DEF TypeOK, FlagsOK, NewPacket, Packet, Commands, ProcessCommands, MaxIndex
  <2> QED
    BY <1>6, <2>1 DEF TypeOK, FlagsOK, OnProcessCommand, QueueAndSend, GuiGoto
<1> QED
  BY <1>1, <1>2, <1>3, <1>4, <1>5, <1>6 DEF User

\* The handlers of the worker's events keep the types.
LEMMA EventType ==
    ASSUME TypeOK, EventStep
    PROVE  TypeOK'
<1>1. CASE OnSocketConnected
  BY <1>1 DEF TypeOK, FlagsOK, OnSocketConnected, Dispatch
<1>2. CASE OnSocketRead
  BY <1>2 DEF TypeOK, FlagsOK, OnSocketRead, Dispatch
<1>3. CASE OnSocketFail
  <2>1. modal' \in Seq({"login", "notice", "failure"})
    BY <1>3 DEF TypeOK, OnSocketFail
  <2>2. ASSUME NEW event \in {"FailConnect", "FailRead"}, Dispatch(event)
        PROVE  TypeOK'
    BY <1>3, <2>1, <2>2 DEF TypeOK, FlagsOK, OnSocketFail, Dispatch
  <2> QED
    BY <1>3, <2>2 DEF OnSocketFail
<1>4. CASE Get
  <2>1. CASE incoming = <<>>
    BY <1>4, <2>1, ZenonT(40) DEF TypeOK, FlagsOK, Get
  <2>2. CASE incoming # <<>>
    <3> DEFINE p == Head(incoming)
    <3>1. p \in Packet /\ incoming' \in Seq(Packet)
      <4>1. incoming' = Tail(incoming)
        BY <1>4, <2>2 DEF Get
      <4> QED
        BY <2>2, <4>1 DEF TypeOK
    <3>2. CASE HandleTerminal(p)
      BY <1>4, <2>2, <3>1, <3>2 DEF TypeOK, FlagsOK, Get, HandleTerminal
    <3>3. CASE HandleNotice(p)
      BY <1>4, <2>2, <3>1, <3>3 DEF TypeOK, FlagsOK, Get, HandleNotice
    <3>4. CASE HandleAuthorized(p)
      <4> HIDE DEF p
      <4>1. p.idx \in 0..255
        BY <3>1 DEF Packet
      <4>2. p.idx \in 1..MaxIndex
        BY <4>1, <3>4 DEF HandleAuthorized, IsSession, MaxIndex, MainIndex
      <4>3. procs' = procs \cup {p.idx} /\ pages' = pages
        BY <3>4 DEF HandleAuthorized
      <4>4. procs' \subseteq 1..MaxIndex /\ pages' \subseteq procs'
        BY <4>2, <4>3 DEF TypeOK
      <4>5. FlagsOK'
        <5>1. FlagsOK
          BY DEF TypeOK
        <5>2. UNCHANGED <<connected, exiting, sendNow, net, closing, menus>> /\ freedFirst' = FALSE
          BY <1>4, <2>2, <3>4 DEF Get, HandleAuthorized
        <5> QED
          BY <5>1, <5>2, Zenon DEF FlagsOK
      <4> QED
        BY <1>4, <2>2, <3>1, <3>4, <4>4, <4>5 DEF TypeOK, Get, HandleAuthorized, p
    <3>5. CASE HandleProcessInfo(p)
      <4>1. p.idx \in procs
        BY <3>5 DEF HandleProcessInfo, NewRow
      <4>2. NewPacket(p.idx, "ConsoleNeedLogs") \in Packet
        BY <3>1 DEF NewPacket, Packet, Commands
      <4>3. pages' \subseteq procs /\ procs' = procs
        BY <3>5, <4>1 DEF TypeOK, HandleProcessInfo
      <4> QED
        BY <1>4, <2>2, <3>1, <3>5, <4>2, <4>3
        DEF TypeOK, FlagsOK, Get, HandleProcessInfo, QueueAndSend
    <3>6. CASE HandleOther(p)
      BY <1>4, <2>2, <3>1, <3>6 DEF TypeOK, FlagsOK, Get, HandleOther
    <3>7. CASE HandleFreedList(p)
      BY <1>4, <2>2, <3>1, <3>7 DEF TypeOK, FlagsOK, Get, HandleFreedList
    <3> QED
      BY <1>4, <2>2, <3>2, <3>3, <3>4, <3>5, <3>6, <3>7 DEF Get
  <2> QED
    BY <2>1, <2>2
<1> QED
  BY <1>1, <1>2, <1>3, <1>4 DEF EventStep

\* The GUI thread's steps inside a handler keep the types.
LEMMA HandlerType ==
    ASSUME TypeOK, HandlerStep
    PROVE  TypeOK'
<1>1. CASE AddOut
  BY <1>1 DEF TypeOK, FlagsOK, AddOut
<1>2. CASE Disconnect
  <2>1. FlagsOK'
    BY <1>2, Zenon DEF TypeOK, FlagsOK, Disconnect, GuiGoto
  <2> QED
    BY <1>2, <2>1 DEF TypeOK, Disconnect, GuiGoto
<1>3. CASE Destroy
  BY <1>3 DEF TypeOK, FlagsOK, Destroy, GuiGoto
<1>4. CASE Destructor
  BY <1>4 DEF TypeOK, FlagsOK, Destructor, GuiGoto
<1>5. CASE WaitExit
  BY <1>5 DEF TypeOK, FlagsOK, WaitExit, GuiGoto
<1>6. CASE Send("gui") /\ UNCHANGED window
  BY <1>6, SendType
<1> QED
  BY <1>1, <1>2, <1>3, <1>4, <1>5, <1>6 DEF HandlerStep

\* Dismissing a box keeps the types.
LEMMA DismissType ==
    ASSUME TypeOK, DismissBox
    PROVE  TypeOK'
<1>1. modal' \in Seq({"login", "notice", "failure"})
  BY DEF TypeOK, DismissBox
<1>2. FlagsOK'
  BY Zenon DEF TypeOK, FlagsOK, DismissBox, network
<1> QED
  BY <1>1, <1>2 DEF TypeOK, DismissBox, network

\* The first state has the types.
LEMMA InitType ==
    ASSUME Init
    PROVE  TypeOK
<1>1. FlagsOK
  BY Zenon DEF Init, FlagsOK
<1>2. pc["worker"] = "done" /\ pc["gui"] = "loop"
      /\ ret["worker"] = "receive" /\ ret["gui"] = "loop"
  BY DEF Init
<1>3. pc \in [{"worker", "gui"} -> WorkerPC \cup GuiPC]
  BY DEF Init
<1>4. ret \in [{"worker", "gui"} -> {"receive", "postRead", "loop", "wait", "destroy"}]
  BY DEF Init
<1> QED
  BY <1>1, <1>2, <1>3, <1>4, OwnPackets, ConstantsAssumption, BoundsAssumption
  DEF Init, TypeOK

\* Every step keeps the types.
LEMMA NextType ==
    ASSUME TypeOK, [Next]_vars
    PROVE  TypeOK'
<1>1. CASE WorkerAction
  BY <1>1, WorkerType DEF WorkerAction
<1>2. CASE ServerAction
  BY <1>2, ServerType DEF ServerAction
<1>3. CASE GuiAction
  BY <1>3, UserType, DismissType, EventType, HandlerType DEF GuiAction
<1>4. CASE UNCHANGED vars
  BY <1>4 DEF vars, network, TypeOK, FlagsOK
<1> QED
  BY <1>1, <1>2, <1>3, <1>4 DEF Next, Stop

\* The variables of the program keep their types (TypeOK), and a process with a row in the
\* list is one the server authorized.
THEOREM TypeCorrect == Spec => []TypeOK
<1>1. Init => TypeOK
  BY InitType
<1>2. TypeOK /\ [Next]_vars => TypeOK'
  BY NextType
<1> QED
  BY <1>1, <1>2, PTL DEF Spec
--------------------------------------------------------------------------------
(* The inductive invariant.  ReadsAccounted counts; the other parts order   *)
(* what the two threads do.                                                 *)

Ordering == MutexesOwned /\ EventsOrdered /\ ReadsOrdered /\ TerminalsLast /\ MenusOrdered

\* What a queue is after a push: List::Add (LIST_APPEND) and AddPendingEvent append.
LEMMA Pushed ==
    ASSUME NEW S, NEW q \in Seq(S), NEW e \in S, NEW r, r = Append(q, e)
    PROVE  /\ Len(q) \in Nat /\ Len(r) = Len(q) + 1 /\ r # <<>> /\ r \in Seq(S)
           /\ r[Len(r)] = e
           /\ \A i \in 1..Len(q) : r[i] = q[i]
           /\ q # <<>> => Len(q) \in 1..Len(q) /\ 1 \in 1..Len(q)
           /\ q = <<>> => Len(q) = 0 /\ r[1] = e
  OBVIOUS

\* What a queue is after a pop: OnSocketRead's ExtractFirst and the event loop take the first.
LEMMA Popped ==
    ASSUME NEW S, NEW q \in Seq(S), q # <<>>, NEW r, r = Tail(q)
    PROVE  /\ Len(q) \in Nat \ {0} /\ Len(r) = Len(q) - 1 /\ r \in Seq(S)
           /\ Head(q) = q[1] /\ 1 \in 1..Len(q) /\ Len(q) \in 1..Len(q)
           /\ \A i \in 1..Len(r) : r[i] = q[i + 1] /\ i + 1 \in 1..Len(q)
           /\ r = <<>> <=> Len(q) = 1
           /\ r # <<>> => 1 \in 1..Len(r) /\ Len(r) \in 1..Len(r) /\ r[Len(r)] = q[Len(q)]
<1>1. /\ Len(q) \in Nat \ {0} /\ Len(r) = Len(q) - 1 /\ r \in Seq(S) /\ Head(q) = q[1]
      /\ \A i \in 1..Len(r) : r[i] = q[i + 1]
  OBVIOUS
<1>2. /\ 1 \in 1..Len(q) /\ Len(q) \in 1..Len(q)
      /\ \A i \in 1..Len(r) : i + 1 \in 1..Len(q)
  BY <1>1
<1>3. r = <<>> <=> Len(r) = 0
  BY <1>1
<1>4. r = <<>> <=> Len(q) = 1
  BY <1>1, <1>3
<1>5. ASSUME r # <<>>
      PROVE  1 \in 1..Len(r) /\ Len(r) \in 1..Len(r) /\ r[Len(r)] = q[Len(q)]
  <2>1. Len(r) \in Nat \ {0}
    BY <1>1, <1>3, <1>5
  <2>2. Len(r) \in 1..Len(r) /\ 1 \in 1..Len(r) /\ Len(r) + 1 = Len(q)
    BY <1>1, <2>1
  <2> QED
    BY <1>1, <2>2
<1> QED
  BY <1>1, <1>2, <1>4, <1>5

\* Opening a box leaves the boxes under it as they are.
LEMMA NoticeBox ==
    ASSUME NEW S, NEW q \in Seq(S), NEW e
    PROVE  \A i \in 1..Len(Append(q, e)) :
              Append(q, e)[i] = e \/ (i \in 1..Len(q) /\ Append(q, e)[i] = q[i])
  OBVIOUS

\* The terms of ReadsAccounted that say whether something is pending are 0 or 1.
LEMMA CountsAreBits ==
    ASSUME TypeOK
    PROVE  /\ PendingConnects \in {0, 1} /\ PendingFailures \in {0, 1}
           /\ ReadsInHand \in {0, 1} /\ ReadsToPost \in {0, 1}
           /\ Len(events) \in Nat /\ Len(incoming) \in Nat
           /\ PendingFailures <= Len(events)
  BY DEF TypeOK, PendingConnects, PendingFailures, ReadsInHand, ReadsToPost

\* A step that leaves the events, Incoming and the place of both threads in the handling
\* of a packet alone keeps the count.
LEMMA ReadsFrame ==
    ASSUME ReadsAccounted, events' = events, incoming' = incoming, net' = net,
           pc'["gui"] = "get" <=> pc["gui"] = "get", Unreported' <=> Unreported
    PROVE  ReadsAccounted'
  BY DEF ReadsAccounted, PendingConnects, PendingFailures, ReadsInHand, ReadsToPost

\* What a posted event changes in the counts: no failure is pending while the worker runs.
LEMMA PostAccounts ==
    ASSUME TypeOK, EventsOrdered, pc["worker"] # "done",
           NEW event \in {"Connect", "FailConnect", "Read", "FailRead"},
           events' = Append(events, event), event = "Connect" => events = <<>>
    PROVE  /\ Len(events') = Len(events) + 1
           /\ PendingFailures = 0
           /\ PendingFailures' = IF event \in Failures THEN 1 ELSE 0
           /\ PendingConnects' = IF event = "Connect" THEN 1 ELSE PendingConnects
<1>1. /\ Len(events) \in Nat /\ Len(events') = Len(events) + 1 /\ events' # <<>>
      /\ events'[Len(events')] = event
      /\ \A i \in 1..Len(events) : events'[i] = events[i]
      /\ events # <<>> => Len(events) \in 1..Len(events) /\ 1 \in 1..Len(events)
      /\ events = <<>> => events'[1] = event
  BY Pushed DEF TypeOK
<1>2. PendingFailures = 0
  BY <1>1 DEF EventsOrdered, PendingFailures
<1>3. PendingFailures' = IF event \in Failures THEN 1 ELSE 0
  BY <1>1 DEF PendingFailures, Failures
<1>4. events'[1] = IF events = <<>> THEN event ELSE events[1]
  BY <1>1
<1>5. PendingConnects' = IF event = "Connect" THEN 1 ELSE PendingConnects
  BY <1>1, <1>4 DEF PendingConnects
<1> QED
  BY <1>1, <1>2, <1>3, <1>5

\* What a dispatched event changes in the counts: a Connect event is the first one, and a
\* failure is the only one left.
LEMMA DispatchAccounts ==
    ASSUME TypeOK, EventsOrdered, NEW event, Dispatch(event)
    PROVE  /\ Len(events') = Len(events) - 1
           /\ PendingConnects = IF event = "Connect" THEN 1 ELSE 0
           /\ PendingConnects' = 0
           /\ PendingFailures' = PendingFailures - (IF event \in Failures THEN 1 ELSE 0)
<1> HIDE DEF Failures
<1>1. events # <<>> /\ events' = Tail(events) /\ event = Head(events)
  BY DEF Dispatch
<1>2. /\ Len(events) \in Nat \ {0} /\ Len(events') = Len(events) - 1 /\ event = events[1]
      /\ 1 \in 1..Len(events) /\ Len(events) \in 1..Len(events)
      /\ \A i \in 1..Len(events') : events'[i] = events[i + 1] /\ i + 1 \in 1..Len(events)
      /\ events' = <<>> <=> Len(events) = 1
      /\ events' # <<>> => 1 \in 1..Len(events') /\ events'[Len(events')] = events[Len(events)]
  <2>1. events \in Seq({"Connect", "FailConnect", "Read", "FailRead"})
    BY DEF TypeOK
  <2> QED
    BY <1>1, <2>1, Popped
<1>3. PendingConnects = IF event = "Connect" THEN 1 ELSE 0
  BY <1>1, <1>2 DEF PendingConnects
<1>4. ASSUME events' # <<>>, events'[1] = "Connect"
      PROVE  FALSE
  <2>1. events[1 + 1] = "Connect" /\ 1 + 1 \in 1..Len(events)
    BY <1>2, <1>4
  <2> QED
    BY <2>1 DEF EventsOrdered
<1>5. PendingConnects' = 0
  BY <1>4 DEF PendingConnects
<1>6. CASE event \in Failures
  <2>1. Len(events) = 1
    BY <1>2, <1>6 DEF EventsOrdered
  <2>2. PendingFailures = 1 /\ PendingFailures' = 0
    BY <1>1, <1>2, <1>6, <2>1 DEF PendingFailures
  <2> QED
    BY <1>2, <1>3, <1>5, <1>6, <2>2
<1>7. CASE event \notin Failures
  <2>1. PendingFailures' = PendingFailures
    <3>1. CASE events' = <<>>
      BY <1>1, <1>2, <1>7, <3>1 DEF PendingFailures
    <3>2. CASE events' # <<>>
      BY <1>1, <1>2, <3>2 DEF PendingFailures
    <3> QED
      BY <3>1, <3>2
  <2>2. PendingFailures \in {0, 1}
    BY DEF PendingFailures
  <2> QED
    BY <1>2, <1>3, <1>5, <1>7, <2>1, <2>2
<1> QED
  BY <1>6, <1>7

\* The handler of a Read event finds its packet, and one more when the worker is still to
\* report one.
LEMMA GetFinds ==
    ASSUME InductiveInvariant
    PROVE  /\ GetFindsPacket
           /\ pc["gui"] = "get" => Len(incoming) = Len(events) - PendingFailures + 1 + ReadsToPost
<1>1. pc["gui"] = "get" => net /\ PendingConnects = 0 /\ ReadsInHand = 1
  BY DEF InductiveInvariant, ReadsOrdered, PendingConnects, ReadsInHand
<1>2. pc["gui"] = "get" => Len(incoming) = Len(events) - PendingFailures + 1 + ReadsToPost
  BY <1>1, CountsAreBits DEF InductiveInvariant, ReadsAccounted
<1>3. pc["gui"] = "get" => Len(incoming) >= 1
  BY <1>2, CountsAreBits DEF InductiveInvariant
<1> QED
  BY <1>2, <1>3 DEF GetFindsPacket

\* What every branch of the dispatch on the packet leaves alone.
LEMMA GetDecides ==
    ASSUME InductiveInvariant, Get
    PROVE  /\ incoming # <<>> /\ incoming' = Tail(incoming) /\ net' = net
           /\ pc' = [pc EXCEPT !["gui"] = pc'["gui"]] /\ ret'["worker"] = ret["worker"]
           /\ pc'["gui"] \in {"loop", "addOut", "waitNotice", "crashFreedList"}
           /\ pc'["gui"] = "addOut" => ret'["gui"] = "loop"
           /\ pc'["gui"] = "waitNotice" => Terminal(Head(incoming))
           /\ modal' = modal \/ modal' = Append(modal, "notice")
           /\ UNCHANGED <<menuConnect, menuDisconnect, menuProcess>>
<1> DEFINE p == Head(incoming)
<1>1. incoming # <<>>
  BY GetFinds DEF GetFindsPacket, Get
<1>2. incoming' = Tail(incoming)
  BY <1>1 DEF Get
<1> USE DEF InductiveInvariant, TypeOK
<1>3. CASE HandleTerminal(p)
  BY <1>1, <1>2, <1>3 DEF HandleTerminal
<1>4. CASE HandleNotice(p)
  BY <1>1, <1>2, <1>4 DEF HandleNotice
<1>5. CASE HandleAuthorized(p)
  BY <1>1, <1>2, <1>5 DEF HandleAuthorized
<1>6. CASE HandleProcessInfo(p)
  BY <1>1, <1>2, <1>6 DEF HandleProcessInfo, QueueAndSend
<1>7. CASE HandleOther(p)
  BY <1>1, <1>2, <1>7 DEF HandleOther
<1>8. CASE HandleFreedList(p)
  BY <1>1, <1>2, <1>8 DEF HandleFreedList
<1> QED
  BY <1>1, <1>3, <1>4, <1>5, <1>6, <1>7, <1>8 DEF Get

\* Send keeps the count.
LEMMA SendReads ==
    ASSUME InductiveInvariant, TypeOK', NEW t \in {"worker", "gui"}, Send(t), UNCHANGED window
    PROVE  ReadsAccounted'
<1> USE DEF TypeOK, InductiveInvariant, Unreported
<1>1. CASE SendLock(t)
  BY <1>1, ReadsFrame DEF SendLock
<1>2. CASE SendNext(t)
  BY <1>2, ReadsFrame DEF SendNext
<1>3. CASE SendFails(t)
  BY <1>3, ReadsFrame DEF SendFails
<1>4. CASE SendReturns(t)
  BY <1>4, ReadsFrame DEF SendReturns
<1> QED
  BY <1>1, <1>2, <1>3, <1>4 DEF Send

\* The worker's steps keep the count.
LEMMA WorkerReads ==
    ASSUME InductiveInvariant, TypeOK', Worker, UNCHANGED window
    PROVE  ReadsAccounted'
<1> USE DEF TypeOK, InductiveInvariant, Unreported
<1>1. CASE Connect
  BY <1>1, ReadsFrame DEF Connect
<1>2. CASE PostConnect
  <2>1. Len(events') = Len(events) + 1 /\ PendingFailures = 0 /\ PendingFailures' = 0
        /\ PendingConnects = 0 /\ PendingConnects' = 1 /\ events = <<>>
    BY <1>2, PostAccounts DEF PostConnect, Post, EventsOrdered, Starting, PendingConnects, Failures
  <2>2. ReadsInHand' = ReadsInHand /\ ReadsToPost' = ReadsToPost
    BY <1>2 DEF PostConnect, Post, ReadsInHand, ReadsToPost
  <2> QED
    BY <1>2, <2>1, <2>2, CountsAreBits DEF PostConnect, Post, ReadsAccounted
<1>3. CASE PostFailConnect
  <2>1. Len(events') = Len(events) + 1 /\ PendingFailures = 0 /\ PendingFailures' = 1
        /\ PendingConnects' = PendingConnects
    BY <1>3, PostAccounts DEF PostFailConnect, Post, Failures
  <2>2. ReadsInHand' = ReadsInHand /\ ReadsToPost' = ReadsToPost
    BY <1>3 DEF PostFailConnect, Post, ReadsInHand, ReadsToPost
  <2> QED
    BY <1>3, <2>1, <2>2, CountsAreBits DEF PostFailConnect, Post, ReadsAccounted
<1>4. CASE PostFailRead
  <2>1. Len(events') = Len(events) + 1 /\ PendingFailures = 0 /\ PendingFailures' = 1
        /\ PendingConnects' = PendingConnects
    BY <1>4, PostAccounts DEF PostFailRead, Post, Failures
  <2>2. ReadsInHand' = ReadsInHand /\ ReadsToPost' = ReadsToPost
    BY <1>4 DEF PostFailRead, Post, ReadsInHand, ReadsToPost
  <2> QED
    BY <1>4, <2>1, <2>2, CountsAreBits DEF PostFailRead, Post, ReadsAccounted
<1>5. CASE PostRead
  <2>1. Len(events') = Len(events) + 1 /\ PendingFailures = 0 /\ PendingFailures' = 0
        /\ PendingConnects' = PendingConnects
    BY <1>5, PostAccounts DEF PostRead, Post, Failures
  <2>2. ReadsInHand' = ReadsInHand /\ ReadsToPost = 1 /\ ReadsToPost' = 0
    BY <1>5 DEF PostRead, Post, ReadsInHand, ReadsToPost
  <2> QED
    BY <1>5, <2>1, <2>2, CountsAreBits DEF PostRead, Post, ReadsAccounted
<1>6. CASE QueueHello
  BY <1>6, ReadsFrame DEF QueueHello
<1>7. CASE ReceiveFails
  BY <1>7, ReadsFrame DEF ReceiveFails
<1>8. CASE AppendIncoming
  <2>1. ReadsInHand' = ReadsInHand /\ ReadsToPost = 0 /\ ReadsToPost' = 1
    BY <1>8 DEF AppendIncoming, ReadsInHand, ReadsToPost
  <2>2. Len(incoming') = Len(incoming) + 1 /\ events' = events /\ net' = net
    BY <1>8 DEF AppendIncoming
  <2>3. PendingConnects' = PendingConnects /\ PendingFailures' = PendingFailures
    BY <2>2 DEF PendingConnects, PendingFailures
  <2>4. /\ Len(incoming) \in Nat /\ Len(events) \in Nat
        /\ PendingConnects \in {0, 1} /\ PendingFailures \in {0, 1} /\ ReadsInHand \in {0, 1}
    BY CountsAreBits
  <2>5. net' => Len(incoming) + PendingConnects + PendingFailures = Len(events) + ReadsInHand
    BY <2>1, <2>2, <2>4 DEF ReadsAccounted
  <2> HIDE DEF TypeOK, InductiveInvariant
  <2> QED
    BY <2>1, <2>2, <2>3, <2>4, <2>5 DEF ReadsAccounted
<1>9. CASE LockOutgoing
  BY <1>9, ReadsFrame DEF LockOutgoing
<1>10. CASE LockIncoming
  BY <1>10, ReadsFrame DEF LockIncoming
<1>11. CASE AnswerLast
  BY <1>11, ReadsFrame DEF AnswerLast, ReadsOrdered
<1>12. CASE UnlockOutgoing
  BY <1>12, ReadsFrame DEF UnlockOutgoing
<1>13. CASE UnlockIncoming
  BY <1>13, ReadsFrame DEF UnlockIncoming
<1>14. CASE DropTerminal
  BY <1>14, ReadsFrame DEF DropTerminal, Drop
<1>15. CASE DropError
  BY <1>15, ReadsFrame DEF DropError, Drop
<1>16. CASE CheckExiting
  BY <1>16, ReadsFrame DEF CheckExiting
<1>17. ASSUME NEW p \in ServerPackets, ReceivePacket(p)
      PROVE  ReadsAccounted'
  BY <1>17, ReadsFrame DEF ReceivePacket
<1>18. CASE Send("worker")
  BY <1>18, SendReads
<1> QED
  BY <1>1, <1>2, <1>3, <1>4, <1>5, <1>6, <1>7, <1>8, <1>9, <1>10, <1>11, <1>12, <1>13,
     <1>14, <1>15, <1>16, <1>17, <1>18 DEF Worker, WorkerStep

\* The server's steps keep the count.
LEMMA ServerReadsAccounted ==
    ASSUME InductiveInvariant, TypeOK', Server, UNCHANGED window
    PROVE  ReadsAccounted'
<1> USE DEF TypeOK, InductiveInvariant, Unreported
<1>1. CASE ServerReads
  BY <1>1, ReadsFrame DEF ServerReads
<1>2. CASE ServerCloses
  BY <1>2, ReadsFrame DEF ServerCloses
<1> QED
  BY <1>1, <1>2 DEF Server

\* The user's commands keep the count.
LEMMA UserReads ==
    ASSUME InductiveInvariant, TypeOK', User
    PROVE  ReadsAccounted'
<1> USE DEF TypeOK, InductiveInvariant, Unreported
<1>1. CASE OnConnect
  BY <1>1, ReadsFrame DEF OnConnect, UserCanAct, InLoop, network
<1>2. CASE LoginOk
  <2>1. events' = <<>> /\ incoming' = <<>>
    BY <1>2 DEF LoginOk, StartNetwork
  <2>2. ReadsInHand' = 0 /\ ReadsToPost' = 0
    BY <1>2 DEF LoginOk, StartNetwork, ReadsInHand, ReadsToPost
  <2> QED
    BY <2>1, <2>2 DEF ReadsAccounted, PendingConnects, PendingFailures
<1>3. CASE LoginCancel
  BY <1>3, ReadsFrame DEF LoginCancel, InLoop, network
<1>4. CASE OnDisconnect
  BY <1>4, ReadsFrame DEF OnDisconnect, UserCanAct, InLoop, SendDisconnect, QueueAndSend
<1>5. CASE OnClose
  BY <1>5, ReadsFrame DEF OnClose, UserCanAct, InLoop, SendDisconnect, QueueAndSend, GuiGoto
<1>6. ASSUME NEW idx \in pages, OnProcessCommand(idx, "ProcessKill")
      PROVE  ReadsAccounted'
  BY <1>6, ReadsFrame, SMTT(40) DEF OnProcessCommand, UserCanAct, InLoop, QueueAndSend, GuiGoto
<1> QED
  BY <1>1, <1>2, <1>3, <1>4, <1>5, <1>6 DEF User

\* The handlers of the worker's events keep the count.
LEMMA EventReads ==
    ASSUME InductiveInvariant, TypeOK', EventStep
    PROVE  ReadsAccounted'
<1> USE DEF TypeOK, InductiveInvariant, Unreported
<1>1. CASE OnSocketConnected
  <2>1. Len(events') = Len(events) - 1 /\ PendingFailures' = PendingFailures - 0
        /\ PendingConnects = 1 /\ PendingConnects' = 0
    BY <1>1, DispatchAccounts DEF OnSocketConnected, Failures
  <2>2. ReadsInHand' = ReadsInHand /\ ReadsToPost' = ReadsToPost
        /\ net' = net /\ incoming' = incoming
    BY <1>1 DEF OnSocketConnected, Dispatch, ReadsInHand, ReadsToPost
  <2>3. TypeOK /\ ReadsAccounted
    OBVIOUS
  <2> HIDE DEF TypeOK, InductiveInvariant
  <2> QED
    BY <2>1, <2>2, <2>3, CountsAreBits DEF ReadsAccounted
<1>2. CASE OnSocketRead
  <2>1. Len(events') = Len(events) - 1 /\ PendingFailures' = PendingFailures - 0
        /\ PendingConnects = 0 /\ PendingConnects' = 0
    <3>1. Dispatch("Read") /\ EventsOrdered /\ TypeOK
      BY <1>2 DEF OnSocketRead
    <3> HIDE DEF TypeOK, InductiveInvariant
    <3> QED
      BY <3>1, DispatchAccounts DEF Failures
  <2>2. net => ReadsInHand = 0 /\ ReadsInHand' = 1 /\ ReadsToPost' = ReadsToPost
    BY <1>2 DEF OnSocketRead, Dispatch, InLoop, ReadsInHand, ReadsToPost
  <2>3. net' = net /\ incoming' = incoming
    BY <1>2 DEF OnSocketRead, Dispatch
  <2>4. TypeOK /\ ReadsAccounted
    OBVIOUS
  <2> HIDE DEF TypeOK, InductiveInvariant
  <2> QED
    BY <2>1, <2>2, <2>3, <2>4, CountsAreBits DEF ReadsAccounted
<1>3. CASE OnSocketFail
  <2>1. PICK event \in Failures : Dispatch(event)
    BY <1>3 DEF OnSocketFail, Failures
  <2>2. Len(events') = Len(events) - 1 /\ PendingFailures' = PendingFailures - 1
        /\ PendingConnects = 0 /\ PendingConnects' = 0
    BY <2>1, DispatchAccounts DEF Failures
  <2>3. ReadsInHand' = ReadsInHand /\ ReadsToPost' = ReadsToPost
        /\ net' = net /\ incoming' = incoming
    BY <1>3, <2>1 DEF OnSocketFail, Dispatch, ReadsInHand, ReadsToPost
  <2>4. TypeOK /\ ReadsAccounted
    OBVIOUS
  <2> HIDE DEF TypeOK, InductiveInvariant
  <2> QED
    BY <2>2, <2>3, <2>4, CountsAreBits DEF ReadsAccounted
<1>4. CASE Get
  <2>1. incoming' = Tail(incoming) /\ events' = events /\ net' = net
    BY <1>4, GetFinds, GetDecides DEF GetFindsPacket, Get
  <2>2. ReadsInHand = 1 /\ ReadsInHand' = 0 /\ ReadsToPost' = ReadsToPost
    <3>1. pc["gui"] = "get"
      BY <1>4 DEF Get
    <3>2. /\ pc' = [pc EXCEPT !["gui"] = pc'["gui"]] /\ ret'["worker"] = ret["worker"]
          /\ pc'["gui"] # "get"
      BY <1>4, GetDecides
    <3> QED
      BY <3>1, <3>2 DEF ReadsInHand, ReadsToPost
  <2>3. Len(incoming') = Len(incoming) - 1
    BY <1>4, <2>1, GetFinds, Popped DEF GetFindsPacket, Get
  <2>4. PendingConnects' = PendingConnects /\ PendingFailures' = PendingFailures
    BY <2>1 DEF PendingConnects, PendingFailures
  <2> HIDE DEF TypeOK
  <2> QED
    BY <2>1, <2>2, <2>3, <2>4, CountsAreBits DEF ReadsAccounted
<1> QED
  BY <1>1, <1>2, <1>3, <1>4 DEF EventStep

\* The GUI thread's other steps keep the count.
LEMMA HandlerReads ==
    ASSUME InductiveInvariant, TypeOK', HandlerStep \/ DismissBox
    PROVE  ReadsAccounted'
<1> USE DEF TypeOK, InductiveInvariant, Unreported
<1>1. CASE AddOut
  BY <1>1, ReadsFrame DEF AddOut
<1>2. CASE Disconnect
  BY <1>2 DEF Disconnect, ReadsAccounted
<1>3. CASE Destroy
  BY <1>3, ReadsFrame DEF Destroy, GuiGoto
<1>4. CASE Destructor
  BY <1>4, ReadsFrame DEF Destructor, GuiGoto, InLoop
<1>5. CASE WaitExit
  BY <1>5, ReadsFrame DEF WaitExit, GuiGoto
<1>6. CASE Send("gui") /\ UNCHANGED window
  BY <1>6, SendReads
<1>7. CASE DismissBox
  BY <1>7, ReadsFrame DEF DismissBox, InLoop, network
<1> QED
  BY <1>1, <1>2, <1>3, <1>4, <1>5, <1>6, <1>7 DEF HandlerStep

\* Handling a packet keeps the order: the packet is the oldest one, and a packet that ends
\* the session is alone in Incoming, with no event left.
LEMMA GetOrdering ==
    ASSUME InductiveInvariant, TypeOK', Get
    PROVE  Ordering'
<1> DEFINE p == Head(incoming)
<1>1. /\ incoming # <<>> /\ incoming' = Tail(incoming) /\ net' = net
      /\ events' = events /\ pkt' = pkt /\ outMutex' = outMutex /\ inMutex' = inMutex
      /\ pc["gui"] = "get" /\ pc' = [pc EXCEPT !["gui"] = pc'["gui"]]
      /\ ret'["worker"] = ret["worker"]
  BY GetDecides DEF Get
<1>2. /\ Len(incoming) \in Nat \ {0} /\ Len(incoming') = Len(incoming) - 1
      /\ p = incoming[1] /\ 1 \in 1..Len(incoming)
      /\ \A i \in 1..Len(incoming') :
              incoming'[i] = incoming[i + 1] /\ i + 1 \in 1..Len(incoming)
      /\ incoming' = <<>> <=> Len(incoming) = 1
      /\ incoming' # <<>> => incoming'[Len(incoming')] = incoming[Len(incoming)]
  <2>1. incoming \in Seq(Packet)
    BY DEF InductiveInvariant, TypeOK
  <2> QED
    BY <1>1, <2>1, Popped
<1>3. Len(incoming) = Len(events) - PendingFailures + 1 + ReadsToPost
  BY <1>1, GetFinds
<1>4. Unreported => Len(incoming) >= 2
  BY <1>3, CountsAreBits DEF ReadsToPost, InductiveInvariant
<1>5. Unreported' <=> Unreported
  BY <1>1 DEF Unreported, InductiveInvariant, TypeOK
<1>6. /\ pc'["gui"] \in {"loop", "addOut", "waitNotice", "crashFreedList"}
      /\ pc'["worker"] = pc["worker"]
  BY <1>1, GetDecides DEF InductiveInvariant, TypeOK
<1>7. MutexesOwned'
  BY <1>1, <1>6 DEF InductiveInvariant, MutexesOwned
<1>8. EventsOrdered'
  BY <1>1, <1>6 DEF InductiveInvariant, EventsOrdered, Starting, Failures
<1>9. ReadsOrdered'
  <2>1. Unreported => incoming' # <<>>
    BY <1>2, <1>4
  <2>2. Unreported => incoming'[Len(incoming')] = pkt
    BY <1>2, <2>1 DEF InductiveInvariant, ReadsOrdered
  <2> QED
    BY <1>1, <1>5, <1>6, <2>1, <2>2 DEF ReadsOrdered
<1>10. TerminalsLast'
  <2>1. ASSUME NEW i \in 1..Len(incoming'), Terminal(incoming'[i])
        PROVE  /\ i = Len(incoming')
               /\ Unreported' \/ pc'["worker"] \in {"dropTerminal", "done"}
               /\ events' # <<>> => events'[Len(events')] \notin Failures
    <3> HIDE DEF p
    <3>1. i + 1 \in 1..Len(incoming) /\ Terminal(incoming[i + 1])
      BY <1>2, <2>1
    <3>2. /\ i + 1 = Len(incoming)
          /\ Unreported \/ pc["worker"] \in {"dropTerminal", "done"}
          /\ events # <<>> => events[Len(events)] \notin Failures
      BY <3>1 DEF InductiveInvariant, TerminalsLast
    <3>3. i = Len(incoming')
      BY <1>2, <2>1, <3>2
    <3> QED
      BY <1>1, <1>5, <1>6, <3>2, <3>3
  <2>2. pc'["worker"] = "dropTerminal" => Terminal(pkt')
    BY <1>1, <1>6 DEF InductiveInvariant, TerminalsLast, Terminal
  <2>3. ASSUME pc'["gui"] = "waitNotice"
        PROVE  pc'["worker"] \in {"dropTerminal", "done"} /\ events' = <<>> /\ incoming' = <<>>
    <3>1. Terminal(incoming[1]) /\ 1 \in 1..Len(incoming)
      BY <1>2, <2>3, GetDecides
    <3>2. Len(incoming) = 1 /\ (events # <<>> => events[Len(events)] \notin Failures)
      BY <3>1 DEF InductiveInvariant, TerminalsLast
    <3>3. PendingFailures = 0
      BY <3>2 DEF PendingFailures
    <3>4. ReadsToPost = 0 /\ ~Unreported
      BY <1>4, <3>2 DEF ReadsToPost
    <3>5. Len(events) = 0
      <4>1. Len(events) \in Nat
        BY CountsAreBits DEF InductiveInvariant
      <4> QED
        <5>1. 1 = Len(events) - 0 + 1 + 0
          BY <1>3, <3>2, <3>3, <3>4
        <5> QED
          BY <4>1, <5>1
    <3>6. events = <<>> /\ incoming' = <<>>
      BY <1>2, <3>2, <3>5 DEF InductiveInvariant, TypeOK
    <3>7. pc["worker"] \in {"dropTerminal", "done"}
      BY <3>1, <3>4 DEF InductiveInvariant, TerminalsLast
    <3> QED
      BY <1>1, <1>6, <3>6, <3>7
  <2> QED
    BY <2>1, <2>2, <2>3 DEF TerminalsLast
<1>11. MenusOrdered'
  <2>1. Disconnecting' => menuDisconnect'
    BY <1>6, GetDecides DEF Disconnecting
  <2>2. \A i \in 1..Len(modal') :
            modal'[i] = "notice" \/ (i \in 1..Len(modal) /\ modal'[i] = modal[i])
    <3>1. CASE modal' = modal
      BY <3>1
    <3>2. CASE modal' = Append(modal, "notice")
      <4>1. modal \in Seq({"login", "notice", "failure"})
        BY DEF InductiveInvariant, TypeOK
      <4> QED
        BY <3>2, <4>1, NoticeBox
    <3> QED
      BY <3>1, <3>2, GetDecides
  <2>3. UNCHANGED <<menuConnect, menuDisconnect, menuProcess>>
    BY GetDecides
  <2> QED
    BY <1>1, <1>6, <2>1, <2>2, <2>3
    DEF InductiveInvariant, MenusOrdered, MenusNeedNet, ExitAfterWorker, Starting
<1> QED
  BY <1>7, <1>8, <1>9, <1>10, <1>11 DEF Ordering

\* Send keeps the order.
LEMMA SendOrdering ==
    ASSUME InductiveInvariant, TypeOK', NEW t \in {"worker", "gui"}, Send(t), UNCHANGED window
    PROVE  Ordering'
<1> USE DEF TypeOK, InductiveInvariant, Ordering, MutexesOwned, EventsOrdered, ReadsOrdered,
            TerminalsLast, MenusOrdered, MenusNeedNet, ExitAfterWorker, Failures, Starting,
            Unreported, Disconnecting
<1>1. CASE SendLock(t)
  BY <1>1, SMTT(20) DEF SendLock
<1>2. CASE SendNext(t)
  BY <1>2, SMTT(20) DEF SendNext
<1>3. CASE SendFails(t)
  BY <1>3, SMTT(40) DEF SendFails
<1>4. CASE SendReturns(t)
  BY <1>4, SMTT(20) DEF SendReturns
<1> QED
  BY <1>1, <1>2, <1>3, <1>4 DEF Send

\* The worker's steps keep the order.
LEMMA WorkerOrdering ==
    ASSUME InductiveInvariant, TypeOK', Worker, UNCHANGED window
    PROVE  Ordering'
<1> USE DEF TypeOK, InductiveInvariant, Ordering, MutexesOwned, EventsOrdered, ReadsOrdered,
            TerminalsLast, MenusOrdered, MenusNeedNet, ExitAfterWorker, Failures, Starting,
            Unreported, Disconnecting
<1>1. CASE Connect
  BY <1>1, SMTT(20) DEF Connect
<1>2. CASE PostConnect
  <2> HIDE DEF MenusOrdered, TerminalsLast, ReadsOrdered, EventsOrdered, MutexesOwned, TypeOK
  <2>1. /\ events' = Append(events, "Connect") /\ pc["worker"] = "postConnect"
        /\ pc'["worker"] = "hello" /\ pc'["gui"] = pc["gui"]
        /\ UNCHANGED <<ret, incoming, outMutex, inMutex, pkt, window>>
    BY <1>2 DEF PostConnect, Post, TypeOK
  <2>2. events = <<>> /\ incoming = <<>> /\ net
    BY <2>1 DEF EventsOrdered
  <2>3. Len(events') = 1 /\ events'[1] = "Connect"
    BY <2>1, <2>2
  <2>4. MutexesOwned' /\ EventsOrdered'
    BY <2>1, <2>2, <2>3 DEF MutexesOwned, EventsOrdered
  <2>5. ReadsOrdered'
    BY <2>1, <2>2, <2>3, GetFinds DEF ReadsOrdered, GetFindsPacket
  <2>6. TerminalsLast'
    BY <2>1, <2>2, <2>3 DEF TerminalsLast
  <2>7. MenusOrdered'
    BY <2>1, <2>2, <2>3 DEF MenusOrdered
  <2> QED
    BY <2>4, <2>5, <2>6, <2>7
<1>3. CASE PostFailConnect
  BY <1>3, SMTT(20) DEF PostFailConnect, Post
<1>4. CASE PostFailRead
  BY <1>4, SMTT(20) DEF PostFailRead, Post
<1>5. CASE PostRead
  BY <1>5, SMTT(20) DEF PostRead, Post
<1>6. CASE QueueHello
  BY <1>6, SMTT(20) DEF QueueHello
<1>7. CASE ReceiveFails
  BY <1>7, SMTT(20) DEF ReceiveFails
<1>8. CASE AppendIncoming
  <2>1. MutexesOwned'
    BY <1>8 DEF AppendIncoming
  <2>2. EventsOrdered'
    BY <1>8 DEF AppendIncoming
  <2>3. ReadsOrdered'
    <3>1. incoming \in Seq(Packet) /\ pkt \in Packet /\ pkt' = pkt
          /\ incoming' = Append(incoming, pkt)
      BY <1>8 DEF AppendIncoming
    <3>2. incoming' # <<>> /\ incoming'[Len(incoming')] = pkt'
      <4> HIDE DEF TypeOK, InductiveInvariant
      <4> QED
        BY <3>1, Pushed
    <3>3. /\ pc'["gui"] = pc["gui"] /\ events' = events /\ net' = net
      BY <1>8 DEF AppendIncoming
    <3> QED
      BY <3>2, <3>3 DEF ReadsOrdered
  <2>4. TerminalsLast'
    <3>1. \A i \in 1..Len(incoming) : ~Terminal(incoming[i])
      BY <1>8 DEF AppendIncoming
    <3>2. \A i \in 1..Len(incoming') : i = Len(incoming') \/ ~Terminal(incoming'[i])
      BY <1>8, <3>1 DEF AppendIncoming
    <3>3. events # <<>> => events[Len(events)] \notin Failures
      BY <1>8 DEF AppendIncoming
    <3>4. /\ pc'["worker"] = "lockOut" /\ pc'["gui"] = pc["gui"] /\ pc["worker"] = "append"
          /\ events' = events
      BY <1>8 DEF AppendIncoming
    <3> QED
      BY <3>2, <3>3, <3>4 DEF TerminalsLast
  <2>5. MenusOrdered'
    BY <1>8 DEF AppendIncoming
  <2> QED
    BY <2>1, <2>2, <2>3, <2>4, <2>5
<1>9. CASE LockOutgoing
  BY <1>9, SMTT(20) DEF LockOutgoing
<1>10. CASE LockIncoming
  BY <1>10, SMTT(20) DEF LockIncoming
<1>11. CASE AnswerLast
  BY <1>11, SMTT(20) DEF AnswerLast
<1>12. CASE UnlockOutgoing
  BY <1>12, SMTT(20) DEF UnlockOutgoing
<1>13. CASE UnlockIncoming
  BY <1>13, SMTT(20) DEF UnlockIncoming
<1>14. CASE DropTerminal
  BY <1>14, SMTT(20) DEF DropTerminal, Drop
<1>15. CASE DropError
  BY <1>15, SMTT(20) DEF DropError, Drop
<1>16. CASE CheckExiting
  BY <1>16, SMTT(20) DEF CheckExiting
<1>17. ASSUME NEW p \in ServerPackets, ReceivePacket(p)
      PROVE  Ordering'
  BY <1>17, SMTT(20) DEF ReceivePacket
<1>18. CASE Send("worker")
  BY <1>18, SendOrdering
<1> QED
  BY <1>1, <1>2, <1>3, <1>4, <1>5, <1>6, <1>7, <1>8, <1>9, <1>10, <1>11, <1>12, <1>13,
     <1>14, <1>15, <1>16, <1>17, <1>18 DEF Worker, WorkerStep

\* The server's steps keep the order.
LEMMA ServerOrdering ==
    ASSUME InductiveInvariant, TypeOK', Server, UNCHANGED window
    PROVE  Ordering'
<1> USE DEF TypeOK, InductiveInvariant, Ordering, MutexesOwned, EventsOrdered, ReadsOrdered,
            TerminalsLast, MenusOrdered, MenusNeedNet, ExitAfterWorker, Failures, Starting,
            Unreported, Disconnecting
<1>1. CASE ServerReads
  BY <1>1, SMTT(20) DEF ServerReads
<1>2. CASE ServerCloses
  BY <1>2, SMTT(20) DEF ServerCloses
<1> QED
  BY <1>1, <1>2 DEF Server

\* The user's commands keep the order.
LEMMA UserOrdering ==
    ASSUME InductiveInvariant, TypeOK', User
    PROVE  Ordering'
<1> USE DEF TypeOK, InductiveInvariant, Ordering, MutexesOwned, EventsOrdered, ReadsOrdered,
            TerminalsLast, MenusOrdered, MenusNeedNet, ExitAfterWorker, Failures, Starting,
            Unreported, Disconnecting
<1>1. CASE OnConnect
  BY <1>1, SMTT(20) DEF OnConnect, UserCanAct, InLoop, network
<1>2. CASE LoginOk
  BY <1>2, SMTT(20) DEF LoginOk, StartNetwork, InLoop
<1>3. CASE LoginCancel
  BY <1>3, SMTT(20) DEF LoginCancel, InLoop, network
<1>4. CASE OnDisconnect
  BY <1>4, SMTT(20) DEF OnDisconnect, UserCanAct, InLoop, SendDisconnect, QueueAndSend
<1>5. CASE OnClose
  BY <1>5, SMTT(40) DEF OnClose, UserCanAct, InLoop, SendDisconnect, QueueAndSend, GuiGoto
<1>6. ASSUME NEW idx \in pages, OnProcessCommand(idx, "ProcessKill")
      PROVE  Ordering'
  BY <1>6, SMTT(20) DEF OnProcessCommand, UserCanAct, InLoop, QueueAndSend, GuiGoto
<1> QED
  BY <1>1, <1>2, <1>3, <1>4, <1>5, <1>6 DEF User

\* The handlers of the worker's events keep the order.
LEMMA EventOrdering ==
    ASSUME InductiveInvariant, TypeOK', EventStep
    PROVE  Ordering'
<1> USE DEF TypeOK, InductiveInvariant, Ordering, MutexesOwned, EventsOrdered, ReadsOrdered,
            TerminalsLast, MenusOrdered, MenusNeedNet, ExitAfterWorker, Failures, Starting,
            Unreported, Disconnecting
<1>1. CASE OnSocketConnected
  BY <1>1, SMTT(40) DEF OnSocketConnected, Dispatch, InLoop
<1>2. CASE OnSocketRead
  BY <1>2, SMTT(40) DEF OnSocketRead, Dispatch, InLoop
<1>3. CASE OnSocketFail
  BY <1>3, SMTT(90) DEF OnSocketFail, Dispatch, InLoop
<1>4. CASE Get
  BY <1>4, GetOrdering
<1> QED
  BY <1>1, <1>2, <1>3, <1>4 DEF EventStep

\* The GUI thread's other steps keep the order.
LEMMA HandlerOrdering ==
    ASSUME InductiveInvariant, TypeOK', HandlerStep \/ DismissBox
    PROVE  Ordering'
<1> USE DEF TypeOK, InductiveInvariant, Ordering, MutexesOwned, EventsOrdered, ReadsOrdered,
            TerminalsLast, MenusOrdered, MenusNeedNet, ExitAfterWorker, Failures, Starting,
            Unreported, Disconnecting
<1>1. CASE AddOut
  BY <1>1, SMTT(20) DEF AddOut
<1>2. CASE Disconnect
  BY <1>2, SMTT(40) DEF Disconnect, GuiGoto
<1>3. CASE Destroy
  BY <1>3, SMTT(20) DEF Destroy, GuiGoto
<1>4. CASE Destructor
  BY <1>4, SMTT(20) DEF Destructor, GuiGoto, InLoop
<1>5. CASE WaitExit
  BY <1>5, SMTT(20) DEF WaitExit, GuiGoto
<1>6. CASE Send("gui") /\ UNCHANGED window
  BY <1>6, SendOrdering
<1>7. CASE DismissBox
  BY <1>7, SMTT(40) DEF DismissBox, InLoop, network
<1> QED
  BY <1>1, <1>2, <1>3, <1>4, <1>5, <1>6, <1>7 DEF HandlerStep
--------------------------------------------------------------------------------
(* The theorems.                                                            *)

\* Every reachable state satisfies the inductive invariant: each mutex is owned exactly
\* inside its critical section, events come in order and only from a worker Net points to,
\* Incoming holds one packet per Read event, terminal packets are last, and the menus
\* follow the session.
THEOREM InvariantInductive == Spec => []InductiveInvariant
<1>1. Init => InductiveInvariant
  <2> SUFFICES ASSUME Init
               PROVE  InductiveInvariant
    OBVIOUS
  <2>1. TypeOK
    BY InitType
  <2>2. MutexesOwned /\ EventsOrdered /\ ReadsOrdered /\ TerminalsLast /\ MenusOrdered
    BY DEF Init, MutexesOwned, EventsOrdered, ReadsOrdered, TerminalsLast, MenusOrdered,
           Unreported, Starting, Disconnecting, MenusNeedNet, ExitAfterWorker
  <2>3. ReadsAccounted
    BY DEF Init, ReadsAccounted
  <2> QED
    BY <2>1, <2>2, <2>3 DEF InductiveInvariant
<1>2. InductiveInvariant /\ [Next]_vars => InductiveInvariant'
  <2> SUFFICES ASSUME InductiveInvariant, [Next]_vars
               PROVE  InductiveInvariant'
    OBVIOUS
  <2>1. TypeOK'
    BY NextType DEF InductiveInvariant
  <2>2. CASE WorkerAction
    BY <2>1, <2>2, WorkerReads, WorkerOrdering
    DEF WorkerAction, InductiveInvariant, Ordering
  <2>3. CASE ServerAction
    BY <2>1, <2>3, ServerReadsAccounted, ServerOrdering
    DEF ServerAction, InductiveInvariant, Ordering
  <2>4. CASE GuiAction
    BY <2>1, <2>4, UserReads, UserOrdering, EventReads, EventOrdering, HandlerReads,
       HandlerOrdering
    DEF GuiAction, InductiveInvariant, Ordering
  <2>5. CASE UNCHANGED vars
    BY <2>1, <2>5, ZenonT(40) DEF vars, network, InductiveInvariant, MutexesOwned, EventsOrdered,
       ReadsAccounted, ReadsOrdered, TerminalsLast, MenusOrdered, PendingConnects,
       PendingFailures, ReadsInHand, ReadsToPost, Unreported, Starting, Disconnecting,
       MenusNeedNet, ExitAfterWorker
  <2> QED
    BY <2>2, <2>3, <2>4, <2>5 DEF Next, Stop
<1> QED
  BY <1>1, <1>2, PTL DEF Spec

\* Entry and Send: no thread waits for the server or for the other thread with a mutex
\* locked.
THEOREM NoLockHeld == Spec => []NoLockWhileWaiting
<1>1. InductiveInvariant => NoLockWhileWaiting
  BY DEF InductiveInvariant, MutexesOwned, NoLockWhileWaiting
<1> QED
  BY <1>1, InvariantInductive, PTL

\* Network::Get: ExtractFirst never runs on an empty Incoming.
THEOREM GetNeverEmpty == Spec => []GetFindsPacket
<1>1. InductiveInvariant => GetFindsPacket
  BY GetFinds
<1> QED
  BY <1>1, InvariantInductive, PTL

\* MainWindow: the session menus are enabled only while Net points to a Network object.
THEOREM MenusFollowNet == Spec => []MenusNeedNet
<1>1. InductiveInvariant => MenusNeedNet
  BY DEF InductiveInvariant, MenusOrdered
<1> QED
  BY <1>1, InvariantInductive, PTL

\* Network::Entry ends its loop with a terminal packet, so MainWindow::Disconnect leaves no
\* event of the session behind when that packet ends it.
THEOREM TerminalEndsSession == Spec => []TerminalIsLast
<1>1. InductiveInvariant => TerminalIsLast
  BY DEF InductiveInvariant, TerminalsLast, TerminalIsLast
<1> QED
  BY <1>1, InvariantInductive, PTL

\* ~MainWindow: the window is never destroyed under a running worker.
THEOREM WorkerEndsFirst == Spec => []ExitAfterWorker
<1>1. InductiveInvariant => ExitAfterWorker
  BY DEF InductiveInvariant, MenusOrdered
<1> QED
  BY <1>1, InvariantInductive, PTL

\* The login box is open only after the previous worker ended.
LEMMA WorkersDone ==
    ASSUME InductiveInvariant, LoginOk
    PROVE  pc["worker"] = "done"
<1>1. modal[1] = "login" /\ 1 \in 1..Len(modal)
  BY DEF LoginOk
<1> QED
  BY <1>1 DEF InductiveInvariant, MenusOrdered

\* OnConnect: a Network object is created only after the previous worker ended.
THEOREM WorkersOneByOne == Spec => OneWorker
<1>1. InductiveInvariant /\ [Next]_vars => [started' # started => pc["worker"] = "done"]_vars
  <2> SUFFICES ASSUME InductiveInvariant, Next, started' # started
               PROVE  pc["worker"] = "done"
    OBVIOUS
  <2>1. UNCHANGED bounds => FALSE
    OBVIOUS
  <2>2. ~WorkerAction /\ ~ServerAction
    BY <2>1 DEF WorkerAction, ServerAction
  <2>3. ~EventStep
    BY <2>1 DEF EventStep, OnSocketConnected, OnSocketRead, OnSocketFail, Get, HandleTerminal,
       HandleNotice, HandleAuthorized, HandleProcessInfo, HandleFreedList, HandleOther
  <2>4. ~HandlerStep /\ ~DismissBox /\ ~Stop
    BY <2>1 DEF HandlerStep, AddOut, Disconnect, Destroy, Destructor, WaitExit, DismissBox, Stop,
       vars
  <2>5. LoginOk
    BY <2>1, <2>2, <2>3, <2>4
    DEF Next, GuiAction, User, OnConnect, LoginCancel, OnDisconnect, OnClose, OnProcessCommand
  <2> QED
    BY <2>5, WorkersDone
<1> QED
  BY <1>1, InvariantInductive, PTL DEF Spec, OneWorker

\* Network::Entry answers the packet Receive has just returned, and finds it still there
\* whatever the GUI thread has popped.
THEOREM AnswerIsForReceived == Spec => AnswersReceived
<1> DEFINE Answers == pc["worker"] = "answer" /\ pc'["worker"] # "answer"
                        => outgoing' = outgoing \o Answer(pkt) /\ pc'["worker"] = "unlockOut"
<1>1. InductiveInvariant /\ [Next]_vars => [Answers]_vars
  <2> SUFFICES ASSUME InductiveInvariant, Next, pc["worker"] = "answer",
                      pc'["worker"] # "answer"
               PROVE  outgoing' = outgoing \o Answer(pkt) /\ pc'["worker"] = "unlockOut"
    OBVIOUS
  <2>1. incoming # <<>> /\ incoming[Len(incoming)] = pkt
    BY DEF InductiveInvariant, ReadsOrdered, Unreported
  <2>2. pc \in [{"worker", "gui"} -> WorkerPC \cup GuiPC]
    BY DEF InductiveInvariant, TypeOK
  <2>3. CASE WorkerAction
    <3>1. AnswerLast
      BY <2>3 DEF WorkerAction, Worker, Connect, ReceivePacket, WorkerStep, PostConnect,
         PostFailConnect, PostFailRead, PostRead, Post, QueueHello, ReceiveFails,
         AppendIncoming, LockOutgoing, LockIncoming, UnlockOutgoing, UnlockIncoming,
         DropTerminal, DropError, Drop, CheckExiting, Send, SendLock, SendNext, SendFails,
         SendReturns
    <3> HIDE DEF WorkerPC, GuiPC
    <3> QED
      BY <2>1, <2>2, <3>1 DEF AnswerLast
  <2>4. CASE ServerAction
    BY <2>4 DEF ServerAction, Server, ServerReads, ServerCloses
  <2>5. CASE GuiAction
    <3>1. CASE User
      <4>1. CASE LoginOk
        BY <2>1, <4>1, WorkersDone
      <4>2. CASE OnConnect \/ LoginCancel
        BY <4>2 DEF OnConnect, LoginCancel, network
      <4>3. CASE OnDisconnect \/ OnClose
        BY <2>2, <4>3 DEF OnDisconnect, OnClose, SendDisconnect, QueueAndSend, GuiGoto
      <4>4. ASSUME NEW idx \in pages, OnProcessCommand(idx, "ProcessKill")
            PROVE  FALSE
        BY <2>2, <4>4 DEF OnProcessCommand, QueueAndSend, GuiGoto
      <4> QED
        BY <3>1, <4>1, <4>2, <4>3, <4>4 DEF User
    <3>2. CASE DismissBox
      BY <3>2 DEF DismissBox, network
    <3>3. CASE EventStep
      <4>1. CASE Get
        BY <2>2, <4>1, GetDecides
      <4> QED
        BY <2>2, <3>3, <4>1 DEF EventStep, OnSocketConnected, OnSocketRead, OnSocketFail, Dispatch
    <3>4. CASE HandlerStep
      BY <2>2, <3>4 DEF HandlerStep, AddOut, Disconnect, Destroy, Destructor, WaitExit, GuiGoto,
         Send, SendLock, SendNext, SendFails, SendReturns
    <3> QED
      BY <2>5, <3>1, <3>2, <3>3, <3>4 DEF GuiAction
  <2>6. CASE Stop
    BY <2>6 DEF Stop, vars, network
  <2> QED
    BY <2>3, <2>4, <2>5, <2>6 DEF Next
<1> QED
  BY <1>1, InvariantInductive, PTL DEF Spec, AnswersReceived

\* Network.cpp and Window.cpp: a thread that waits for a mutex or for the worker's end is
\* never waited for by the other (NoCircularWait).
THEOREM NeverCircular == Spec => []NoCircularWait
<1>1. InductiveInvariant => NoCircularWait
  <2> SUFFICES ASSUME InductiveInvariant
               PROVE  NoCircularWait
    OBVIOUS
  <2>1. /\ outMutex \in {"free", "worker", "gui"} /\ inMutex \in {"free", "worker"}
        /\ MutexesOwned
        /\ pc["worker"] \in WorkerPC /\ pc["gui"] \in GuiPC
    BY DEF InductiveInvariant, TypeOK
  <2>2. /\ "worker" \in WaitsFor("gui") =>
              \/ pc["gui"] \in {"addOut", "sendLock"} /\ outMutex = "worker"
              \/ pc["gui"] = "get" /\ inMutex = "worker"
              \/ pc["gui"] \in {"wait", "waitNotice", "waitExit"}
        /\ "gui" \in WaitsFor("gui") =>
              pc["gui"] \in {"addOut", "sendLock"} /\ outMutex = "gui"
    BY <2>1 DEF WaitsFor, Owner
  <2>3. /\ "gui" \in WaitsFor("worker") =>
              pc["worker"] \in {"hello", "lockOut", "sendLock"} /\ outMutex = "gui"
        /\ "worker" \in WaitsFor("worker") =>
              \/ pc["worker"] \in {"hello", "lockOut", "sendLock"} /\ outMutex = "worker"
              \/ pc["worker"] \in {"append", "lockIn"} /\ inMutex = "worker"
    BY <2>1 DEF WaitsFor, Owner
  <2>4. \A t \in {"worker", "gui"} : t \notin WaitsFor(t)
    BY <2>1, <2>2, <2>3 DEF MutexesOwned
  <2>5. "gui" \in WaitsFor("worker") => "worker" \notin WaitsFor("gui")
    BY <2>1, <2>2, <2>3 DEF MutexesOwned
  <2> QED
    BY <2>4, <2>5 DEF NoCircularWait
<1> QED
  BY <1>1, InvariantInductive, PTL
--------------------------------------------------------------------------------
(* AnswersAreWritten.                                                       *)

\* Appending what is not automatic leaves nothing to answer.
LEMMA AppendedAnswers ==
    ASSUME outgoing \in Seq(Packet), NothingToAnswer,
           NEW p \in Packet, ~Automatic(p), outgoing' = Append(outgoing, p)
    PROVE  NothingToAnswer'
<1>1. \A i \in 1..Len(outgoing') :
            outgoing'[i] = p \/ (i \in 1..Len(outgoing) /\ outgoing'[i] = outgoing[i])
  BY NoticeBox
<1> QED
  BY <1>1 DEF NothingToAnswer

\* So does taking the first.
LEMMA TakenAnswers ==
    ASSUME outgoing \in Seq(Packet), NothingToAnswer, outgoing # <<>>,
           outgoing' = Tail(outgoing)
    PROVE  NothingToAnswer'
<1>1. \A i \in 1..Len(outgoing') : outgoing'[i] = outgoing[i + 1] /\ i + 1 \in 1..Len(outgoing)
  BY Popped
<1> QED
  BY <1>1 DEF NothingToAnswer

\* What AnswersInHand depends on.
LEMMA AnswersFrame ==
    ASSUME AnswersInHand, UNCHANGED <<outgoing, link, sendNow, arg>>,
           pc'["worker"] = pc["worker"],
           pc'["gui"] = "addOut" => pc["gui"] = "addOut"
    PROVE  AnswersInHand'
  BY DEF AnswersInHand, NothingToAnswer

\* Send leaves nothing to answer behind while the connection is there.
LEMMA SendAnswers ==
    ASSUME InductiveInvariant, AnswersInHand, NEW t \in {"worker", "gui"}, Send(t),
           UNCHANGED window
    PROVE  AnswersInHand'
<1>1. TypeOK
  BY DEF InductiveInvariant
<1>2. CASE SendLock(t)
  BY <1>1, <1>2 DEF SendLock, AnswersInHand, NothingToAnswer, TypeOK
<1>3. CASE SendNext(t)
  <2>1. NothingToAnswer => NothingToAnswer'
    BY <1>1, <1>3, TakenAnswers DEF SendNext, TypeOK
  <2>2. UNCHANGED <<pc, link, sendNow, arg>>
    BY <1>3 DEF SendNext
  <2> QED
    BY <2>1, <2>2 DEF AnswersInHand
<1>4. CASE SendFails(t)
  <2>1. NothingToAnswer => NothingToAnswer'
    BY <1>1, <1>4, TakenAnswers DEF SendFails, TypeOK
  <2>2. link # "open" /\ UNCHANGED <<link, sendNow, arg>>
    BY <1>4 DEF SendFails
  <2>3. /\ pc'["worker"] = pc["worker"] \/ pc'["worker"] \in {"receive", "postRead"}
        /\ pc'["gui"] # "addOut" \/ pc'["gui"] = pc["gui"]
    BY <1>1, <1>4 DEF SendFails, TypeOK
  <2> QED
    BY <2>1, <2>2, <2>3 DEF AnswersInHand
<1>5. CASE SendReturns(t)
  <2>1. NothingToAnswer'
    BY <1>5 DEF SendReturns, NothingToAnswer
  <2>2. pc'["gui"] # "addOut" \/ (pc'["gui"] = pc["gui"] /\ arg' = arg)
    BY <1>1, <1>5 DEF SendReturns, TypeOK
  <2> QED
    BY <2>1, <2>2 DEF AnswersInHand
<1> QED
  BY <1>2, <1>3, <1>4, <1>5 DEF Send

\* The worker queues an answer only on the way to Send.
LEMMA WorkerAnswers ==
    ASSUME InductiveInvariant, AnswersInHand, Worker, UNCHANGED window
    PROVE  AnswersInHand'
<1>1. TypeOK
  BY DEF InductiveInvariant
<1>2. CASE AnswerLast
  <2>1. incoming # <<>>
    BY <1>2 DEF AnswerLast, InductiveInvariant, ReadsOrdered, Unreported
  <2> DEFINE answer == Answer(incoming[Len(incoming)])
  <2>2. /\ outgoing' = outgoing \o answer /\ sendNow' = (answer # <<>>)
        /\ pc' = [pc EXCEPT !["worker"] = "unlockOut"]
        /\ UNCHANGED <<link, arg>> /\ pc["worker"] = "answer"
    BY <1>2, <2>1 DEF AnswerLast
  <2>3. pc'["worker"] = "unlockOut" /\ pc'["gui"] = pc["gui"]
    BY <1>1, <2>2 DEF TypeOK
  <2>4. ~sendNow' => outgoing' = outgoing
    <3>1. ~sendNow' => outgoing' = outgoing \o <<>>
      BY <2>2, Zenon
    <3>2. outgoing \o <<>> = outgoing
      BY <1>1 DEF TypeOK
    <3> QED
      BY <3>1, <3>2, Zenon
  <2>5. ~sendNow' /\ NothingToAnswer => NothingToAnswer'
    BY <2>4 DEF NothingToAnswer
  <2> QED
    BY <2>2, <2>3, <2>5 DEF AnswersInHand
<1>3. CASE QueueHello
  BY <1>1, <1>3 DEF QueueHello, AnswersInHand, TypeOK
<1>4. CASE Send("worker")
  BY <1>4, SendAnswers
<1>5. CASE Connect
  BY <1>1, <1>5 DEF Connect, AnswersInHand, NothingToAnswer, TypeOK
<1>6. ASSUME NEW p \in ServerPackets, ReceivePacket(p)
      PROVE  AnswersInHand'
  BY <1>1, <1>6 DEF ReceivePacket, AnswersInHand, NothingToAnswer, TypeOK
<1>7. CASE PostConnect \/ PostFailConnect \/ PostFailRead \/ PostRead
  <2>1. /\ UNCHANGED <<outgoing, link, sendNow, arg>> /\ pc'["gui"] = pc["gui"]
        /\ pc'["worker"] \in {"hello", "done", "dropTerminal", "receive"}
        /\ pc["worker"] \in {"postConnect", "postFailConnect", "postFailRead", "postRead"}
    BY <1>1, <1>7 DEF PostConnect, PostFailConnect, PostFailRead, PostRead, Post, TypeOK
  <2> QED
    BY <2>1 DEF AnswersInHand, NothingToAnswer
<1>8. CASE ReceiveFails \/ AppendIncoming \/ LockOutgoing \/ LockIncoming \/ CheckExiting
  BY <1>1, <1>8 DEF ReceiveFails, AppendIncoming, LockOutgoing, LockIncoming, CheckExiting,
     AnswersInHand, NothingToAnswer, TypeOK
<1>9. CASE UnlockOutgoing \/ UnlockIncoming
  BY <1>1, <1>9 DEF UnlockOutgoing, UnlockIncoming, AnswersInHand, NothingToAnswer, TypeOK
<1>10. CASE DropTerminal \/ DropError
  BY <1>1, <1>10 DEF DropTerminal, DropError, Drop, AnswersInHand, NothingToAnswer, TypeOK
<1> QED
  BY <1>2, <1>3, <1>4, <1>5, <1>6, <1>7, <1>8, <1>9, <1>10 DEF Worker, WorkerStep

\* The GUI thread queues nothing automatic.
LEMMA GuiAnswers ==
    ASSUME InductiveInvariant, AnswersInHand, GuiAction
    PROVE  AnswersInHand'
<1>1. TypeOK
  BY DEF InductiveInvariant
<1>2. CASE LoginOk
  BY <1>1, <1>2 DEF LoginOk, StartNetwork, AnswersInHand, NothingToAnswer, TypeOK
<1>3. CASE OnConnect \/ LoginCancel \/ DismissBox
  <2>1. UNCHANGED <<outgoing, link, sendNow, arg, pc>>
    BY <1>3 DEF OnConnect, LoginCancel, DismissBox, network
  <2> QED
    BY <2>1, AnswersFrame
<1>4. ~Automatic(SessionDisconnect)
  BY DEF Automatic, SessionDisconnect, NewPacket
<1>5. CASE OnDisconnect \/ OnClose
  <2>1. /\ UNCHANGED <<outgoing, link, sendNow>> /\ pc'["worker"] = pc["worker"]
        /\ pc'["gui"] = "addOut" => arg' = SessionDisconnect
    BY <1>1, <1>5 DEF OnDisconnect, OnClose, SendDisconnect, QueueAndSend, GuiGoto, TypeOK
  <2> QED
    BY <1>4, <2>1 DEF AnswersInHand, NothingToAnswer
<1>6. ASSUME NEW idx \in pages, OnProcessCommand(idx, "ProcessKill")
      PROVE  AnswersInHand'
  <2>1. /\ UNCHANGED <<outgoing, link, sendNow>> /\ pc'["worker"] = pc["worker"]
        /\ pc'["gui"] = "addOut" => arg' = NewPacket(idx, "ProcessKill")
    BY <1>1, <1>6 DEF OnProcessCommand, QueueAndSend, GuiGoto, TypeOK
  <2>2. ~Automatic(NewPacket(idx, "ProcessKill"))
    BY DEF Automatic, NewPacket
  <2> QED
    BY <2>1, <2>2 DEF AnswersInHand, NothingToAnswer
<1>7. CASE OnSocketConnected \/ OnSocketRead \/ OnSocketFail
  <2>1. /\ UNCHANGED <<outgoing, link, sendNow, arg>> /\ pc'["worker"] = pc["worker"]
        /\ pc'["gui"] # "addOut"
    BY <1>1, <1>7 DEF OnSocketConnected, OnSocketRead, OnSocketFail, Dispatch, InLoop, TypeOK
  <2> QED
    BY <2>1, AnswersFrame
<1>8. CASE Get
  <2>1. /\ UNCHANGED <<outgoing, link, sendNow>> /\ pc'["worker"] = pc["worker"]
    BY <1>1, <1>8, GetDecides DEF Get, TypeOK
  <2>2. pc'["gui"] = "addOut" => \E p \in Packet : arg' = NewPacket(p.idx, "ConsoleNeedLogs")
    <3> DEFINE p == Head(incoming)
    <3>1. incoming # <<>> /\ p \in Packet
      BY <1>1, <1>8, GetDecides DEF TypeOK
    <3>2. CASE HandleProcessInfo(p)
      BY <3>1, <3>2 DEF HandleProcessInfo, QueueAndSend
    <3>3. CASE \/ HandleTerminal(p) \/ HandleNotice(p) \/ HandleAuthorized(p)
               \/ HandleFreedList(p) \/ HandleOther(p)
      BY <1>1, <3>3 DEF HandleTerminal, HandleNotice, HandleAuthorized, HandleFreedList,
         HandleOther, TypeOK
    <3> QED
      BY <1>8, <3>1, <3>2, <3>3 DEF Get
  <2>3. pc'["gui"] = "addOut" => ~Automatic(arg')
    BY <2>2 DEF Automatic, NewPacket
  <2> QED
    BY <2>1, <2>3 DEF AnswersInHand, NothingToAnswer
<1>9. CASE AddOut
  <2>1. NothingToAnswer => NothingToAnswer'
    BY <1>1, <1>9, AppendedAnswers DEF AddOut, AnswersInHand, TypeOK
  <2>2. /\ UNCHANGED <<link, sendNow, arg>> /\ pc'["worker"] = pc["worker"]
        /\ pc'["gui"] # "addOut"
    BY <1>1, <1>9 DEF AddOut, TypeOK
  <2> QED
    BY <2>1, <2>2 DEF AnswersInHand
<1>10. CASE Disconnect \/ Destroy \/ Destructor \/ WaitExit
  <2>1. /\ UNCHANGED <<outgoing, link, sendNow, arg>> /\ pc'["worker"] = pc["worker"]
        /\ pc'["gui"] # "addOut"
    BY <1>1, <1>10 DEF Disconnect, Destroy, Destructor, WaitExit, GuiGoto, TypeOK
  <2> QED
    BY <2>1, AnswersFrame
<1>11. CASE Send("gui") /\ UNCHANGED window
  BY <1>11, SendAnswers
<1> QED
  BY <1>2, <1>3, <1>5, <1>6, <1>7, <1>8, <1>9, <1>10, <1>11
  DEF GuiAction, User, EventStep, HandlerStep

\* AnswersInHand is inductive relative to InductiveInvariant: the worker's steps queue and send what
\* it holds, and no other step touches it.
LEMMA AnswersKept ==
    ASSUME InductiveInvariant, AnswersInHand, [Next]_vars
    PROVE  AnswersInHand'
<1>1. TypeOK
  BY DEF InductiveInvariant
<1>2. CASE WorkerAction
  BY <1>2, WorkerAnswers DEF WorkerAction
<1>3. CASE ServerAction
  BY <1>1, <1>3 DEF ServerAction, Server, ServerReads, ServerCloses, AnswersInHand, NothingToAnswer
<1>4. CASE GuiAction
  BY <1>4, GuiAnswers
<1>5. CASE UNCHANGED vars
  BY <1>5 DEF vars, network, AnswersInHand, NothingToAnswer
<1> QED
  BY <1>2, <1>3, <1>4, <1>5 DEF Next, Stop

\* Network::Entry and Send: what the worker queues is written before it waits for the next
\* packet or reports one, whichever thread writes it (AnswersAreWritten).
THEOREM AnswersWrittenFirst == Spec => []AnswersAreWritten
<1>1. Init => AnswersInHand
  BY DEF Init, AnswersInHand, NothingToAnswer
<1>2. InductiveInvariant /\ AnswersInHand /\ [Next]_vars => AnswersInHand'
  BY AnswersKept
<1>3. AnswersInHand => AnswersAreWritten
  BY DEF AnswersInHand, NothingToAnswer, AnswersAreWritten
<1> QED
  BY <1>1, <1>2, <1>3, InvariantInductive, PTL DEF Spec
--------------------------------------------------------------------------------
(* SessionsInvariant.                                                       *)

\* A packet that ends the session makes its handler wait for the worker.
LEMMA TerminalWaits ==
    ASSUME InductiveInvariant, Get, Terminal(Head(incoming))
    PROVE  pc'["gui"] = "waitNotice"
<1> DEFINE p == Head(incoming)
<1>1. incoming # <<>> /\ pc \in [{"worker", "gui"} -> WorkerPC \cup GuiPC]
  BY GetDecides DEF InductiveInvariant, TypeOK
<1>2. \/ p.idx = ErrorIndex /\ p.com \in TerminalErrors \cup {"ServerFull"}
      \/ IsSession(p) /\ p.com = "Disconnect"
  BY DEF Terminal, ReceiveValue
<1>3. ~HandleNotice(p)
  BY <1>2 DEF HandleNotice, IsSession, ErrorIndex, MaxIndex, NoticeErrors, TerminalErrors
<1>4. ~(IsSession(p) /\ p.com \in {"Authorized", "ProcessInfo", "ConsoleOutput", "ConsoleLogs",
                                   "MaintenanceOn", "MaintenanceOff"})
  BY <1>2 DEF IsSession, ErrorIndex, MaxIndex
<1>5. HandleTerminal(p)
  BY <1>1, <1>3, <1>4
  DEF Get, HandleAuthorized, HandleProcessInfo, NewRow, HandleFreedList, LooksUp, HandleOther
<1> QED
  BY <1>1, <1>5 DEF HandleTerminal

\* Send keeps a session the user leaves silent.
LEMMA SendLeaving ==
    ASSUME InductiveInvariant, LeavingIsSilent, TypeOK',
           NEW t \in {"worker", "gui"}, Send(t), UNCHANGED window
    PROVE  LeavingIsSilent'
<1> USE DEF TypeOK, InductiveInvariant, MutexesOwned, EventsOrdered, ReadsOrdered, TerminalsLast,
            MenusOrdered, MenusNeedNet, ExitAfterWorker, Failures, Starting, Unreported,
            Disconnecting, FailureShown, LeavingIsSilent
<1>1. CASE SendLock(t)
  BY <1>1, SMTT(20) DEF SendLock
<1>2. CASE SendNext(t)
  BY <1>2, SMTT(20) DEF SendNext
<1>3. CASE SendFails(t)
  BY <1>3, SMTT(20) DEF SendFails
<1>4. CASE SendReturns(t)
  BY <1>4, SMTT(20) DEF SendReturns
<1> QED
  BY <1>1, <1>2, <1>3, <1>4 DEF Send

\* The worker keeps a session the user leaves silent.
LEMMA WorkerLeaving ==
    ASSUME InductiveInvariant, LeavingIsSilent, TypeOK', Worker, UNCHANGED window
    PROVE  LeavingIsSilent'
<1> USE DEF TypeOK, InductiveInvariant, MutexesOwned, EventsOrdered, ReadsOrdered, TerminalsLast,
            MenusOrdered, MenusNeedNet, ExitAfterWorker, Failures, Starting, Unreported,
            Disconnecting, FailureShown, LeavingIsSilent
<1>1. CASE Connect
  BY <1>1, SMTT(20) DEF Connect
<1>2. CASE PostConnect
  BY <1>2, SMTT(20) DEF PostConnect, Post
<1>3. CASE PostFailConnect
  BY <1>3, SMTT(20) DEF PostFailConnect, Post
<1>4. CASE PostFailRead
  BY <1>4, SMTT(20) DEF PostFailRead, Post
<1>5. CASE PostRead
  BY <1>5, SMTT(20) DEF PostRead, Post
<1>6. CASE QueueHello
  BY <1>6, SMTT(20) DEF QueueHello
<1>7. CASE ReceiveFails
  BY <1>7, SMTT(20) DEF ReceiveFails
<1>8. CASE AppendIncoming
  BY <1>8, SMTT(20) DEF AppendIncoming
<1>9. CASE LockOutgoing
  BY <1>9, SMTT(20) DEF LockOutgoing
<1>10. CASE LockIncoming
  BY <1>10, SMTT(20) DEF LockIncoming
<1>11. CASE AnswerLast
  BY <1>11, SMTT(20) DEF AnswerLast
<1>12. CASE UnlockOutgoing
  BY <1>12, SMTT(20) DEF UnlockOutgoing
<1>13. CASE UnlockIncoming
  BY <1>13, SMTT(20) DEF UnlockIncoming
<1>14. CASE DropTerminal
  BY <1>14, SMTT(20) DEF DropTerminal, Drop
<1>15. CASE DropError
  BY <1>15, SMTT(20) DEF DropError, Drop
<1>16. CASE CheckExiting
  BY <1>16, SMTT(20) DEF CheckExiting
<1>17. ASSUME NEW p \in ServerPackets, ReceivePacket(p)
      PROVE  LeavingIsSilent'
  BY <1>17, SMTT(20) DEF ReceivePacket
<1>18. CASE Send("worker")
  BY <1>18, SendLeaving
<1> QED
  BY <1>1, <1>2, <1>3, <1>4, <1>5, <1>6, <1>7, <1>8, <1>9, <1>10, <1>11, <1>12, <1>13,
     <1>14, <1>15, <1>16, <1>17, <1>18 DEF Worker, WorkerStep

\* The server keeps a session the user leaves silent.
LEMMA ServerLeaving ==
    ASSUME InductiveInvariant, LeavingIsSilent, TypeOK', Server, UNCHANGED window
    PROVE  LeavingIsSilent'
<1> USE DEF TypeOK, InductiveInvariant, MutexesOwned, EventsOrdered, ReadsOrdered, TerminalsLast,
            MenusOrdered, MenusNeedNet, ExitAfterWorker, Failures, Starting, Unreported,
            Disconnecting, FailureShown, LeavingIsSilent
<1>1. CASE ServerReads
  BY <1>1, SMTT(20) DEF ServerReads
<1>2. CASE ServerCloses
  BY <1>2, SMTT(20) DEF ServerCloses
<1> QED
  BY <1>1, <1>2 DEF Server

\* The user keeps a session the user leaves silent.
LEMMA UserLeaving ==
    ASSUME InductiveInvariant, LeavingIsSilent, TypeOK', User
    PROVE  LeavingIsSilent'
<1> USE DEF TypeOK, InductiveInvariant, MutexesOwned, EventsOrdered, ReadsOrdered, TerminalsLast,
            MenusOrdered, MenusNeedNet, ExitAfterWorker, Failures, Starting, Unreported,
            Disconnecting, FailureShown, LeavingIsSilent
<1>1. CASE OnConnect
  BY <1>1, SMTT(20) DEF OnConnect, UserCanAct, InLoop, network
<1>2. CASE LoginOk
  BY <1>2, SMTT(20) DEF LoginOk, StartNetwork, InLoop
<1>3. CASE LoginCancel
  BY <1>3, SMTT(20) DEF LoginCancel, InLoop, network
<1>4. CASE OnDisconnect
  BY <1>4, SMTT(20) DEF OnDisconnect, UserCanAct, InLoop, SendDisconnect, QueueAndSend
<1>5. CASE OnClose
  BY <1>5, SMTT(20) DEF OnClose, UserCanAct, InLoop, SendDisconnect, QueueAndSend, GuiGoto
<1>6. ASSUME NEW idx \in pages, OnProcessCommand(idx, "ProcessKill")
      PROVE  LeavingIsSilent'
  BY <1>6, SMTT(20) DEF OnProcessCommand, UserCanAct, InLoop, QueueAndSend, GuiGoto
<1> QED
  BY <1>1, <1>2, <1>3, <1>4, <1>5, <1>6 DEF User

\* The handlers of the worker's events keep a session the user leaves silent.
LEMMA EventLeaving ==
    ASSUME InductiveInvariant, LeavingIsSilent, TypeOK', EventStep
    PROVE  LeavingIsSilent'
<1> USE DEF TypeOK, InductiveInvariant, MutexesOwned, EventsOrdered, ReadsOrdered, TerminalsLast,
            MenusOrdered, MenusNeedNet, ExitAfterWorker, Failures, Starting, Unreported,
            Disconnecting, FailureShown, LeavingIsSilent
<1>1. CASE OnSocketConnected
  BY <1>1, SMTT(20) DEF OnSocketConnected, Dispatch, InLoop
<1>2. CASE OnSocketRead
  BY <1>2, SMTT(20) DEF OnSocketRead, Dispatch, InLoop
<1>3. CASE OnSocketFail
  <2>1. PICK event \in Failures : Dispatch(event)
    BY <1>3 DEF OnSocketFail
  <2>2. events # <<>> /\ event = events[1] /\ 1 \in 1..Len(events) /\ events' = Tail(events)
    BY <2>1 DEF Dispatch
  <2>3. Len(events) = 1 /\ ~exiting
    BY <2>2
  <2>4. events' = <<>>
    <3>1. events \in Seq({"Connect", "FailConnect", "Read", "FailRead"})
      OBVIOUS
    <3> HIDE DEF TypeOK, InductiveInvariant, LeavingIsSilent
    <3> QED
      BY <2>2, <2>3, <3>1, Popped
  <2>5. \A i \in 1..Len(modal) : modal[i] # "failure"
    BY <2>2
  <2>6. \A i \in 1..Len(modal') : i = Len(modal') \/ modal'[i] # "failure"
    <3>1. modal' = Append(modal, "failure") /\ modal \in Seq({"login", "notice", "failure"})
      BY <1>3 DEF OnSocketFail
    <3> HIDE DEF TypeOK, InductiveInvariant, LeavingIsSilent
    <3> QED
      BY <2>5, <3>1
  <2>7. /\ UNCHANGED <<pc, ret, incoming, session, net, menus>> /\ pc["gui"] = "loop"
    BY <1>3, <2>1 DEF OnSocketFail, Dispatch, InLoop
  <2> QED
    BY <2>3, <2>4, <2>6, <2>7
<1>4. CASE Get
  <2>1. /\ incoming # <<>> /\ UNCHANGED <<events, session, net, menus>> /\ pc["gui"] = "get"
        /\ pc'["worker"] = pc["worker"]
        /\ pc'["gui"] \in {"loop", "addOut", "waitNotice", "crashFreedList"}
        /\ pc'["gui"] = "addOut" => ret'["gui"] = "loop"
    BY <1>4, GetDecides DEF Get
  <2>2. \A i \in 1..Len(modal') : modal'[i] # "failure"
    <3>1. \A i \in 1..Len(modal) : modal[i] # "failure"
      BY <2>1
    <3>2. CASE modal' = modal
      BY <3>1, <3>2
    <3>3. CASE modal' = Append(modal, "notice")
      <4>1. modal \in Seq({"login", "notice", "failure"})
        OBVIOUS
      <4> HIDE DEF TypeOK, InductiveInvariant, LeavingIsSilent
      <4> QED
        BY <3>1, <3>3, <4>1, NoticeBox
    <3> QED
      BY <1>4, <3>2, <3>3, GetDecides
  <2>3. LeavingIsSilent /\ pc["gui"] = "get"
    BY <2>1
  <2> HIDE DEF TypeOK, InductiveInvariant, MutexesOwned, EventsOrdered, ReadsOrdered,
               TerminalsLast, MenusOrdered, MenusNeedNet, ExitAfterWorker, Unreported,
               Disconnecting, FailureShown, LeavingIsSilent
  <2>4. /\ connected' => pc'["worker"] \notin
               {"connect", "postFailConnect", "checkExiting", "postFailRead", "done"}
        /\ pc'["worker"] \in {"connect", "postFailConnect", "postFailRead"} => ~exiting'
        /\ menuConnect' => ~net' \/ ~exiting'
    BY <2>1, <2>3 DEF LeavingIsSilent, session, menus
  <2>5. /\ \A i \in 1..Len(events') : events'[i] \in Failures => ~exiting' /\ net'
        /\ \A i \in 1..Len(events') : events'[i] = "FailConnect" => i = 1 /\ incoming' = <<>>
    BY <2>1, <2>3 DEF LeavingIsSilent, session
  <2>6. ~Disconnecting'
    BY <2>1 DEF Disconnecting
  <2>7. ~FailureShown'
    BY <2>2 DEF FailureShown
  <2> QED
    BY <2>2, <2>4, <2>5, <2>6, <2>7 DEF LeavingIsSilent
<1> QED
  BY <1>1, <1>2, <1>3, <1>4 DEF EventStep

\* The GUI thread's other steps keep a session the user leaves silent.
LEMMA HandlerLeaving ==
    ASSUME InductiveInvariant, LeavingIsSilent, TypeOK', HandlerStep \/ DismissBox
    PROVE  LeavingIsSilent'
<1> USE DEF TypeOK, InductiveInvariant, MutexesOwned, EventsOrdered, ReadsOrdered, TerminalsLast,
            MenusOrdered, MenusNeedNet, ExitAfterWorker, Failures, Starting, Unreported,
            Disconnecting, FailureShown, LeavingIsSilent
<1>1. CASE AddOut
  BY <1>1, SMTT(20) DEF AddOut
<1>2. CASE Disconnect
  BY <1>2, SMTT(20) DEF Disconnect, GuiGoto
<1>3. CASE Destroy
  BY <1>3, SMTT(20) DEF Destroy, GuiGoto
<1>4. CASE Destructor
  BY <1>4, SMTT(20) DEF Destructor, GuiGoto, InLoop
<1>5. CASE WaitExit
  BY <1>5, SMTT(20) DEF WaitExit, GuiGoto
<1>6. CASE Send("gui") /\ UNCHANGED window
  BY <1>6, SendLeaving
<1>7. CASE DismissBox
  BY <1>7, SMTT(20) DEF DismissBox, InLoop, network
<1> QED
  BY <1>1, <1>2, <1>3, <1>4, <1>5, <1>6, <1>7 DEF HandlerStep

\* Send keeps the end of a session last.
LEMMA SendEnd ==
    ASSUME InductiveInvariant, LeavingIsSilent, EndIsLast, TypeOK',
           NEW t \in {"worker", "gui"}, Send(t), UNCHANGED window
    PROVE  EndIsLast'
<1> USE DEF TypeOK, InductiveInvariant, MutexesOwned, EventsOrdered, ReadsOrdered, TerminalsLast,
            MenusOrdered, MenusNeedNet, ExitAfterWorker, Failures, Starting, Unreported,
            Disconnecting, FailureShown, LeavingIsSilent, EndIsLast
<1>1. CASE SendLock(t)
  BY <1>1, SMTT(20) DEF SendLock
<1>2. CASE SendNext(t)
  BY <1>2, SMTT(20) DEF SendNext
<1>3. CASE SendFails(t)
  BY <1>3, SMTT(20) DEF SendFails
<1>4. CASE SendReturns(t)
  BY <1>4, SMTT(20) DEF SendReturns
<1> QED
  BY <1>1, <1>2, <1>3, <1>4 DEF Send

\* The worker keeps the end of a session last.
LEMMA WorkerEnd ==
    ASSUME InductiveInvariant, LeavingIsSilent, EndIsLast, TypeOK', Worker, UNCHANGED window
    PROVE  EndIsLast'
<1> USE DEF TypeOK, InductiveInvariant, MutexesOwned, EventsOrdered, ReadsOrdered, TerminalsLast,
            MenusOrdered, MenusNeedNet, ExitAfterWorker, Failures, Starting, Unreported,
            Disconnecting, FailureShown, LeavingIsSilent, EndIsLast
<1>1. CASE Connect
  BY <1>1, SMTT(20) DEF Connect
<1>2. CASE PostConnect
  BY <1>2, SMTT(20) DEF PostConnect, Post
<1>3. CASE PostFailConnect
  <2>1. /\ events' = Append(events, "FailConnect") /\ pc["worker"] = "postFailConnect"
        /\ pc'["worker"] = "done" /\ UNCHANGED incoming
    BY <1>3 DEF PostFailConnect, Post
  <2>2. incoming = <<>> /\ events' # <<>> /\ events'[Len(events')] = "FailConnect"
    <3>1. incoming = <<>> /\ events = <<>>
      BY <2>1
    <3> HIDE DEF TypeOK, InductiveInvariant, LeavingIsSilent, EndIsLast
    <3> QED
      BY <2>1, <3>1
  <2> QED
    BY <2>1, <2>2
<1>4. CASE PostFailRead
  BY <1>4, SMTT(20) DEF PostFailRead, Post
<1>5. CASE PostRead
  BY <1>5, SMTT(20) DEF PostRead, Post
<1>6. CASE QueueHello
  BY <1>6, SMTT(20) DEF QueueHello
<1>7. CASE ReceiveFails
  BY <1>7, SMTT(20) DEF ReceiveFails
<1>8. CASE AppendIncoming
  BY <1>8, SMTT(20) DEF AppendIncoming
<1>9. CASE LockOutgoing
  BY <1>9, SMTT(20) DEF LockOutgoing
<1>10. CASE LockIncoming
  BY <1>10, SMTT(20) DEF LockIncoming
<1>11. CASE AnswerLast
  BY <1>11, SMTT(20) DEF AnswerLast
<1>12. CASE UnlockOutgoing
  BY <1>12, SMTT(20) DEF UnlockOutgoing
<1>13. CASE UnlockIncoming
  BY <1>13, SMTT(20) DEF UnlockIncoming
<1>14. CASE DropTerminal
  BY <1>14, SMTT(20) DEF DropTerminal, Drop
<1>15. CASE DropError
  BY <1>15, SMTT(20) DEF DropError, Drop
<1>16. CASE CheckExiting
  BY <1>16, SMTT(20) DEF CheckExiting
<1>17. ASSUME NEW p \in ServerPackets, ReceivePacket(p)
      PROVE  EndIsLast'
  BY <1>17, SMTT(20) DEF ReceivePacket
<1>18. CASE Send("worker")
  BY <1>18, SendEnd
<1> QED
  BY <1>1, <1>2, <1>3, <1>4, <1>5, <1>6, <1>7, <1>8, <1>9, <1>10, <1>11, <1>12, <1>13,
     <1>14, <1>15, <1>16, <1>17, <1>18 DEF Worker, WorkerStep

\* The server keeps the end of a session last.
LEMMA ServerEnd ==
    ASSUME InductiveInvariant, LeavingIsSilent, EndIsLast, TypeOK', Server, UNCHANGED window
    PROVE  EndIsLast'
<1> USE DEF TypeOK, InductiveInvariant, MutexesOwned, EventsOrdered, ReadsOrdered, TerminalsLast,
            MenusOrdered, MenusNeedNet, ExitAfterWorker, Failures, Starting, Unreported,
            Disconnecting, FailureShown, LeavingIsSilent, EndIsLast
<1>1. CASE ServerReads
  BY <1>1, SMTT(20) DEF ServerReads
<1>2. CASE ServerCloses
  BY <1>2, SMTT(20) DEF ServerCloses
<1> QED
  BY <1>1, <1>2 DEF Server

\* The user keeps the end of a session last.
LEMMA UserEnd ==
    ASSUME InductiveInvariant, LeavingIsSilent, EndIsLast, TypeOK', User
    PROVE  EndIsLast'
<1> USE DEF TypeOK, InductiveInvariant, MutexesOwned, EventsOrdered, ReadsOrdered, TerminalsLast,
            MenusOrdered, MenusNeedNet, ExitAfterWorker, Failures, Starting, Unreported,
            Disconnecting, FailureShown, LeavingIsSilent, EndIsLast
<1>1. CASE OnConnect
  BY <1>1, SMTT(20) DEF OnConnect, UserCanAct, InLoop, network
<1>2. CASE LoginOk
  BY <1>2, SMTT(20) DEF LoginOk, StartNetwork, InLoop
<1>3. CASE LoginCancel
  BY <1>3, SMTT(20) DEF LoginCancel, InLoop, network
<1>4. CASE OnDisconnect
  BY <1>4, SMTT(20) DEF OnDisconnect, UserCanAct, InLoop, SendDisconnect, QueueAndSend
<1>5. CASE OnClose
  BY <1>5, SMTT(20) DEF OnClose, UserCanAct, InLoop, SendDisconnect, QueueAndSend, GuiGoto
<1>6. ASSUME NEW idx \in pages, OnProcessCommand(idx, "ProcessKill")
      PROVE  EndIsLast'
  BY <1>6, SMTT(20) DEF OnProcessCommand, UserCanAct, InLoop, QueueAndSend, GuiGoto
<1> QED
  BY <1>1, <1>2, <1>3, <1>4, <1>5, <1>6 DEF User

\* The handlers of the worker's events keep the end of a session last.
LEMMA EventEnd ==
    ASSUME InductiveInvariant, LeavingIsSilent, EndIsLast, TypeOK', EventStep
    PROVE  EndIsLast'
<1> USE DEF TypeOK, InductiveInvariant, MutexesOwned, EventsOrdered, ReadsOrdered, TerminalsLast,
            MenusOrdered, MenusNeedNet, ExitAfterWorker, Failures, Starting, Unreported,
            Disconnecting, FailureShown, LeavingIsSilent, EndIsLast
<1>1. CASE OnSocketConnected
  BY <1>1, SMTT(20) DEF OnSocketConnected, Dispatch, InLoop
<1>2. CASE OnSocketRead
  <2>1. /\ events # <<>> /\ events[1] = "Read" /\ events' = Tail(events)
        /\ UNCHANGED <<incoming, session, net>> /\ pc["gui"] = "loop"
        /\ pc'["worker"] = pc["worker"]
    BY <1>2 DEF OnSocketRead, Dispatch, InLoop
  <2>2. ASSUME events[Len(events)] \in Failures
        PROVE  events' # <<>> /\ events'[Len(events')] \in Failures
    <3>1. Len(events) # 1
      BY <2>1, <2>2
    <3> QED
      <4>1. events \in Seq({"Connect", "FailConnect", "Read", "FailRead"})
        OBVIOUS
      <4> HIDE DEF TypeOK, InductiveInvariant, LeavingIsSilent, EndIsLast
      <4> QED
        BY <2>1, <2>2, <3>1, <4>1, Popped
  <2> QED
    BY <2>1, <2>2
<1>3. CASE OnSocketFail
  BY <1>3, SMTT(20) DEF OnSocketFail, Dispatch, InLoop
<1>4. CASE Get
  <2>1. /\ incoming # <<>> /\ incoming' = Tail(incoming)
        /\ UNCHANGED <<events, session, net>> /\ pc["gui"] = "get"
        /\ pc'["worker"] = pc["worker"]
        /\ pc'["gui"] \in {"loop", "addOut", "waitNotice", "crashFreedList"}
    BY <1>4, GetDecides DEF Get
  <2>2. /\ Head(incoming) = incoming[1] /\ Len(incoming) \in 1..Len(incoming)
        /\ \A i \in 1..Len(incoming') :
                incoming'[i] = incoming[i + 1] /\ i + 1 \in 1..Len(incoming)
        /\ incoming' = <<>> <=> Len(incoming) = 1
        /\ incoming' # <<>> => incoming'[Len(incoming')] = incoming[Len(incoming)]
    <3>1. incoming \in Seq(Packet)
      OBVIOUS
    <3> HIDE DEF TypeOK, InductiveInvariant, LeavingIsSilent, EndIsLast
    <3> QED
      BY <2>1, <3>1, Popped
  <2>3. \A i \in 1..Len(incoming') : incoming'[i] \in ServerPackets
    BY <2>2
  <2>4. ASSUME pc["worker"] = "dropTerminal", incoming' = <<>>
        PROVE  pc'["gui"] = "waitNotice"
    <3>1. Terminal(Head(incoming))
      BY <2>1, <2>2, <2>4
    <3> QED
      BY <1>4, <3>1, TerminalWaits
  <2>5. ASSUME pc["worker"] = "done", events # <<>>, Terminal(incoming[Len(incoming)])
        PROVE  incoming' # <<>>
    <3>1. events[Len(events)] \notin Failures
      BY <2>2, <2>5
    <3>2. PendingFailures = 0 /\ ReadsToPost = 0
      BY <2>5, <3>1 DEF PendingFailures, ReadsToPost
    <3>3. Len(incoming) = Len(events) + 1 /\ Len(events) > 0
      <4>1. Len(events) \in Nat /\ events \in Seq({"Connect", "FailConnect", "Read", "FailRead"})
        OBVIOUS
      <4>2. Len(incoming) = Len(events) - 0 + 1 + 0
        BY <2>1, <3>2, GetFinds
      <4> HIDE DEF TypeOK, InductiveInvariant, LeavingIsSilent, EndIsLast
      <4> QED
        BY <2>5, <4>1, <4>2
    <3> QED
      BY <2>2, <3>3
  <2> QED
    <3>1. pc["worker"] = "append" => pkt \in ServerPackets
      OBVIOUS
    <3>2. pc["worker"] = "dropTerminal" => Terminal(incoming[Len(incoming)])
      BY <2>1
    <3>3. net /\ pc["worker"] = "done" /\ ~exiting =>
            \/ events # <<>> /\ events[Len(events)] \in Failures
            \/ Terminal(incoming[Len(incoming)])
      BY <2>1
    <3> HIDE DEF TypeOK, InductiveInvariant, LeavingIsSilent, Failures
    <3> QED
      BY <2>1, <2>2, <2>3, <2>4, <2>5, <3>1, <3>2, <3>3
<1> QED
  BY <1>1, <1>2, <1>3, <1>4 DEF EventStep

\* The GUI thread's other steps keep the end of a session last.
LEMMA HandlerEnd ==
    ASSUME InductiveInvariant, LeavingIsSilent, EndIsLast, TypeOK', HandlerStep \/ DismissBox
    PROVE  EndIsLast'
<1> USE DEF TypeOK, InductiveInvariant, MutexesOwned, EventsOrdered, ReadsOrdered, TerminalsLast,
            MenusOrdered, MenusNeedNet, ExitAfterWorker, Failures, Starting, Unreported,
            Disconnecting, FailureShown, LeavingIsSilent, EndIsLast
<1>1. CASE AddOut
  BY <1>1, SMTT(20) DEF AddOut
<1>2. CASE Disconnect
  BY <1>2, SMTT(20) DEF Disconnect, GuiGoto
<1>3. CASE Destroy
  BY <1>3, SMTT(20) DEF Destroy, GuiGoto
<1>4. CASE Destructor
  BY <1>4, SMTT(20) DEF Destructor, GuiGoto, InLoop
<1>5. CASE WaitExit
  BY <1>5, SMTT(20) DEF WaitExit, GuiGoto
<1>6. CASE Send("gui") /\ UNCHANGED window
  BY <1>6, SendEnd
<1>7. CASE DismissBox
  BY <1>7, SMTT(20) DEF DismissBox, InLoop, network
<1> QED
  BY <1>1, <1>2, <1>3, <1>4, <1>5, <1>6, <1>7 DEF HandlerStep

\* SessionsInvariant is inductive relative to InductiveInvariant.
LEMMA SessionsKept ==
    ASSUME InductiveInvariant, SessionsInvariant, TypeOK', [Next]_vars
    PROVE  SessionsInvariant'
<1>1. AnswersInHand /\ LeavingIsSilent /\ EndIsLast
  BY DEF SessionsInvariant
<1>2. AnswersInHand'
  BY <1>1, AnswersKept
<1>3. CASE WorkerAction
  BY <1>1, <1>2, <1>3, WorkerLeaving, WorkerEnd DEF WorkerAction, SessionsInvariant
<1>4. CASE ServerAction
  BY <1>1, <1>2, <1>4, ServerLeaving, ServerEnd DEF ServerAction, SessionsInvariant
<1>5. CASE GuiAction
  BY <1>1, <1>2, <1>5, UserLeaving, UserEnd, EventLeaving, EventEnd, HandlerLeaving,
     HandlerEnd DEF GuiAction, SessionsInvariant
<1>6. CASE UNCHANGED vars
  BY <1>1, <1>2, <1>6 DEF vars, network, SessionsInvariant, LeavingIsSilent, EndIsLast,
     Disconnecting, FailureShown
<1> QED
  BY <1>3, <1>4, <1>5, <1>6 DEF Next, Stop

\* Network::Entry and MainWindow: in every reachable state a session the user leaves reports
\* no failure, a session that ended otherwise has its end as the last thing to handle, and
\* what the worker queues on its own is on its way (SessionsInvariant).
THEOREM SessionsInductive == Spec => []SessionsInvariant
<1>1. Init => SessionsInvariant
  BY DEF Init, SessionsInvariant, AnswersInHand, NothingToAnswer, LeavingIsSilent, EndIsLast,
     Disconnecting, FailureShown
<1>2. InductiveInvariant /\ InductiveInvariant' /\ SessionsInvariant /\ [Next]_vars
        => SessionsInvariant'
  BY SessionsKept DEF InductiveInvariant
<1> QED
  BY <1>1, <1>2, InvariantInductive, PTL DEF Spec
--------------------------------------------------------------------------------
(* MainWindow and its worker implement Session.                             *)

\* What a step must keep for Session not to see it.
LEMMA SessionFrame ==
    ASSUME SessionOver' <=> SessionOver,
           ~SessionOver => (Opening' <=> Opening) /\ exiting' = exiting /\ incoming' = incoming,
           FailureShown' <=> FailureShown
    PROVE  UNCHANGED <<Phase, Leaving, FailureShown, Coming>>
<1>1. Phase' = Phase
  BY DEF Phase
<1>2. Leaving' = Leaving
  <2>1. Leaving' <=> Leaving
    BY DEF Leaving
  <2> QED
    BY <2>1, Zenon DEF Leaving
<1>3. FailureShown' = FailureShown
  BY Zenon DEF FailureShown
<1>4. Coming' = Coming
  BY DEF Coming
<1> QED
  BY <1>1, <1>2, <1>3, <1>4

\* A step that moves only the GUI thread, and not into or out of the handling of a packet.
LEMMA GuiFrame ==
    ASSUME TypeOK, pc'["worker"] = pc["worker"], UNCHANGED <<exiting, incoming, events, net>>,
           pc["gui"] \notin {"get", "waitNotice"}, pc'["gui"] \notin {"get", "waitNotice"}
    PROVE  (SessionOver' <=> SessionOver) /\ (Opening' <=> Opening)
  BY DEF SessionOver, Opening

\* With no Read event pending or in hand and no packet to report, Incoming is empty.
LEMMA NothingComes ==
    InductiveInvariant /\ net /\ events = <<>> /\ pc["gui"] # "get" /\ ~Unreported
        => incoming = <<>>
<1> SUFFICES ASSUME InductiveInvariant, net, events = <<>>, pc["gui"] # "get", ~Unreported
             PROVE  incoming = <<>>
  OBVIOUS
<1>1. /\ Len(events) = 0 /\ PendingConnects = 0 /\ PendingFailures = 0
      /\ ReadsInHand = 0 /\ ReadsToPost = 0
  BY DEF PendingConnects, PendingFailures, ReadsInHand, ReadsToPost
<1>2. Len(incoming) + 0 + 0 = 0 + 0 + 0
  BY <1>1 DEF InductiveInvariant, ReadsAccounted
<1>3. incoming \in Seq(Packet)
  BY DEF InductiveInvariant, TypeOK
<1> QED
  BY <1>2, <1>3

\* It stays so after a step.
LEMMA NothingCame ==
    (InductiveInvariant /\ net /\ events = <<>> /\ pc["gui"] # "get" /\ ~Unreported
        => incoming = <<>>)'
  BY NothingComes, PTL

\* The first event of a session that is being handled, and what dispatching it leaves.
LEMMA NextEvent ==
    ASSUME InductiveInvariant, LeavingIsSilent, NEW event, Dispatch(event)
    PROVE  /\ events # <<>> /\ events[1] = event /\ 1 \in 1..Len(events)
           /\ pc["worker"] \notin Starting
           /\ events' # <<>> => Head(events') \notin {"Connect", "FailConnect"}
           /\ events' = <<>> => Len(events) = 1
<1>1. events \in Seq({"Connect", "FailConnect", "Read", "FailRead"})
  BY DEF InductiveInvariant, TypeOK
<1>2. events # <<>> /\ events' = Tail(events) /\ event = Head(events)
  BY DEF Dispatch
<1>3. /\ Head(events) = events[1] /\ 1 \in 1..Len(events)
      /\ \A i \in 1..Len(events') : events'[i] = events[i + 1] /\ i + 1 \in 1..Len(events)
      /\ events' = <<>> => Len(events) = 1
      /\ events' # <<>> => 1 \in 1..Len(events')
      /\ events' \in Seq({"Connect", "FailConnect", "Read", "FailRead"})
  BY <1>1, <1>2, Popped
<1>4. pc["worker"] \notin Starting
  BY <1>2 DEF InductiveInvariant, EventsOrdered
<1>5. ASSUME events' # <<>>
      PROVE  Head(events') \notin {"Connect", "FailConnect"}
  <2>1. Head(events') = events[1 + 1] /\ 1 + 1 \in 1..Len(events)
    BY <1>3, <1>5
  <2>2. events[1 + 1] # "Connect"
    BY <2>1 DEF InductiveInvariant, EventsOrdered
  <2>3. events[1 + 1] # "FailConnect"
    BY <2>1 DEF LeavingIsSilent
  <2> QED
    BY <2>1, <2>2, <2>3
<1> QED
  BY <1>2, <1>3, <1>4, <1>5

\* The worker's steps: only the append to Incoming is one of Session's.
LEMMA WorkerRefines ==
    ASSUME InductiveInvariant, SessionsInvariant, ~Ended, Worker, UNCHANGED window
    PROVE  [Sessions!Next]_<<Phase, Leaving, FailureShown, Coming>>
<1>1. /\ TypeOK /\ LeavingIsSilent /\ EndIsLast
      /\ UNCHANGED FailureShown
  BY DEF InductiveInvariant, SessionsInvariant, FailureShown
<1>2. pc["worker"] # "done" /\ pc'["gui"] = pc["gui"] /\ exiting' = exiting
  BY <1>1 DEF TypeOK, Worker, Connect, ReceivePacket, WorkerStep, PostConnect, PostFailConnect,
     PostFailRead, PostRead, Post, QueueHello, ReceiveFails, AppendIncoming, LockOutgoing,
     LockIncoming, AnswerLast, UnlockOutgoing, UnlockIncoming, DropTerminal, DropError, Drop,
     CheckExiting, Send, SendLock, SendNext, SendFails, SendReturns
<1>3. net /\ net'
  BY <1>2 DEF InductiveInvariant, EventsOrdered
<1>4. CASE pc["gui"] = "waitNotice"
  <2>1. SessionOver /\ SessionOver'
    BY <1>2, <1>4 DEF SessionOver
  <2> QED
    BY <1>1, <2>1, SessionFrame
<1>5. ASSUME pc["gui"] # "waitNotice", incoming' = incoming, Opening' <=> Opening,
             pc'["worker"] # "done" \/ exiting \/ events' # <<>>
      PROVE  UNCHANGED <<Phase, Leaving, FailureShown, Coming>>
  <2>1. ~SessionOver /\ ~SessionOver'
    BY <1>2, <1>3, <1>5 DEF SessionOver
  <2> QED
    BY <1>1, <1>2, <1>5, <2>1, SessionFrame
<1>6. ASSUME pc["gui"] # "waitNotice", UNCHANGED <<incoming, events>>,
             pc["worker"] \notin Starting, pc'["worker"] \notin Starting,
             pc'["worker"] # "done" \/ exiting
      PROVE  UNCHANGED <<Phase, Leaving, FailureShown, Coming>>
  <2>1. Opening' <=> Opening
    BY <1>6 DEF Opening, Starting
  <2> QED
    BY <1>5, <1>6, <2>1
<1>7. CASE Connect /\ pc["gui"] # "waitNotice"
  <2>1. /\ pc["worker"] = "connect" /\ pc'["worker"] \in {"postConnect", "postFailConnect"}
        /\ incoming' = incoming
    BY <1>1, <1>7 DEF Connect, TypeOK
  <2> QED
    BY <1>5, <1>7, <2>1 DEF Opening
<1>8. CASE (PostConnect \/ PostFailConnect) /\ pc["gui"] # "waitNotice"
  <2>1. /\ pc["worker"] \in {"postConnect", "postFailConnect"} /\ incoming' = incoming
        /\ \E event \in {"Connect", "FailConnect"} : events' = Append(events, event)
    BY <1>8 DEF PostConnect, PostFailConnect, Post
  <2>2. events = <<>>
    BY <2>1 DEF InductiveInvariant, EventsOrdered, Starting
  <2>3. events' # <<>> /\ Head(events') \in {"Connect", "FailConnect"}
    BY <2>1, <2>2
  <2> QED
    BY <1>5, <1>8, <2>1, <2>3 DEF Opening
<1>9. CASE (PostRead \/ PostFailRead) /\ pc["gui"] # "waitNotice"
  <2>1. /\ pc["worker"] \in {"postRead", "postFailRead"} /\ incoming' = incoming
        /\ pc'["worker"] \in {"receive", "dropTerminal", "done"}
        /\ \E event \in {"Read", "FailRead"} : events' = Append(events, event)
    BY <1>1, <1>9 DEF PostRead, PostFailRead, Post, TypeOK
  <2>2. /\ events \in Seq({"Connect", "FailConnect", "Read", "FailRead"})
        /\ Starting = {"connect", "postConnect", "postFailConnect"}
    BY <1>1 DEF TypeOK, Starting
  <2>3. /\ events' # <<>>
        /\ Head(events') \in {"Connect", "FailConnect"}
              <=> events # <<>> /\ Head(events) \in {"Connect", "FailConnect"}
    BY <2>1, <2>2
  <2> QED
    BY <1>5, <1>9, <2>1, <2>3 DEF Opening
<1>10. CASE AppendIncoming /\ pc["gui"] # "waitNotice"
  <2>1. /\ pc["worker"] = "append" /\ pc'["worker"] = "lockOut" /\ events' = events
        /\ incoming' = Append(incoming, pkt)
    BY <1>1, <1>10 DEF AppendIncoming, TypeOK
  <2>2. ~SessionOver /\ ~SessionOver' /\ (Opening' <=> Opening)
    BY <1>2, <1>3, <1>10, <2>1 DEF SessionOver, Opening
  <2>3. Phase # "over" /\ Phase' = Phase /\ Coming = incoming /\ Coming' = incoming'
    BY <2>2 DEF Phase, Coming
  <2>4. Leaving' = Leaving
    BY <1>2, <2>2, Zenon DEF Leaving
  <2>5. \A i \in 1..Len(incoming) : incoming[i] \notin Ends
    BY <2>1 DEF InductiveInvariant, TerminalsLast, Unreported, Ends
  <2>6. pkt \in ServerPackets
    BY <1>1, <2>1 DEF EndIsLast
  <2>7. Sessions!Arrive(pkt)
    BY <1>1, <2>1, <2>3, <2>4, <2>5 DEF Sessions!Arrive
  <2> QED
    BY <2>6, <2>7 DEF Sessions!Next
<1>11. CASE DropTerminal /\ pc["gui"] # "waitNotice"
  <2>1. /\ pc["worker"] = "dropTerminal" /\ pc'["worker"] = "done"
        /\ UNCHANGED <<incoming, events>>
    BY <1>1, <1>11 DEF DropTerminal, Drop, TypeOK
  <2>2. ~(events = <<>> /\ pc["gui"] # "get")
    BY <1>1, <1>3, <1>11, <2>1, NothingComes DEF EndIsLast, Unreported
  <2>3. ~SessionOver /\ ~SessionOver' /\ (Opening' <=> Opening)
    BY <1>2, <1>3, <1>11, <2>1, <2>2 DEF SessionOver, Opening
  <2> QED
    BY <1>1, <1>2, <2>1, <2>3, SessionFrame
<1>12. CASE CheckExiting /\ pc["gui"] # "waitNotice"
  <2>1. /\ pc["worker"] = "checkExiting" /\ UNCHANGED <<incoming, events>>
        /\ pc'["worker"] = "postFailRead" \/ (pc'["worker"] = "done" /\ exiting)
    BY <1>1, <1>12 DEF CheckExiting, TypeOK
  <2> QED
    BY <1>6, <1>12, <2>1 DEF Starting
<1>13. CASE (\/ QueueHello \/ ReceiveFails \/ LockOutgoing \/ LockIncoming \/ AnswerLast
             \/ UnlockOutgoing \/ UnlockIncoming \/ DropError) /\ pc["gui"] # "waitNotice"
  <2>1. /\ UNCHANGED <<incoming, events>> /\ pc["worker"] \notin Starting
        /\ pc'["worker"] \notin Starting \cup {"done"}
    BY <1>1, <1>13 DEF QueueHello, ReceiveFails, LockOutgoing, LockIncoming, AnswerLast,
       UnlockOutgoing, UnlockIncoming, DropError, Drop, TypeOK, Starting
  <2> QED
    BY <1>6, <1>13, <2>1
<1>14. ASSUME NEW p \in ServerPackets, ReceivePacket(p), pc["gui"] # "waitNotice"
       PROVE  UNCHANGED <<Phase, Leaving, FailureShown, Coming>>
  <2>1. /\ UNCHANGED <<incoming, events>> /\ pc["worker"] \notin Starting
        /\ pc'["worker"] \notin Starting \cup {"done"}
    BY <1>1, <1>14 DEF ReceivePacket, TypeOK, Starting
  <2> QED
    BY <1>6, <1>14, <2>1
<1>15. CASE Send("worker") /\ pc["gui"] # "waitNotice"
  <2>1. /\ UNCHANGED <<incoming, events>> /\ pc["worker"] \notin Starting
        /\ pc'["worker"] \notin Starting \cup {"done"}
    BY <1>1, <1>15 DEF Send, SendLock, SendNext, SendFails, SendReturns, TypeOK, Starting
  <2> QED
    BY <1>6, <1>15, <2>1
<1> QED
  BY <1>4, <1>7, <1>8, <1>9, <1>10, <1>11, <1>12, <1>13, <1>14, <1>15 DEF Worker, WorkerStep

\* The user's commands: OK in the login dialog opens a session, Disconnect and the closing
\* of the window leave it.
LEMMA UserRefines ==
    ASSUME InductiveInvariant, SessionsInvariant, InductiveInvariant', User
    PROVE  [Sessions!Next]_<<Phase, Leaving, FailureShown, Coming>>
<1>1. TypeOK /\ TypeOK' /\ LeavingIsSilent
  BY DEF InductiveInvariant, SessionsInvariant
<1>2. CASE OnConnect \/ LoginCancel
  <2>1. ~FailureShown /\ ~FailureShown'
    BY <1>2 DEF OnConnect, LoginCancel, UserCanAct, FailureShown
  <2>2. (SessionOver' <=> SessionOver) /\ (Opening' <=> Opening) /\ UNCHANGED network
    BY <1>2 DEF OnConnect, LoginCancel, network, SessionOver, Opening
  <2> QED
    BY <2>1, <2>2, SessionFrame DEF network
<1>3. CASE LoginOk
  <2>1. /\ pc["gui"] = "loop" /\ modal = <<"login">> /\ events = <<>> /\ modal' = <<>>
        /\ pc'["worker"] = "connect" /\ pc'["gui"] = "loop" /\ net' /\ ~exiting'
        /\ incoming' = <<>>
    BY <1>1, <1>3 DEF LoginOk, StartNetwork, InLoop, TypeOK
  <2>2. menuConnect
    <3>1. 1 \in 1..Len(modal) /\ modal[1] = "login"
      BY <2>1
    <3> QED
      BY <3>1 DEF InductiveInvariant, MenusOrdered
  <2>3. pc["worker"] = "done" /\ (~net \/ ~exiting)
    BY <1>1, <2>2 DEF InductiveInvariant, MenusOrdered, LeavingIsSilent
  <2>4. SessionOver /\ ~SessionOver' /\ Opening'
    BY <2>1, <2>3 DEF SessionOver, Opening
  <2>5. ~FailureShown /\ ~FailureShown'
    BY <2>1 DEF FailureShown
  <2>6. UNCHANGED <<Leaving, FailureShown>>
    <3>1. ~Leaving /\ ~Leaving'
      BY <2>1, <2>4 DEF Leaving
    <3> QED
      BY <2>5, <3>1, Zenon DEF Leaving, FailureShown
  <2>7. Phase = "over" /\ Phase' = "opening" /\ Coming' = Coming
    BY <2>1, <2>4 DEF Phase, Coming
  <2> QED
    BY <2>5, <2>6, <2>7 DEF Sessions!Next, Sessions!Open
<1>4. ASSUME pc["gui"] = "loop", net, connected,
             pc'["gui"] = "addOut", pc'["worker"] = pc["worker"], exiting' = TRUE,
             UNCHANGED <<incoming, events, net, modal>>
      PROVE  Sessions!Leave
  <2>1. pc["worker"] # "done"
    BY <1>1, <1>4 DEF LeavingIsSilent
  <2>2. ~SessionOver /\ ~SessionOver' /\ (Opening' <=> Opening)
    BY <1>4, <2>1 DEF SessionOver, Opening
  <2>3. Phase # "over" /\ UNCHANGED <<Phase, Coming>>
    BY <1>4, <2>2 DEF Phase, Coming
  <2>4. UNCHANGED FailureShown
    BY <1>4 DEF FailureShown
  <2>5. Leaving' = TRUE
    BY <1>4, <2>2 DEF Leaving
  <2> QED
    BY <2>3, <2>4, <2>5 DEF Sessions!Leave
<1>5. CASE OnDisconnect
  <2>1. Sessions!Leave
    BY <1>1, <1>4, <1>5 DEF OnDisconnect, UserCanAct, InLoop, SendDisconnect, QueueAndSend, TypeOK
  <2> QED
    BY <2>1 DEF Sessions!Next
<1>6. ASSUME pc["gui"] = "loop", pc'["gui"] \notin {"get", "waitNotice"},
             pc'["worker"] = pc["worker"], UNCHANGED <<exiting, incoming, events, net, modal>>
      PROVE  UNCHANGED <<Phase, Leaving, FailureShown, Coming>>
  <2>1. (SessionOver' <=> SessionOver) /\ (Opening' <=> Opening)
    BY <1>1, <1>6, GuiFrame
  <2>2. FailureShown' <=> FailureShown
    BY <1>6 DEF FailureShown
  <2> QED
    BY <1>6, <2>1, <2>2, SessionFrame
<1>7. CASE OnClose
  <2>1. CASE net /\ connected
    <3>1. Sessions!Leave
      BY <1>1, <1>4, <1>7, <2>1
      DEF OnClose, UserCanAct, InLoop, SendDisconnect, QueueAndSend, TypeOK
    <3> QED
      BY <3>1 DEF Sessions!Next
  <2>2. CASE ~(net /\ connected)
    BY <1>1, <1>6, <1>7, <2>2 DEF OnClose, UserCanAct, InLoop, GuiGoto, TypeOK
  <2> QED
    BY <2>1, <2>2
<1>8. ASSUME NEW idx \in pages, OnProcessCommand(idx, "ProcessKill")
      PROVE  UNCHANGED <<Phase, Leaving, FailureShown, Coming>>
  BY <1>1, <1>6, <1>8 DEF OnProcessCommand, UserCanAct, InLoop, QueueAndSend, GuiGoto, TypeOK
<1> QED
  BY <1>2, <1>3, <1>5, <1>7, <1>8 DEF User

\* Get: the packet that was popped is the next one of its session, and the last one when it
\* ends it.
LEMMA GetRefines ==
    ASSUME InductiveInvariant, SessionsInvariant, InductiveInvariant', Get
    PROVE  Sessions!Next
<1>1. TypeOK /\ TypeOK' /\ LeavingIsSilent /\ EndIsLast
  BY DEF InductiveInvariant, SessionsInvariant
<1>2. /\ incoming # <<>> /\ incoming' = Tail(incoming) /\ net' = net
      /\ UNCHANGED <<events, exiting>> /\ pc["gui"] = "get" /\ pc'["worker"] = pc["worker"]
      /\ pc'["gui"] \in {"loop", "addOut", "waitNotice", "crashFreedList"}
  BY <1>1, GetDecides DEF Get, TypeOK
<1>3. /\ Head(incoming) = incoming[1] /\ 1 \in 1..Len(incoming)
      /\ Len(incoming) \in 1..Len(incoming)
      /\ incoming' = <<>> => Len(incoming) = 1
  BY <1>1, <1>2, Popped DEF TypeOK
<1>4. net /\ (events # <<>> => events[1] \notin {"Connect", "FailConnect"})
  <2>1. net /\ (events # <<>> => events[1] # "Connect")
    BY <1>2 DEF InductiveInvariant, ReadsOrdered
  <2>2. events # <<>> => 1 \in 1..Len(events)
    BY <1>1 DEF TypeOK
  <2> QED
    BY <1>1, <1>2, <2>1, <2>2 DEF LeavingIsSilent
<1>5. ~SessionOver /\ ~Opening /\ ~Opening'
  <2>1. pc["worker"] \notin Starting
    BY <1>2 DEF InductiveInvariant, EventsOrdered
  <2>2. events # <<>> => Head(events) = events[1]
    BY <1>1 DEF TypeOK
  <2> QED
    BY <1>2, <1>4, <2>1, <2>2 DEF SessionOver, Opening, Starting
<1>6. Phase = "online" /\ Coming = incoming
  BY <1>5 DEF Phase, Coming
<1>7. UNCHANGED FailureShown
  <2>1. \A i \in 1..Len(modal) : modal[i] # "failure"
    BY <1>1, <1>2 DEF LeavingIsSilent, FailureShown
  <2>2. \A i \in 1..Len(modal') : modal'[i] # "failure"
    <3>1. CASE modal' = modal
      BY <2>1, <3>1
    <3>2. CASE modal' = Append(modal, "notice")
      <4>1. modal \in Seq({"login", "notice", "failure"})
        BY <1>1 DEF TypeOK
      <4> QED
        BY <2>1, <3>2, <4>1, NoticeBox
    <3> QED
      BY <3>1, <3>2, GetDecides
  <2> QED
    BY <2>1, <2>2, Zenon DEF FailureShown
<1>8. CASE Terminal(Head(incoming))
  <2>1. SessionOver'
    BY <1>8, TerminalWaits DEF SessionOver
  <2>2. Len(incoming) = 1
    BY <1>3, <1>8 DEF InductiveInvariant, TerminalsLast
  <2>3. Head(incoming) \in Ends
    BY <1>1, <1>3, <1>8 DEF EndIsLast, Ends
  <2>4. Phase' = "over" /\ Coming' = <<>> /\ Leaving' = FALSE
    BY <2>1 DEF Phase, Coming, Leaving
  <2> QED
    BY <1>6, <1>7, <2>2, <2>3, <2>4 DEF Sessions!Next, Sessions!HandleTerminal
<1>9. CASE ~Terminal(Head(incoming))
  <2>1. pc'["gui"] # "waitNotice"
    BY <1>9, GetDecides
  <2>2. ASSUME pc["worker"] = "done", ~exiting, events = <<>>
        PROVE  FALSE
    <3>1. Terminal(incoming[Len(incoming)])
      BY <1>1, <1>2, <1>4, <2>2 DEF EndIsLast
    <3>2. incoming' = <<>>
      BY <1>2, <1>4, <2>2, NothingCame DEF Unreported
    <3> QED
      BY <1>3, <1>9, <3>1, <3>2
  <2>3. ~SessionOver'
    BY <1>2, <1>4, <2>1, <2>2 DEF SessionOver
  <2>4. Phase' = "online" /\ Coming' = incoming'
    BY <1>5, <2>3 DEF Phase, Coming
  <2>5. Leaving' = Leaving
    <3>1. Leaving' <=> Leaving
      BY <1>2, <1>5, <2>3 DEF Leaving
    <3> QED
      BY <3>1, Zenon DEF Leaving
  <2>6. Head(incoming) \notin Ends
    BY <1>9 DEF Ends
  <2> QED
    BY <1>2, <1>6, <1>7, <2>4, <2>5, <2>6 DEF Sessions!Next, Sessions!Handle
<1> QED
  BY <1>8, <1>9

\* The handlers of the worker's events report the connection, the failure and the packets.
LEMMA EventRefines ==
    ASSUME InductiveInvariant, SessionsInvariant, InductiveInvariant', EventStep
    PROVE  [Sessions!Next]_<<Phase, Leaving, FailureShown, Coming>>
<1>1. TypeOK /\ TypeOK' /\ LeavingIsSilent /\ EndIsLast
  BY DEF InductiveInvariant, SessionsInvariant
<1>2. CASE OnSocketConnected
  <2>1. /\ Dispatch("Connect") /\ pc["gui"] = "loop"
        /\ UNCHANGED <<pc, incoming, exiting, net, modal>>
    BY <1>2 DEF OnSocketConnected, Dispatch, InLoop
  <2>2. /\ events # <<>> /\ events[1] = "Connect" /\ 1 \in 1..Len(events)
        /\ Head(events) = "Connect" /\ pc["worker"] \notin Starting
        /\ events' # <<>> => Head(events') \notin {"Connect", "FailConnect"}
        /\ events' = <<>> => Len(events) = 1
    BY <1>1, <2>1, NextEvent DEF Dispatch
  <2>3. net
    BY <2>2 DEF InductiveInvariant, EventsOrdered
  <2>4. ASSUME pc["worker"] = "done", ~exiting, events' = <<>>
        PROVE  FALSE
    <3>1. incoming # <<>>
      BY <1>1, <2>2, <2>3, <2>4 DEF EndIsLast, Failures
    <3> QED
      BY <2>1, <2>3, <2>4, <3>1, NothingCame DEF Unreported
  <2>5. ~SessionOver /\ ~SessionOver' /\ Opening /\ ~Opening'
    BY <2>1, <2>2, <2>3, <2>4 DEF SessionOver, Opening, Starting
  <2>6. Phase = "opening" /\ Phase' = "online" /\ UNCHANGED Coming
    BY <2>1, <2>5 DEF Phase, Coming
  <2>7. UNCHANGED <<Leaving, FailureShown>>
    <3>1. Leaving' <=> Leaving
      BY <2>1, <2>5 DEF Leaving
    <3>2. UNCHANGED FailureShown
      BY <2>1 DEF FailureShown
    <3> QED
      BY <3>1, <3>2, Zenon DEF Leaving
  <2> QED
    BY <2>6, <2>7 DEF Sessions!Next, Sessions!ReportConnection
<1>3. CASE OnSocketRead
  <2>1. /\ Dispatch("Read") /\ pc["gui"] = "loop" /\ pc'["worker"] = pc["worker"]
        /\ pc'["gui"] = (IF net THEN "get" ELSE "crashNullRead")
        /\ UNCHANGED <<incoming, exiting, net, modal>>
    BY <1>1, <1>3 DEF OnSocketRead, Dispatch, InLoop, TypeOK
  <2>2. /\ events # <<>> /\ Head(events) = "Read" /\ pc["worker"] \notin Starting
        /\ events' # <<>> => Head(events') \notin {"Connect", "FailConnect"}
    BY <1>1, <2>1, NextEvent DEF Dispatch
  <2>3. ~Opening /\ ~Opening' /\ (SessionOver <=> ~net) /\ (SessionOver' <=> ~net)
    BY <2>1, <2>2 DEF SessionOver, Opening, Starting
  <2>4. FailureShown' <=> FailureShown
    BY <2>1 DEF FailureShown
  <2> QED
    BY <2>1, <2>3, <2>4, SessionFrame
<1>4. CASE OnSocketFail
  <2>1. PICK event \in Failures : Dispatch(event)
    BY <1>4 DEF OnSocketFail, Failures
  <2>2. /\ events # <<>> /\ events[1] \in Failures /\ 1 \in 1..Len(events)
        /\ events' = Tail(events) /\ pc["gui"] = "loop"
    BY <1>1, <2>1, NextEvent DEF Dispatch, InLoop
  <2>3. Len(events) = 1 /\ pc["worker"] = "done" /\ ~exiting /\ net
    BY <1>1, <2>2 DEF InductiveInvariant, EventsOrdered, LeavingIsSilent
  <2>4. events' = <<>>
    <3>1. events \in Seq({"Connect", "FailConnect", "Read", "FailRead"})
      BY <1>1 DEF TypeOK
    <3> QED
      BY <2>2, <2>3, <3>1, Popped
  <2>5. /\ UNCHANGED <<pc, incoming, exiting, net>> /\ modal' = Append(modal, "failure")
    BY <1>4 DEF OnSocketFail, Dispatch
  <2>6. incoming = <<>>
    <3>1. PendingConnects = 0 /\ PendingFailures = 1 /\ ReadsInHand = 0 /\ ReadsToPost = 0
      BY <2>2, <2>3 DEF PendingConnects, PendingFailures, ReadsInHand, ReadsToPost, Failures,
         Unreported
    <3>2. Len(incoming) + 0 + 1 = 1 + 0 + 0
      BY <2>3, <3>1 DEF InductiveInvariant, ReadsAccounted
    <3> QED
      BY <1>1, <3>2 DEF TypeOK
  <2>7. ~SessionOver /\ SessionOver'
    BY <2>2, <2>3, <2>4, <2>5 DEF SessionOver
  <2>8. FailureShown'
    <3>1. modal \in Seq({"login", "notice", "failure"})
      BY <1>1 DEF TypeOK
    <3>2. modal'[Len(modal')] = "failure" /\ Len(modal') \in 1..Len(modal')
      BY <2>5, <3>1
    <3> QED
      BY <3>2 DEF FailureShown
  <2>9. FailureShown' = TRUE /\ Leaving' = Leaving
    <3>1. ~Leaving /\ ~Leaving'
      BY <2>3, <2>5 DEF Leaving
    <3> QED
      BY <2>8, <3>1, Zenon DEF Leaving, FailureShown
  <2>10. Phase # "over" /\ Phase' = "over" /\ Coming = <<>> /\ Coming' = <<>> /\ ~Leaving
    BY <2>3, <2>6, <2>7 DEF Phase, Coming, Leaving
  <2> QED
    BY <2>9, <2>10 DEF Sessions!Next, Sessions!ReportFailure
<1>5. CASE Get
  BY <1>5, GetRefines
<1> QED
  BY <1>2, <1>3, <1>4, <1>5 DEF EventStep

\* The GUI thread's other steps: Net->Wait () returns to a user who left, and the box of a
\* failure is dismissed.
LEMMA HandlerRefines ==
    ASSUME InductiveInvariant, SessionsInvariant, InductiveInvariant', HandlerStep \/ DismissBox
    PROVE  [Sessions!Next]_<<Phase, Leaving, FailureShown, Coming>>
<1>1. TypeOK /\ TypeOK' /\ LeavingIsSilent
  BY DEF InductiveInvariant, SessionsInvariant
<1>2. CASE Disconnect
  <2>1. /\ pc["gui"] \in {"wait", "waitNotice"} /\ ~net'
        /\ UNCHANGED <<incoming, exiting, events>>
        /\ modal' = IF pc["gui"] = "waitNotice" THEN Append(modal, "notice") ELSE modal
    BY <1>2 DEF Disconnect, GuiGoto
  <2>2. SessionOver'
    BY <2>1 DEF SessionOver
  <2>3. CASE pc["gui"] = "wait"
    <3>1. net /\ exiting
      BY <1>1, <2>3 DEF InductiveInvariant, MenusOrdered, MenusNeedNet, Disconnecting,
         LeavingIsSilent
    <3>2. ~SessionOver
      BY <2>3, <3>1 DEF SessionOver
    <3>3. Leaving /\ Leaving' = FALSE
      BY <2>2, <3>1, <3>2 DEF Leaving
    <3>4. Phase' = "over" /\ Coming' = <<>>
      BY <2>2 DEF Phase, Coming
    <3>5. UNCHANGED FailureShown
      BY <2>1, <2>3 DEF FailureShown
    <3> QED
      BY <3>3, <3>4, <3>5 DEF Sessions!Next, Sessions!Left
  <2>4. CASE pc["gui"] = "waitNotice"
    <3>1. SessionOver
      BY <2>4 DEF SessionOver
    <3>2. \A i \in 1..Len(modal) : modal[i] # "failure"
      BY <1>1, <2>4 DEF LeavingIsSilent, FailureShown
    <3>3. modal \in Seq({"login", "notice", "failure"}) /\ modal' = Append(modal, "notice")
      BY <1>1, <2>1, <2>4 DEF TypeOK
    <3>4. \A i \in 1..Len(modal') : modal'[i] # "failure"
      BY <3>2, <3>3, NoticeBox
    <3>5. FailureShown' <=> FailureShown
      BY <3>2, <3>4 DEF FailureShown
    <3> QED
      BY <2>2, <3>1, <3>5, SessionFrame
  <2> QED
    BY <2>1, <2>3, <2>4
<1>3. ASSUME UNCHANGED <<incoming, exiting, events, net, modal>>, pc'["worker"] = pc["worker"],
             pc["gui"] \notin {"get", "waitNotice"}, pc'["gui"] \notin {"get", "waitNotice"}
      PROVE  UNCHANGED <<Phase, Leaving, FailureShown, Coming>>
  <2>1. (SessionOver' <=> SessionOver) /\ (Opening' <=> Opening)
    BY <1>1, <1>3, GuiFrame
  <2>2. FailureShown' <=> FailureShown
    BY <1>3 DEF FailureShown
  <2> QED
    BY <1>3, <2>1, <2>2, SessionFrame
<1>4. CASE AddOut
  BY <1>1, <1>3, <1>4 DEF AddOut, TypeOK
<1>5. CASE Destroy
  BY <1>1, <1>3, <1>5 DEF Destroy, GuiGoto, TypeOK
<1>6. CASE Destructor
  BY <1>1, <1>3, <1>6 DEF Destructor, GuiGoto, InLoop, TypeOK
<1>7. CASE WaitExit
  BY <1>1, <1>3, <1>7 DEF WaitExit, GuiGoto, TypeOK
<1>8. CASE Send("gui") /\ UNCHANGED window
  BY <1>1, <1>3, <1>8 DEF Send, SendLock, SendNext, SendFails, SendReturns, TypeOK
<1>9. CASE DismissBox
  <2>1. /\ modal # <<>> /\ modal' = SubSeq(modal, 1, Len(modal) - 1)
        /\ UNCHANGED <<pc, incoming, exiting, events, net>>
    BY <1>9 DEF DismissBox, network
  <2>2. (SessionOver' <=> SessionOver) /\ (Opening' <=> Opening)
    BY <2>1 DEF SessionOver, Opening
  <2>3. \A i \in 1..Len(modal') : modal'[i] # "failure"
    <3>1. modal \in Seq({"login", "notice", "failure"})
      BY <1>1 DEF TypeOK
    <3>2. \A i \in 1..Len(modal') :
              i \in 1..Len(modal) /\ i # Len(modal) /\ modal'[i] = modal[i]
      BY <2>1, <3>1
    <3> QED
      BY <1>1, <3>2 DEF LeavingIsSilent
  <2>4. ~FailureShown'
    BY <2>3 DEF FailureShown
  <2>5. UNCHANGED <<Phase, Coming>>
    BY <2>1, <2>2 DEF Phase, Coming
  <2>6. UNCHANGED Leaving
    <3>1. Leaving' <=> Leaving
      BY <2>1, <2>2 DEF Leaving
    <3> QED
      BY <3>1, Zenon DEF Leaving
  <2>7. CASE FailureShown
    <3>1. FailureShown' = FALSE
      BY <2>4, Zenon DEF FailureShown
    <3> QED
      BY <2>5, <2>6, <2>7, <3>1 DEF Sessions!Next, Sessions!Acknowledge
  <2>8. CASE ~FailureShown
    BY <2>1, <2>2, <2>4, <2>8, SessionFrame
  <2> QED
    BY <2>7, <2>8
<1> QED
  BY <1>2, <1>4, <1>5, <1>6, <1>7, <1>8, <1>9 DEF HandlerStep

\* Network and MainWindow implement Session: of each session the handlers get its connection
\* or its failure, then every packet once, in order and before the session's end, and
\* nothing of one session in the next (ImplementsSession).
THEOREM SessionImplemented == Spec => ImplementsSession
<1>1. Init => Sessions!Init
  <2> SUFFICES ASSUME Init
               PROVE  Sessions!Init
    OBVIOUS
  <2>1. SessionOver /\ ~FailureShown
    BY DEF Init, SessionOver, FailureShown
  <2>2. Phase = "over" /\ Coming = <<>> /\ ~Leaving
    BY <2>1 DEF Phase, Coming, Leaving
  <2> QED
    BY <2>1, <2>2 DEF Sessions!Init
<1>2. /\ InductiveInvariant /\ SessionsInvariant /\ InductiveInvariant' /\ [Next]_vars
      => [Sessions!Next]_<<Phase, Leaving, FailureShown, Coming>>
  <2> SUFFICES ASSUME InductiveInvariant, SessionsInvariant, InductiveInvariant', [Next]_vars
               PROVE  [Sessions!Next]_<<Phase, Leaving, FailureShown, Coming>>
    OBVIOUS
  <2>1. CASE WorkerAction
    BY <2>1, WorkerRefines DEF WorkerAction
  <2>2. CASE ServerAction
    <3>1. UNCHANGED <<pc, incoming, exiting, events, net, modal>>
      BY <2>2 DEF ServerAction, Server, ServerReads, ServerCloses
    <3>2. /\ (SessionOver' <=> SessionOver) /\ (Opening' <=> Opening)
          /\ FailureShown' <=> FailureShown
      BY <3>1 DEF SessionOver, Opening, FailureShown
    <3> QED
      BY <3>1, <3>2, SessionFrame
  <2>3. CASE GuiAction
    BY <2>3, UserRefines, EventRefines, HandlerRefines DEF GuiAction
  <2>4. CASE UNCHANGED vars
    <3>1. UNCHANGED <<pc, incoming, exiting, events, net, modal>>
      BY <2>4 DEF vars, network
    <3>2. /\ (SessionOver' <=> SessionOver) /\ (Opening' <=> Opening)
          /\ FailureShown' <=> FailureShown
      BY <3>1 DEF SessionOver, Opening, FailureShown
    <3> QED
      BY <3>1, <3>2, SessionFrame
  <2> QED
    BY <2>1, <2>2, <2>3, <2>4 DEF Next, Stop
<1> QED
  BY <1>1, <1>2, InvariantInductive, SessionsInductive, PTL
  DEF Spec, ImplementsSession, Sessions!Spec
--------------------------------------------------------------------------------
(* The deaths of the program: two never come, two have one cause.           *)

\* Network::Get did not pop an empty list, nor did a command of the Process menu use a NULL Net.
TwoSurvived == pc["gui"] \notin {"crashEmptyList", "crashNullCommand"}

\* GetFindsPacket and MenusNeedNet are what the two states are about.
LEMMA TwoNeverCome ==
    ASSUME InductiveInvariant, [Next]_vars, TwoSurvived
    PROVE  TwoSurvived'
<1> USE DEF TwoSurvived
<1>1. TypeOK /\ MenusNeedNet
  BY DEF InductiveInvariant, MenusOrdered
<1>2. CASE WorkerAction
  <2>1. ASSUME Send("worker")
        PROVE  pc'["gui"] = pc["gui"]
    BY <1>1, <2>1 DEF Send, SendLock, SendNext, SendFails, SendReturns, Goto, TypeOK
  <2>2. pc'["gui"] = pc["gui"]
    BY <1>1, <1>2, <2>1 DEF WorkerAction, Worker, WorkerStep, Connect, ReceivePacket, PostConnect,
       PostFailConnect, PostFailRead, PostRead, Post, QueueHello, ReceiveFails, AppendIncoming,
       LockOutgoing, LockIncoming, AnswerLast, UnlockOutgoing, UnlockIncoming, DropTerminal,
       DropError, Drop, CheckExiting, Goto, TypeOK
  <2> QED
    BY <2>2
<1>3. CASE ServerAction
  BY <1>3 DEF ServerAction, Server, ServerReads, ServerCloses
<1>4. CASE User
  BY <1>1, <1>4 DEF User, OnConnect, LoginOk, LoginCancel, OnDisconnect, OnClose, OnProcessCommand,
     SendDisconnect, QueueAndSend, StartNetwork, GuiGoto, Goto, network, MenusNeedNet, TypeOK
<1>5. CASE DismissBox
  BY <1>5 DEF DismissBox, network
<1>6. CASE OnSocketConnected \/ OnSocketRead \/ OnSocketFail
  BY <1>1, <1>6 DEF OnSocketConnected, OnSocketRead, OnSocketFail, Goto, TypeOK
<1>7. CASE Get
  BY <1>7, GetDecides
<1>8. CASE HandlerStep
  BY <1>1, <1>8 DEF HandlerStep, AddOut, Disconnect, Destroy, Destructor, WaitExit, GuiGoto, Goto,
     Send, SendLock, SendNext, SendFails, SendReturns, TypeOK
<1>9. CASE UNCHANGED vars
  BY <1>9 DEF vars, network
<1> QED
  BY <1>2, <1>3, <1>4, <1>5, <1>6, <1>7, <1>8, <1>9 DEF Next, GuiAction, EventStep, Stop

\* The program never dies of an empty Incoming in Network::Get, nor of a command of the Process
\* menu without a Network object.
THEOREM TwoDeathsNeverCome == Spec => []TwoSurvived
<1>1. Init => TwoSurvived
  BY DEF Init, TwoSurvived
<1> QED
  BY <1>1, TwoNeverCome, InvariantInductive, PTL DEF Spec

\* The behaviours in which the user never chooses Disconnect.
NobodyDisconnects == Init /\ [][Next /\ ~OnDisconnect]_vars

\* No event is pending without a Network object, and none will be.
EventsHaveNet == (~net => events = <<>>) /\ ~Disconnecting /\ ReadFindsNet

\* Every other way a session ends leaves no event behind: a terminal packet is the last thing
\* reported, and a failure keeps the Network object.
LEMMA EventsKeepNet ==
    ASSUME InductiveInvariant, EventsHaveNet, [Next /\ ~OnDisconnect]_vars
    PROVE  EventsHaveNet'
<1>1. /\ TypeOK /\ (pc["worker"] # "done" => net) /\ (menuProcess => net)
      /\ (pc["gui"] = "waitNotice" => events = <<>>)
  BY DEF InductiveInvariant, MenusOrdered, MenusNeedNet, EventsOrdered, TerminalsLast
<1>2. CASE WorkerAction
  <2>1. UNCHANGED window
    BY <1>2 DEF WorkerAction
  <2>2. CASE Send("worker")
    BY <1>1, <2>1, <2>2 DEF Send, SendLock, SendNext, SendFails, SendReturns, Goto, TypeOK, window,
       EventsHaveNet, Disconnecting, ReadFindsNet
  <2>3. CASE ~Send("worker")
    BY <1>1, <1>2, <2>1, <2>3
    DEF WorkerAction, Worker, WorkerStep, Connect, ReceivePacket, PostConnect,
       PostFailConnect, PostFailRead, PostRead, Post, QueueHello, ReceiveFails, AppendIncoming,
       LockOutgoing, LockIncoming, AnswerLast, UnlockOutgoing, UnlockIncoming, DropTerminal,
       DropError, Drop, CheckExiting, Goto, TypeOK, window, EventsHaveNet, Disconnecting,
       ReadFindsNet
  <2> QED
    BY <2>2, <2>3
<1>3. CASE ServerAction
  BY <1>3 DEF ServerAction, Server, ServerReads, ServerCloses, window, EventsHaveNet, Disconnecting,
     ReadFindsNet
<1>4. CASE User /\ ~OnDisconnect
  BY <1>1, <1>4 DEF User, OnConnect, LoginOk, LoginCancel, OnClose, OnProcessCommand,
     SendDisconnect, QueueAndSend, StartNetwork, GuiGoto, Goto, network, TypeOK, EventsHaveNet,
     Disconnecting, ReadFindsNet
<1>5. CASE DismissBox
  BY <1>5 DEF DismissBox, network, EventsHaveNet, Disconnecting, ReadFindsNet
<1>6. CASE OnSocketConnected \/ OnSocketRead \/ OnSocketFail
  <2>1. /\ InLoop /\ net' = net /\ events # <<>> /\ ret' = ret /\ net
        /\ pc'["gui"] \in {"loop", "get"}
    BY <1>1, <1>6 DEF OnSocketConnected, OnSocketRead, OnSocketFail, Dispatch, Goto, TypeOK,
       EventsHaveNet, window, InLoop
  <2> QED
    BY <2>1 DEF EventsHaveNet, Disconnecting, ReadFindsNet
<1>7. CASE Get
  <2>1. events' = events
    BY <1>7 DEF Get
  <2> QED
    BY <1>7, <2>1, GetDecides DEF EventsHaveNet, Disconnecting, ReadFindsNet
<1>8. CASE HandlerStep
  BY <1>1, <1>8 DEF HandlerStep, AddOut, Disconnect, Destroy, Destructor, WaitExit, GuiGoto, Goto,
     Send, SendLock, SendNext, SendFails, SendReturns, TypeOK, window, EventsHaveNet,
     Disconnecting, ReadFindsNet
<1>9. CASE UNCHANGED vars
  BY <1>9 DEF vars, network, window, EventsHaveNet, Disconnecting, ReadFindsNet
<1> QED
  BY <1>2, <1>3, <1>4, <1>5, <1>6, <1>7, <1>8, <1>9 DEF Next, GuiAction, EventStep, Stop

\* As long as the user never chooses Disconnect, each Read event finds its Network object: the
\* finding about ReadFindsNet comes from OnDisconnect alone, and not from the packets or the
\* failures that end a session, however many there are.
THEOREM OnlyDisconnectLeavesReads == NobodyDisconnects => []ReadFindsNet
<1>1. Init => EventsHaveNet
  BY DEF Init, EventsHaveNet, Disconnecting, ReadFindsNet
<1>2. [Next /\ ~OnDisconnect]_vars => [Next]_vars
  OBVIOUS
<1>3. EventsHaveNet => ReadFindsNet
  BY DEF EventsHaveNet
<1> QED
  BY <1>1, <1>2, <1>3, EventsKeepNet, InvariantInductive, PTL DEF Spec, NobodyDisconnects

\* Until the second connection, the nodes of ProcList are those of the session.
ListIsFresh ==
    started <= 1 =>
        /\ ~freedFirst /\ pc["gui"] # "crashFreedList"
        /\ started = 0 => ~net /\ events = <<>> /\ procs = {} /\ pc["worker"] = "done"
        /\ pc["worker"] \in Starting \/ (events # <<>> /\ events[1] = "Connect") => procs = {}

\* No deleted node is visited in the first session.
FirstListKept == started <= 1 => pc["gui"] # "crashFreedList"

\* List::Clear deletes nodes only if a process was known when the connection is reported.
LEMMA ListKeptFresh ==
    ASSUME InductiveInvariant, ListIsFresh, [Next]_vars
    PROVE  ListIsFresh'
<1>1. /\ TypeOK
      /\ pc["worker"] \in Starting => events = <<>> /\ incoming = <<>>
      /\ pc["gui"] = "get" => net /\ (events # <<>> => events[1] # "Connect")
      /\ pc["worker"] # "done" => net
  BY DEF InductiveInvariant, EventsOrdered, ReadsOrdered
<1>2. CASE WorkerAction
  <2>1. UNCHANGED window
    BY <1>2 DEF WorkerAction
  <2>2. CASE Send("worker")
    BY <1>1, <2>1, <2>2 DEF Send, SendLock, SendNext, SendFails, SendReturns, Goto, TypeOK, window,
       processes, bounds, ListIsFresh, Starting
  <2>3. CASE PostConnect
    BY <1>1, <2>1, <2>3 DEF PostConnect, Post, Goto, TypeOK, window,
       processes, bounds, ListIsFresh, Starting
  <2>4. CASE PostFailConnect \/ PostFailRead \/ PostRead
    <3>1. \E e \in {"FailConnect", "FailRead", "Read"} : events' = Append(events, e)
      BY <2>4 DEF PostFailConnect, PostFailRead, PostRead, Post
    <3>2. events' # <<>> /\ (events'[1] = "Connect" => events # <<>> /\ events[1] = "Connect")
      BY <1>1, <3>1 DEF TypeOK
    <3> QED
      BY <1>1, <2>1, <2>4, <3>2 DEF PostFailConnect, PostFailRead, PostRead, Post, Goto, TypeOK,
         window, processes, bounds, ListIsFresh, Starting
  <2>5. CASE Connect \/ (\E p \in ServerPackets : ReceivePacket(p)) \/ QueueHello \/ ReceiveFails
             \/ AppendIncoming \/ LockOutgoing \/ LockIncoming \/ AnswerLast \/ UnlockOutgoing
             \/ UnlockIncoming \/ DropTerminal \/ DropError \/ CheckExiting
    <3>1. /\ events' = events /\ pc'["gui"] = pc["gui"] /\ pc["worker"] # "done"
          /\ pc'["worker"] \in Starting => pc["worker"] \in Starting
      BY <1>1, <2>5 DEF Connect, ReceivePacket, QueueHello, ReceiveFails, AppendIncoming,
         LockOutgoing, LockIncoming, AnswerLast, UnlockOutgoing, UnlockIncoming, DropTerminal,
         DropError, Drop, CheckExiting, Goto, TypeOK, Starting
    <3> QED
      BY <1>1, <2>1, <3>1 DEF window, processes, bounds, ListIsFresh
  <2> QED
    BY <1>2, <2>2, <2>3, <2>4, <2>5 DEF WorkerAction, Worker, WorkerStep
<1>3. CASE ServerAction
  BY <1>3 DEF ServerAction, Server, ServerReads, ServerCloses, window, processes, bounds, ListIsFresh
<1>4. CASE LoginOk
  BY <1>1, <1>4 DEF LoginOk, StartNetwork, processes, TypeOK, ListIsFresh, Starting
<1>5. CASE User /\ ~LoginOk
  <2>1. /\ UNCHANGED <<events, net, processes, started>> /\ pc'["worker"] = pc["worker"]
        /\ pc'["gui"] # "crashFreedList" \/ pc'["gui"] = pc["gui"]
    BY <1>1, <1>5 DEF User, OnConnect, LoginCancel, OnDisconnect, OnClose, OnProcessCommand,
       SendDisconnect, QueueAndSend, GuiGoto, Goto, network, bounds, TypeOK
  <2> QED
    BY <2>1 DEF processes, ListIsFresh
<1>6. CASE DismissBox
  BY <1>6 DEF DismissBox, network, processes, bounds, ListIsFresh
<1>7. CASE OnSocketConnected
  <2>1. started <= 1 => procs = {}
    BY <1>7 DEF OnSocketConnected, Dispatch, ListIsFresh
  <2>2. events' = <<>> \/ events'[1] # "Connect"
    <3>1. \A i \in 1..Len(events) : events[i] = "Connect" => i = 1
      BY DEF InductiveInvariant, EventsOrdered
    <3>2. /\ events # <<>> /\ events' = Tail(events)
          /\ events \in Seq({"Connect", "FailConnect", "Read", "FailRead"})
      BY <1>1, <1>7 DEF OnSocketConnected, Dispatch, TypeOK
    <3>3. PICK q : q = events
      OBVIOUS
    <3>4. PICK r : r = events'
      OBVIOUS
    <3>5. r # <<>> => r[1] = q[2] /\ 2 \in 1..Len(q)
      BY <3>2, <3>3, <3>4, Popped
    <3> QED
      BY <3>1, <3>3, <3>4, <3>5
  <2> QED
    BY <1>1, <1>7, <2>1, <2>2 DEF OnSocketConnected, Dispatch, bounds, InLoop, ListIsFresh
<1>8. CASE OnSocketRead \/ OnSocketFail
  <2>1. events # <<>> /\ events' = Tail(events) /\ events[1] # "Connect"
    BY <1>1, <1>8 DEF OnSocketRead, OnSocketFail, Dispatch, TypeOK
  <2>2. events' = <<>> \/ events'[1] # "Connect"
    <3>1. \A i \in 1..Len(events) : events[i] = "Connect" => i = 1
      BY DEF InductiveInvariant, EventsOrdered
    <3>2. events \in Seq({"Connect", "FailConnect", "Read", "FailRead"})
      BY <1>1 DEF TypeOK
    <3>3. PICK q : q = events
      OBVIOUS
    <3>4. PICK r : r = events'
      OBVIOUS
    <3>5. r # <<>> => r[1] = q[2] /\ 2 \in 1..Len(q)
      BY <2>1, <3>2, <3>3, <3>4, Popped
    <3> QED
      BY <3>1, <3>3, <3>4, <3>5
  <2>3. /\ UNCHANGED <<net, processes, started>> /\ pc'["worker"] = pc["worker"]
        /\ pc'["gui"] # "crashFreedList"
    BY <1>1, <1>8 DEF OnSocketRead, OnSocketFail, Dispatch, InLoop, Goto, TypeOK, window, bounds
  <2> QED
    BY <1>1, <2>1, <2>2, <2>3 DEF processes, ListIsFresh
<1>9. CASE Get
  <2>1. /\ pc["gui"] = "get" /\ incoming # <<>> /\ net /\ pc["worker"] \notin Starting
        /\ (events # <<>> => events[1] # "Connect")
    BY <1>1, <1>9, GetDecides DEF Get
  <2>2. /\ events' = events /\ started' = started /\ pc'["worker"] = pc["worker"]
        /\ freedFirst' \in {freedFirst, FALSE}
        /\ pc'["gui"] = "crashFreedList" => freedFirst
    <3> DEFINE p == Head(incoming)
    <3>1. \/ HandleTerminal(p) \/ HandleNotice(p) \/ HandleAuthorized(p)
          \/ HandleProcessInfo(p) \/ HandleFreedList(p) \/ HandleOther(p)
      BY <1>9, <2>1 DEF Get
    <3> QED
      BY <1>1, <1>9, <3>1 DEF Get, HandleTerminal, HandleNotice, HandleAuthorized,
         HandleProcessInfo, HandleFreedList, HandleOther, QueueAndSend, Goto, TypeOK, window,
         processes, bounds
  <2> QED
    BY <1>1, <2>1, <2>2 DEF ListIsFresh
<1>10. CASE HandlerStep
  <2>1. /\ UNCHANGED <<events, processes, started>> /\ pc'["worker"] = pc["worker"]
        /\ net' \in {net, FALSE}
        /\ pc'["gui"] # "crashFreedList"
    BY <1>1, <1>10 DEF HandlerStep, AddOut, Disconnect, Destroy, Destructor, WaitExit, GuiGoto, Goto,
       Send, SendLock, SendNext, SendFails, SendReturns, TypeOK, window, bounds
  <2> QED
    BY <2>1 DEF processes, ListIsFresh
<1>11. CASE UNCHANGED vars
  BY <1>11 DEF vars, network, window, processes, bounds, ListIsFresh
<1> QED
  BY <1>2, <1>3, <1>4, <1>5, <1>6, <1>7, <1>8, <1>9, <1>10, <1>11
  DEF Next, GuiAction, EventStep, Stop

\* ProtoSession looks processes up in a list whose first node was deleted (List::Clear in
\* OnSocketConnected) only after a second login.
THEOREM FirstSessionKeepsList == Spec => []FirstListKept
<1>1. Init => ListIsFresh
  BY DEF Init, ListIsFresh, Starting
<1>2. ListIsFresh => FirstListKept
  BY DEF ListIsFresh, FirstListKept
<1> QED
  BY <1>1, <1>2, ListKeptFresh, InvariantInductive, PTL DEF Spec
================================================================================
