-------------------------------- MODULE Network --------------------------------
(***************************************************************************)
(* The Network class of the SAGS client: one worker thread (Network::Entry)*)
(* that reads packets from the server, queues the automatic answers and    *)
(* posts wxSocketEvents, and the queue operations the GUI thread calls on  *)
(* the same object.  The two packet lists are each guarded by a mutex.     *)
(*                                                                         *)
(* A critical section that only touches memory (AddOut, Get, the append in *)
(* Receive) is one step that waits for its mutex; the sections that hold a *)
(* mutex while the thread can block (Send, and the worker's answer, which  *)
(* takes both mutexes) are split at every lock, write and unlock.  SSL and *)
(* the server are external: a connection that opens or not, packets that   *)
(* arrive in any order, writes that block while the socket buffer is full, *)
(* a peer that may close at any time, while what it sent is still unread.  *)
(***************************************************************************)
EXTENDS Integers, Sequences

CONSTANTS
    ServerPackets,   \* the packets the server may send
    MaxReceived,     \* bound: packets received in a behaviour, over all sessions
    SocketCapacity   \* packets the socket buffers hold before SSL_write blocks

--------------------------------------------------------------------------------
(* Packets: the index names the service or the process, the command is one  *)
(* of the enumerated values of that index.                                  *)

MainIndex == 0
MaxIndex == 252
AuthIndex == 253
SyncIndex == 254
ErrorIndex == 255

TerminalErrors ==
    {"NotValidVersion", "LoginFailed", "AuthTimeout", "ServerQuit", "LoggedFromOtherPlace"}
NoticeErrors ==
    {"BadProcess", "CantWriteToProcess", "ProcessNotKilled", "ProcessNotLaunched",
     "ProcessNotRestarted", "MaintenanceDenied", "ChatUserDontExists", "Generic"}
StateChanges == {"ProcessStart", "MaintenanceOn", "MaintenanceOff"}
ProcessCommands == {"ProcessKill", "ProcessLaunch", "ProcessRestart", "MaintenanceOn",
                    "MaintenanceOff"}
Commands ==
    {"Hello", "Version", "Username", "RandomHash", "Password", "Successful", "ServerFull",
     "Disconnect", "Authorized", "ConsoleOutput", "ConsoleNeedLogs", "ConsoleLogs",
     "ProcessGetInfo", "ProcessInfo"}
        \cup TerminalErrors \cup NoticeErrors \cup StateChanges \cup ProcessCommands

Packet == [idx : 0..255, com : Commands]

NewPacket(idx, com) == [idx |-> idx, com |-> com]
IsSync(p) == p.idx = SyncIndex
IsAuth(p) == p.idx = AuthIndex
IsSession(p) == p.idx <= MaxIndex

ASSUME ConstantsAssumption ==
    /\ ServerPackets \subseteq Packet
    /\ MaxReceived \in Nat
    /\ SocketCapacity \in Nat \ {0}

\* What Network::Receive returns for a packet it appended: 0 goes on, 1 and 2 end the
\* session (2 without the SSL shutdown).
ReceiveValue(p) ==
    IF p.idx = ErrorIndex
    THEN IF p.com = "ServerFull" THEN 2 ELSE IF p.com \in TerminalErrors THEN 1 ELSE 0
    ELSE IF IsSession(p) /\ p.com = "Disconnect" THEN 1 ELSE 0

Terminal(p) == ReceiveValue(p) > 0

\* The packets Network::Entry queues on its own in answer to a received packet.
Answer(p) ==
    CASE IsSync(p) /\ p.com = "Hello"       -> <<NewPacket(SyncIndex, "Version")>>
      [] IsSync(p) /\ p.com = "Version"     -> <<NewPacket(AuthIndex, "Username")>>
      [] IsAuth(p) /\ p.com = "RandomHash"  -> <<NewPacket(AuthIndex, "Password")>>
      [] IsSession(p) /\ p.com \in StateChanges -> <<NewPacket(p.idx, "ProcessGetInfo")>>
      [] OTHER -> <<>>

SyncHello == NewPacket(SyncIndex, "Hello")
SessionDisconnect == NewPacket(MainIndex, "Disconnect")
--------------------------------------------------------------------------------
VARIABLES
    pc,         \* where each thread is
    ret,        \* where each thread goes on when Send returns
    outgoing,   \* Network::Outgoing
    incoming,   \* Network::Incoming
    outMutex,   \* the owner of OutgoingMutex, or "free"
    inMutex,    \* the owner of IncomingMutex, or "free"
    connected,  \* Network::Connected
    exiting,    \* Network::Exiting
    pkt,        \* the worker's last received packet
    sendNow,    \* Network::Entry's send_now
    events,     \* the pending events of EvtParent, in posting order
    link,       \* the socket: "down", "open", or "closed" by the peer
    wire,       \* the packets written to the server in this session
    taken,      \* how many of them the server has read
    received    \* how many packets were received in the behaviour

mutexes == <<outMutex, inMutex>>
session == <<connected, exiting, pkt, sendNow>>
socket == <<link, wire, taken, received>>
network == <<pc, ret, outgoing, incoming, mutexes, session, events, socket>>

WorkerPC ==
    {"connect", "postConnect", "postFailConnect", "hello", "receive", "append", "lockOut",
     "lockIn", "answer", "unlockOut", "unlockIn", "sendLock", "sending", "postRead",
     "dropTerminal", "dropError", "checkExiting", "postFailRead", "done"}

Goto(t, l) == pc' = [pc EXCEPT ![t] = l]

\* A new Network object whose thread starts to run; the GUI thread goes on at l.
StartNetwork(l) ==
    /\ pc' = [pc EXCEPT !["worker"] = "connect", !["gui"] = l]
    /\ outgoing' = <<>> /\ incoming' = <<>>
    /\ outMutex' = "free" /\ inMutex' = "free"
    /\ connected' = FALSE /\ exiting' = FALSE
    /\ sendNow' = FALSE
    /\ link' = "down" /\ wire' = <<>> /\ taken' = 0
    /\ UNCHANGED <<ret, pkt, events, received>>
--------------------------------------------------------------------------------
(* Network::Send, run by either thread.  OutgoingMutex is held from the     *)
(* first lock to the return, across every SSL_write.                        *)

SendLock(t) ==
    /\ pc[t] = "sendLock"
    /\ outMutex = "free"
    /\ outMutex' = t
    /\ Goto(t, "sending")
    /\ UNCHANGED <<ret, outgoing, incoming, inMutex, session, events, socket>>

\* SSL_write takes the packet: it waits for room in the socket while the peer is there.
SendNext(t) ==
    /\ pc[t] = "sending"
    /\ outgoing # <<>>
    /\ \/ link = "open" /\ Len(wire) - taken < SocketCapacity
       \/ link = "closed"
    /\ outgoing' = Tail(outgoing)
    /\ wire' = Append(wire, Head(outgoing))
    /\ UNCHANGED <<pc, ret, incoming, mutexes, session, events, link, taken, received>>

\* Faulty variant of SendFails: it returns without unlocking.
SendFailsLocked(t) ==
    /\ pc[t] = "sending"
    /\ outgoing # <<>>
    /\ link # "open"
    /\ outgoing' = Tail(outgoing)
    /\ Goto(t, ret[t])
    /\ UNCHANGED <<ret, incoming, mutexes, session, events, socket>>

\* SSL_write fails: the extracted packet is lost, the others stay queued, Send returns -1.
SendFails(t) ==
    /\ pc[t] = "sending"
    /\ outgoing # <<>>
    /\ link # "open"
    /\ outgoing' = Tail(outgoing)
    /\ outMutex' = "free"
    /\ Goto(t, ret[t])
    /\ UNCHANGED <<ret, incoming, inMutex, session, events, socket>>

SendReturns(t) ==
    /\ pc[t] = "sending"
    /\ outgoing = <<>>
    /\ outMutex' = "free"
    /\ Goto(t, ret[t])
    /\ UNCHANGED <<ret, outgoing, incoming, inMutex, session, events, socket>>

Send(t) == SendLock(t) \/ SendNext(t) \/ SendFails(t) \/ SendReturns(t)
--------------------------------------------------------------------------------
(* Network::Entry, the worker thread.                                       *)

Connect ==
    /\ pc["worker"] = "connect"
    /\ \/ Goto("worker", "postConnect") /\ connected' = TRUE /\ link' = "open"
       \/ Goto("worker", "postFailConnect") /\ connected' = FALSE /\ link' = link
    /\ UNCHANGED <<ret, outgoing, incoming, mutexes, exiting, pkt, sendNow, events, wire,
                   taken, received>>

\* wxEvtHandler::AddPendingEvent from the worker.
Post(from, event, to) ==
    /\ pc["worker"] = from
    /\ events' = Append(events, event)
    /\ Goto("worker", to)
    /\ UNCHANGED <<ret, outgoing, incoming, mutexes, session, socket>>

PostConnect == Post("postConnect", "Connect", "hello")
PostFailConnect == Post("postFailConnect", "FailConnect", "done")
PostFailRead == Post("postFailRead", "FailRead", "done")
PostRead == Post("postRead", "Read", IF Terminal(pkt) THEN "dropTerminal" ELSE "receive")

\* The authentication starts with a Sync::Hello, sent at once.
QueueHello ==
    /\ pc["worker"] = "hello"
    /\ outMutex = "free"
    /\ outgoing' = Append(outgoing, SyncHello)
    /\ ret' = [ret EXCEPT !["worker"] = "receive"]
    /\ Goto("worker", "sendLock")
    /\ UNCHANGED <<incoming, mutexes, session, events, socket>>

\* RecvPacket returns a packet of the server, in whatever order it sends them.  What the
\* server sent before it closed the connection may still be read.
ReceivePacket(p) ==
    /\ pc["worker"] = "receive"
    /\ link # "down"
    /\ received < MaxReceived
    /\ received' = received + 1
    /\ pkt' = p
    /\ Goto("worker", "append")
    /\ UNCHANGED <<ret, outgoing, incoming, mutexes, connected, exiting, sendNow, events,
                   link, wire, taken>>

\* RecvPacket returns NULL: the peer closed the connection, and nothing it sent is left.
ReceiveFails ==
    /\ pc["worker"] = "receive"
    /\ link # "open"
    /\ Goto("worker", "dropError")
    /\ UNCHANGED <<ret, outgoing, incoming, mutexes, session, events, socket>>

AppendIncoming ==
    /\ pc["worker"] = "append"
    /\ inMutex = "free"
    /\ incoming' = Append(incoming, pkt)
    /\ Goto("worker", "lockOut")
    /\ UNCHANGED <<ret, outgoing, mutexes, session, events, socket>>

LockOutgoing ==
    /\ pc["worker"] = "lockOut"
    /\ outMutex = "free"
    /\ outMutex' = "worker"
    /\ Goto("worker", "lockIn")
    /\ UNCHANGED <<ret, outgoing, incoming, inMutex, session, events, socket>>

LockIncoming ==
    /\ pc["worker"] = "lockIn"
    /\ inMutex = "free"
    /\ inMutex' = "worker"
    /\ Goto("worker", "answer")
    /\ UNCHANGED <<ret, outgoing, incoming, outMutex, session, events, socket>>

\* Faulty variant of AnswerLast: the worker answers the first packet still in Incoming.
AnswerFirst ==
    /\ pc["worker"] = "answer"
    /\ LET answer == Answer(incoming[1])
       IN  /\ outgoing' = outgoing \o answer
           /\ sendNow' = (answer # <<>>)
           /\ Goto("worker", "unlockOut")
    /\ UNCHANGED <<ret, incoming, mutexes, connected, exiting, pkt, events, socket>>

\* The worker answers the last packet of Incoming; were the list empty, it would go
\* back to Receive with both mutexes locked.
AnswerLast ==
    /\ pc["worker"] = "answer"
    /\ IF incoming = <<>>
       THEN Goto("worker", "receive") /\ UNCHANGED <<outgoing, sendNow>>
       ELSE LET answer == Answer(incoming[Len(incoming)])
            IN  /\ outgoing' = outgoing \o answer
                /\ sendNow' = (answer # <<>>)
                /\ Goto("worker", "unlockOut")
    /\ UNCHANGED <<ret, incoming, mutexes, connected, exiting, pkt, events, socket>>

UnlockOutgoing ==
    /\ pc["worker"] = "unlockOut"
    /\ outMutex' = "free"
    /\ Goto("worker", "unlockIn")
    /\ UNCHANGED <<ret, outgoing, incoming, inMutex, session, events, socket>>

\* Faulty variant of UnlockIncoming: IncomingMutex stays locked.
UnlockIncomingForgotten ==
    /\ pc["worker"] = "unlockIn"
    /\ Goto("worker", IF sendNow THEN "sendLock" ELSE "postRead")
    /\ ret' = [ret EXCEPT !["worker"] = "postRead"]
    /\ sendNow' = FALSE
    /\ UNCHANGED <<outgoing, incoming, mutexes, connected, exiting, pkt, events, socket>>

\* Faulty variant of UnlockIncoming: the answer is queued and never sent.
UnlockIncomingUnsent ==
    /\ pc["worker"] = "unlockIn"
    /\ inMutex' = "free"
    /\ Goto("worker", "postRead")
    /\ sendNow' = FALSE
    /\ UNCHANGED <<ret, outgoing, incoming, outMutex, connected, exiting, pkt, events,
                   socket>>

UnlockIncoming ==
    /\ pc["worker"] = "unlockIn"
    /\ inMutex' = "free"
    /\ Goto("worker", IF sendNow THEN "sendLock" ELSE "postRead")
    /\ ret' = [ret EXCEPT !["worker"] = "postRead"]
    /\ sendNow' = FALSE
    /\ UNCHANGED <<outgoing, incoming, outMutex, connected, exiting, pkt, events, socket>>

\* Network::Drop: the socket is closed on our side and Connected becomes FALSE.
Drop(from, to) ==
    /\ pc["worker"] = from
    /\ link' = "down"
    /\ connected' = FALSE
    /\ Goto("worker", to)
    /\ UNCHANGED <<ret, outgoing, incoming, mutexes, exiting, pkt, sendNow, events, wire,
                   taken, received>>

DropTerminal == Drop("dropTerminal", "done")
DropError == Drop("dropError", "checkExiting")

\* Faulty variant of CheckExiting: the failure is reported to a user who is leaving.
CheckExitingNot ==
    /\ pc["worker"] = "checkExiting"
    /\ Goto("worker", "postFailRead")
    /\ UNCHANGED <<ret, outgoing, incoming, mutexes, session, events, socket>>

\* A session the user is leaving ends silently; otherwise the failure is reported.
CheckExiting ==
    /\ pc["worker"] = "checkExiting"
    /\ Goto("worker", IF exiting THEN "done" ELSE "postFailRead")
    /\ UNCHANGED <<ret, outgoing, incoming, mutexes, session, events, socket>>

WorkerStep ==
    \/ PostConnect \/ PostFailConnect \/ PostFailRead \/ PostRead
    \/ QueueHello \/ ReceiveFails \/ AppendIncoming
    \/ LockOutgoing \/ LockIncoming \/ AnswerLast \/ UnlockOutgoing \/ UnlockIncoming
    \/ DropTerminal \/ DropError \/ CheckExiting

Worker ==
    \/ Connect
    \/ \E p \in ServerPackets : ReceivePacket(p)
    \/ WorkerStep
    \/ Send("worker")
--------------------------------------------------------------------------------
(* The server's end of the connection.                                      *)

ServerReads ==
    /\ link = "open"
    /\ taken < Len(wire)
    /\ taken' = taken + 1
    /\ UNCHANGED <<pc, ret, outgoing, incoming, mutexes, session, events, link, wire,
                   received>>

ServerCloses ==
    /\ link = "open"
    /\ link' = "closed"
    /\ UNCHANGED <<pc, ret, outgoing, incoming, mutexes, session, events, wire, taken,
                   received>>

\* The server has read a Session::Disconnect, and closes.
ServerHangsUp ==
    /\ \E i \in 1..taken : wire[i] = SessionDisconnect
    /\ ServerCloses

Server == ServerReads \/ ServerCloses
================================================================================
