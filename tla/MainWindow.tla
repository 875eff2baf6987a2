------------------------------ MODULE MainWindow ------------------------------
(***************************************************************************)
(* The connection life cycle of MainWindow, run by the GUI thread, composed*)
(* with the worker thread of module Network: the session commands of the   *)
(* menus, the handlers of the worker's events, the modal boxes whose nested*)
(* event loop goes on dispatching those events, and the window's end.      *)
(*                                                                         *)
(* A handler is one step up to the point where it can block: on a mutex, in*)
(* SSL_write, in Net->Wait () or in a modal box.                           *)
(***************************************************************************)
EXTENDS Network

CONSTANTS
    MaxSessions,   \* bound: Network objects created in a behaviour
    MaxCommands    \* bound: process commands the user issues in a behaviour

ASSUME BoundsAssumption == MaxSessions \in Nat /\ MaxCommands \in Nat

VARIABLES
    net,             \* Net # NULL
    modal,           \* the open modal boxes, the innermost last
    menuConnect,     \* MenuItemConnect is enabled
    menuDisconnect,  \* MenuItemDisconnect is enabled
    menuProcess,     \* the items of the Process menu are enabled
    procs,           \* indexes of the processes in ProcList
    freedFirst,      \* ProcList's first node was deleted and not replaced
    pages,           \* indexes of the processes with a row and a notebook page
    closing,         \* Destroy () was called: the window is hidden and will be deleted
    arg,             \* the packet the GUI thread is about to queue
    started,         \* how many Network objects were created
    issued           \* how many process commands were issued

menus == <<menuConnect, menuDisconnect, menuProcess>>
processes == <<procs, freedFirst, pages>>
bounds == <<started, issued>>
window == <<net, modal, menus, processes, closing, arg, bounds>>
vars == <<network, window>>

\* The program dies: a NULL Net is used by OnSocketRead, an empty list is popped by
\* Network::Get, a NULL Net is used by a command of the Process menu, or a deleted node is
\* visited by ProcList.Index.
Crashes == {"crashNullRead", "crashEmptyList", "crashNullCommand", "crashFreedList"}
GuiPC == {"loop", "get", "addOut", "sendLock", "sending", "wait", "waitNotice", "destroy",
          "waitExit", "exited"} \cup Crashes

Init ==
    /\ pc = [t \in {"worker", "gui"} |-> IF t = "worker" THEN "done" ELSE "loop"]
    /\ ret = [t \in {"worker", "gui"} |-> IF t = "worker" THEN "receive" ELSE "loop"]
    /\ outgoing = <<>> /\ incoming = <<>>
    /\ outMutex = "free" /\ inMutex = "free"
    /\ connected = FALSE /\ exiting = FALSE
    /\ pkt = SyncHello /\ sendNow = FALSE
    /\ events = <<>>
    /\ link = "down" /\ wire = <<>> /\ taken = 0 /\ received = 0
    /\ net = FALSE /\ modal = <<>>
    /\ menuConnect = TRUE /\ menuDisconnect = FALSE /\ menuProcess = FALSE
    /\ procs = {} /\ freedFirst = FALSE /\ pages = {}
    /\ closing = FALSE /\ arg = SyncHello
    /\ started = 0 /\ issued = 0

InLoop == pc["gui"] = "loop"
UserCanAct == InLoop /\ modal = <<>> /\ ~closing

\* The GUI thread's program counter moves; nothing else of the Network object does.
GuiGoto(l) ==
    /\ Goto("gui", l)
    /\ UNCHANGED <<ret, outgoing, incoming, mutexes, session, events, socket>>

\* The GUI thread calls AddOut (p) and then Send (), and goes on at l.
QueueAndSend(p, l) ==
    /\ Goto("gui", "addOut")
    /\ arg' = p
    /\ ret' = [ret EXCEPT !["gui"] = l]
--------------------------------------------------------------------------------
(* The user's commands.                                                     *)

OnConnect ==
    /\ UserCanAct /\ menuConnect
    /\ ~(net /\ connected)
    /\ modal' = <<"login">>
    /\ UNCHANGED <<network, net, menus, processes, closing, arg, bounds>>

\* The login dialog ends with OK.  Its event loop has dispatched what was pending when
\* it opened, long before the user can fill it in.
LoginOk ==
    /\ InLoop /\ modal = <<"login">> /\ events = <<>>
    /\ started < MaxSessions
    /\ StartNetwork("loop")
    /\ net' = TRUE
    /\ menuConnect' = FALSE
    /\ modal' = <<>>
    /\ started' = started + 1
    /\ UNCHANGED <<menuDisconnect, menuProcess, processes, closing, arg, issued>>

LoginCancel ==
    /\ InLoop /\ modal = <<"login">>
    /\ modal' = <<>>
    /\ UNCHANGED <<network, net, menus, processes, closing, arg, bounds>>

\* Faulty variant of SendDisconnect: Exiting is set and no packet is sent.
SendDisconnectSilent(l) ==
    /\ exiting' = TRUE
    /\ Goto("gui", l)
    /\ UNCHANGED <<ret, outgoing, incoming, mutexes, connected, pkt, sendNow, events,
                   socket>>
    /\ UNCHANGED arg

\* Network::Disconnect (TRUE), whose caller goes on at l.
SendDisconnect(l) ==
    /\ exiting' = TRUE
    /\ QueueAndSend(SessionDisconnect, l)
    /\ UNCHANGED <<outgoing, incoming, mutexes, connected, pkt, sendNow, events, socket>>

OnDisconnect ==
    /\ UserCanAct /\ menuDisconnect
    /\ net /\ connected
    /\ SendDisconnect("wait")
    /\ UNCHANGED <<net, modal, menus, processes, closing, bounds>>

OnClose ==
    /\ UserCanAct
    /\ IF net /\ connected
       THEN SendDisconnect("destroy")
       ELSE GuiGoto("destroy") /\ UNCHANGED arg
    /\ UNCHANGED <<net, modal, menus, processes, closing, bounds>>

\* OnProcessKill, OnProcessLaunch, OnProcessRestart and OnProcessMaintenance on the
\* selected console page.
OnProcessCommand(idx, com) ==
    /\ UserCanAct /\ menuProcess
    /\ idx \in pages
    /\ issued < MaxCommands
    /\ issued' = issued + 1
    /\ IF net
       THEN /\ QueueAndSend(NewPacket(idx, com), "loop")
            /\ UNCHANGED <<outgoing, incoming, mutexes, session, events, socket>>
       ELSE GuiGoto("crashNullCommand") /\ UNCHANGED arg
    /\ UNCHANGED <<net, modal, menus, processes, closing, started>>

User ==
    \/ OnConnect \/ LoginOk \/ LoginCancel
    \/ OnDisconnect \/ OnClose
    \/ \E idx \in pages : OnProcessCommand(idx, "ProcessKill")
--------------------------------------------------------------------------------
(* The handlers of the worker's events, dispatched by the main event loop   *)
(* or by the one of a modal box.                                            *)

Dispatch(event) ==
    /\ InLoop
    /\ events # <<>> /\ Head(events) = event
    /\ events' = Tail(events)
    /\ UNCHANGED <<ret, outgoing, incoming, mutexes, session, socket>>

\* List::Clear deletes the nodes and leaves First as it is.
OnSocketConnected ==
    /\ Dispatch("Connect")
    /\ menuDisconnect' = TRUE /\ menuProcess' = TRUE
    /\ procs' = {} /\ pages' = {}
    /\ freedFirst' = (freedFirst \/ procs # {})
    /\ UNCHANGED <<pc, net, modal, menuConnect, closing, arg, bounds>>

\* Net->Get () without a test of Net; the list is popped by the step Get.
OnSocketRead ==
    /\ Dispatch("Read")
    /\ Goto("gui", IF net THEN "get" ELSE "crashNullRead")
    /\ UNCHANGED window

\* The box opens first; the menus change when it is dismissed.
OnSocketFail ==
    /\ \/ Dispatch("FailConnect")
       \/ Dispatch("FailRead")
    /\ modal' = Append(modal, "failure")
    /\ UNCHANGED <<pc, net, menus, processes, closing, arg, bounds>>

DismissBox ==
    /\ InLoop
    /\ modal # <<>> /\ modal[Len(modal)] # "login"
    /\ modal' = SubSeq(modal, 1, Len(modal) - 1)
    /\ IF modal[Len(modal)] = "failure"
       THEN menuConnect' = TRUE /\ menuDisconnect' = FALSE
       ELSE UNCHANGED <<menuConnect, menuDisconnect>>
    /\ UNCHANGED <<network, net, menuProcess, processes, closing, arg, bounds>>

\* ProtoError and ProtoSession on a packet that ends the session: MainWindow::Disconnect.
HandleTerminal(p) ==
    /\ Terminal(p)
    /\ Goto("gui", "waitNotice")
    /\ UNCHANGED <<ret, window>>

\* ProtoError on any other error: a message box.
HandleNotice(p) ==
    /\ p.idx = ErrorIndex /\ p.com \in NoticeErrors
    /\ Goto("gui", "loop")
    /\ modal' = Append(modal, "notice")
    /\ UNCHANGED <<ret, net, menus, processes, closing, arg, bounds>>

HandleAuthorized(p) ==
    /\ IsSession(p) /\ p.com = "Authorized" /\ p.idx # MainIndex
    /\ Goto("gui", "loop")
    /\ procs' = procs \cup {p.idx}
    /\ freedFirst' = FALSE
    /\ UNCHANGED <<ret, net, modal, menus, pages, closing, arg, bounds>>

\* The packet makes ProtoSession look a process up in ProcList.
LooksUp(p) ==
    /\ IsSession(p)
    /\ p.com \in {"ConsoleOutput", "ConsoleLogs", "ProcessInfo", "MaintenanceOn",
                  "MaintenanceOff"}

\* The search starts at a deleted node: the program dies, or it happens to find nothing.
HandleFreedList(p) ==
    /\ LooksUp(p) /\ freedFirst
    /\ Goto("gui", "crashFreedList")
    /\ UNCHANGED <<ret, window>>

\* Faulty variant of NewRow: the process need not be known.
NewRowUnknown(p) == IsSession(p) /\ p.com = "ProcessInfo" /\ p.idx \notin pages

\* The last fragment of the information of a process without a row: the row and the page
\* are added and the process's logs are asked for.
NewRow(p) == IsSession(p) /\ p.com = "ProcessInfo" /\ p.idx \in procs \ pages

HandleProcessInfo(p) ==
    /\ NewRow(p)
    /\ pages' = pages \cup {p.idx}
    /\ QueueAndSend(NewPacket(p.idx, "ConsoleNeedLogs"), "loop")
    /\ UNCHANGED <<net, modal, menus, procs, freedFirst, closing, bounds>>

\* Every other packet only changes what is shown.
HandleOther(p) ==
    /\ ~Terminal(p) /\ ~NewRow(p)
    /\ ~(p.idx = ErrorIndex /\ p.com \in NoticeErrors)
    /\ ~(IsSession(p) /\ p.com = "Authorized" /\ p.idx # MainIndex)
    /\ Goto("gui", "loop")
    /\ UNCHANGED <<ret, window>>

\* Faulty variant of Get: one Read event empties Incoming.
GetAll ==
    /\ pc["gui"] = "get"
    /\ inMutex = "free"
    /\ incoming' = <<>>
    /\ Goto("gui", IF incoming = <<>> THEN "crashEmptyList" ELSE "loop")
    /\ UNCHANGED <<ret, outgoing, mutexes, session, events, socket>>
    /\ UNCHANGED window

\* Network::Get and the dispatch on the packet it returns.
Get ==
    /\ pc["gui"] = "get"
    /\ inMutex = "free"
    /\ IF incoming = <<>>
       THEN Goto("gui", "crashEmptyList") /\ UNCHANGED <<incoming, ret, window>>
       ELSE /\ incoming' = Tail(incoming)
            /\ LET p == Head(incoming)
               IN  \/ HandleTerminal(p) \/ HandleNotice(p) \/ HandleAuthorized(p)
                   \/ HandleProcessInfo(p) \/ HandleFreedList(p) \/ HandleOther(p)
    /\ UNCHANGED <<outgoing, mutexes, session, events, socket>>
--------------------------------------------------------------------------------
(* The steps of the GUI thread inside a handler.                            *)

AddOut ==
    /\ pc["gui"] = "addOut"
    /\ outMutex = "free"
    /\ outgoing' = Append(outgoing, arg)
    /\ Goto("gui", "sendLock")
    /\ UNCHANGED <<ret, incoming, mutexes, session, events, socket>>
    /\ UNCHANGED window

\* Faulty variant of Disconnect: the Process menu stays enabled.
DisconnectMenuLeft ==
    /\ pc["gui"] \in {"wait", "waitNotice"}
    /\ pc["worker"] = "done"
    /\ GuiGoto("loop")
    /\ net' = FALSE
    /\ menuConnect' = TRUE /\ menuDisconnect' = FALSE
    /\ UNCHANGED <<modal, menuProcess, processes, closing, arg, bounds>>

\* Net->Wait () returned: the rest of MainWindow::Disconnect, and the message box of the
\* handler that called it.
Disconnect ==
    /\ pc["gui"] \in {"wait", "waitNotice"}
    /\ pc["worker"] = "done"
    /\ GuiGoto("loop")
    /\ net' = FALSE
    /\ menuConnect' = TRUE /\ menuDisconnect' = FALSE /\ menuProcess' = FALSE
    /\ modal' = IF pc["gui"] = "waitNotice" THEN Append(modal, "notice") ELSE modal
    /\ UNCHANGED <<processes, closing, arg, bounds>>

Destroy ==
    /\ pc["gui"] = "destroy"
    /\ GuiGoto("loop")
    /\ closing' = TRUE
    /\ UNCHANGED <<net, modal, menus, processes, arg, bounds>>

\* Faulty variant of Destructor: it never waits for the worker.
DestructorNoWait ==
    /\ InLoop /\ closing /\ modal = <<>>
    /\ GuiGoto("exited")
    /\ UNCHANGED window

\* ~MainWindow, run by the event loop some time after Destroy: it waits for the worker
\* only while the worker runs.
Destructor ==
    /\ InLoop /\ closing /\ modal = <<>>
    /\ GuiGoto(IF net /\ pc["worker"] # "done" THEN "waitExit" ELSE "exited")
    /\ UNCHANGED window

WaitExit ==
    /\ pc["gui"] = "waitExit"
    /\ pc["worker"] = "done"
    /\ GuiGoto("exited")
    /\ UNCHANGED window

EventStep == OnSocketConnected \/ OnSocketRead \/ OnSocketFail \/ Get
HandlerStep ==
    \/ AddOut \/ Disconnect \/ Destroy \/ Destructor \/ WaitExit
    \/ Send("gui") /\ UNCHANGED window

Crashed == pc["gui"] \in Crashes
Ended == Crashed \/ pc["gui"] = "exited"

WorkerAction == ~Ended /\ Worker /\ UNCHANGED window
ServerAction == ~Ended /\ Server /\ UNCHANGED window
GuiAction == User \/ DismissBox \/ EventStep \/ HandlerStep
Stop == Ended /\ UNCHANGED vars

Next == WorkerAction \/ ServerAction \/ GuiAction \/ Stop

\* The threads are scheduled, the server reads what arrives and closes once it has read a
\* Session::Disconnect, and the user dismisses message boxes; nothing forces the server to
\* send or the user to act.
Fairness ==
    /\ WF_vars(~Ended /\ (Connect \/ WorkerStep \/ Send("worker")) /\ UNCHANGED window)
    /\ WF_vars(EventStep \/ HandlerStep \/ DismissBox)
    /\ WF_vars(~Ended /\ (ServerReads \/ ServerHangsUp) /\ UNCHANGED window)

Spec == Init /\ [][Next]_vars
FairSpec == Spec /\ Fairness
--------------------------------------------------------------------------------
(* Properties.                                                              *)

FlagsOK ==
    /\ connected \in BOOLEAN /\ exiting \in BOOLEAN /\ sendNow \in BOOLEAN
    /\ net \in BOOLEAN /\ closing \in BOOLEAN
    /\ menuConnect \in BOOLEAN /\ menuDisconnect \in BOOLEAN /\ menuProcess \in BOOLEAN
    /\ freedFirst \in BOOLEAN

\* Every variable has its type; each process with a row is in ProcList.
TypeOK ==
    /\ FlagsOK
    /\ pc \in [{"worker", "gui"} -> WorkerPC \cup GuiPC]
    /\ pc["worker"] \in WorkerPC /\ pc["gui"] \in GuiPC
    /\ ret \in [{"worker", "gui"} -> {"receive", "postRead", "loop", "wait", "destroy"}]
    /\ ret["worker"] \in {"receive", "postRead"} /\ ret["gui"] \in {"loop", "wait", "destroy"}
    /\ outgoing \in Seq(Packet) /\ incoming \in Seq(Packet)
    /\ outMutex \in {"free", "worker", "gui"} /\ inMutex \in {"free", "worker"}
    /\ pkt \in Packet /\ arg \in Packet
    /\ events \in Seq({"Connect", "FailConnect", "Read", "FailRead"})
    /\ link \in {"down", "open", "closed"}
    /\ wire \in Seq(Packet) /\ taken \in 0..Len(wire) /\ received \in 0..MaxReceived
    /\ modal \in Seq({"login", "notice", "failure"})
    /\ procs \subseteq 1..MaxIndex /\ pages \subseteq procs
    /\ started \in 0..MaxSessions /\ issued \in 0..MaxCommands

\* A thread that waits for the server or for the other thread to end owns no mutex: the
\* worker in RecvPacket, the GUI thread in Net->Wait () and in its event loop.
NoLockWhileWaiting ==
    /\ pc["worker"] \in {"receive", "done"} => outMutex # "worker" /\ inMutex # "worker"
    /\ pc["gui"] \in {"loop", "wait", "waitNotice", "waitExit"} => outMutex # "gui"

\* Network::Get always finds the packet whose Read event it serves: ExtractFirst, which
\* dereferences the first node before it tests it, never runs on an empty Incoming.
GetFindsPacket == pc["gui"] = "get" => incoming # <<>>

\* What the worker queues in answer is the answer to the packet Receive has just returned,
\* whatever the GUI thread popped from Incoming meanwhile; and there is always one, so that
\* Entry never goes back to Receive with both mutexes locked.
AnswersReceived ==
    [][pc["worker"] = "answer" /\ pc'["worker"] # "answer"
        => outgoing' = outgoing \o Answer(pkt) /\ pc'["worker"] = "unlockOut"]_vars

\* The menus are enabled only while there is a Network object: a command of the Process
\* menu never uses a NULL Net.
MenusNeedNet == menuProcess \/ menuDisconnect => net

\* A packet that ends the session is the last thing its worker reports: when the GUI
\* thread waits for the worker because of one, nothing of the session is left to handle.
TerminalIsLast == pc["gui"] = "waitNotice" => events = <<>> /\ incoming = <<>>

\* The window is gone only when no worker can post an event to it any more.
ExitAfterWorker == pc["gui"] = "exited" => pc["worker"] = "done"

\* A new Network object is created only when the worker of the previous one has ended: Net
\* never points at one of two running workers.
OneWorker == [][started' # started => pc["worker"] = "done"]_vars

\* The thread that t waits for, if it waits for one: the owner of the mutex it is about to
\* lock, or the worker, which is to end.
Owner(mutex) == {mutex} \ {"free"}
WaitsFor(t) ==
    IF pc[t] \in {"hello", "lockOut", "addOut", "sendLock"} THEN Owner(outMutex)
    ELSE IF pc[t] \in {"append", "lockIn", "get"} THEN Owner(inMutex)
    ELSE IF pc[t] \in {"wait", "waitNotice", "waitExit"} /\ pc["worker"] # "done" THEN {"worker"}
    ELSE {}

\* Neither thread waits for itself, and they never wait for each other, whether for a mutex
\* or, as the GUI thread does in Net->Wait (), for the end of the worker.
NoCircularWait ==
    /\ \A t \in {"worker", "gui"} : t \notin WaitsFor(t)
    /\ ~("gui" \in WaitsFor("worker") /\ "worker" \in WaitsFor("gui"))

\* What the worker queues on its own, which the GUI thread never does.
Automatic(p) == p.com \in {"Hello", "Version", "Username", "Password", "ProcessGetInfo"}

\* When the worker waits for a packet or reports one, what it queued before was written, in
\* whichever thread's Send, unless the connection is gone.
AnswersAreWritten ==
    link = "open" /\ pc["worker"] \in {"receive", "postRead"}
        => \A i \in 1..Len(outgoing) : ~Automatic(outgoing[i])

\* Nothing of the last session can reach a handler that takes it for one of a session.
SessionOver ==
    \/ ~net
    \/ pc["gui"] = "waitNotice"
    \/ pc["worker"] = "done" /\ ~exiting /\ events = <<>> /\ pc["gui"] # "get"

Opening ==
    \/ pc["worker"] \in {"connect", "postConnect", "postFailConnect"}
    \/ events # <<>> /\ Head(events) \in {"Connect", "FailConnect"}

Phase == IF SessionOver THEN "over" ELSE IF Opening THEN "opening" ELSE "online"
Leaving == exiting /\ ~SessionOver
FailureShown == \E i \in 1..Len(modal) : modal[i] = "failure"
Coming == IF SessionOver THEN <<>> ELSE incoming
Ends == {p \in ServerPackets : Terminal(p)}

Sessions == INSTANCE Session
                WITH Packets <- ServerPackets, Terminals <- Ends,
                     phase <- Phase, leaving <- Leaving, told <- FailureShown, coming <- Coming

\* The worker, its two queues and its events without data keep the promise of Session: each
\* packet is handled once, in order and in its own session, and the end of it comes last.
ImplementsSession == Sessions!Spec

\* Every handler of the GUI thread returns to the event loop.
HandlersReturn ==
    pc["gui"] \in {"get", "addOut", "sendLock", "sending", "wait", "waitNotice"}
        ~> InLoop \/ Ended \/ pc["gui"] = "destroy"

\* What the worker reports is handled, unless the window is being deleted.
EventsHandled == events # <<>> ~> events = <<>> \/ Ended \/ pc["gui"] = "waitExit"

\* What either thread queues is sent while the connection is there.
QueuedIsSent == outgoing # <<>> ~> outgoing = <<>> \/ link # "open" \/ Ended

\* A Read event finds a Network object to get its packet from.
ReadFindsNet == pc["gui"] # "crashNullRead"

\* A window closed when the worker has ended, or after the session was told to end, is gone in
\* the end, unless a stale Read has ended the program: the server hangs up, the worker ends, the
\* boxes are dismissed, and ~MainWindow waits for nothing else.
WindowGoes == closing /\ (exiting \/ pc["worker"] = "done") ~> Ended

\* Closing the window ends the program.  No run checks it, for it does not hold: a window
\* closed while the worker is connecting waits for the server to hang up.
CloseExits == closing ~> pc["gui"] = "exited"
--------------------------------------------------------------------------------
(* The inductive invariant behind the safety properties.                    *)

Failures == {"FailConnect", "FailRead"}
Starting == {"connect", "postConnect", "postFailConnect"}

\* The worker has appended a packet to Incoming and not yet posted its Read event.
Unreported ==
    \/ pc["worker"] \in {"lockOut", "lockIn", "answer", "unlockOut", "unlockIn", "postRead"}
    \/ pc["worker"] \in {"sendLock", "sending"} /\ ret["worker"] = "postRead"

\* Whether a Connect event or a failure is pending (given EventsOrdered), a Read event is
\* being handled, or a packet is still to be reported: 1 or 0.
PendingConnects == IF events # <<>> /\ events[1] = "Connect" THEN 1 ELSE 0
PendingFailures == IF events # <<>> /\ events[Len(events)] \in Failures THEN 1 ELSE 0
ReadsInHand == IF pc["gui"] = "get" THEN 1 ELSE 0
ReadsToPost == IF Unreported THEN 1 ELSE 0

\* Each thread owns a mutex exactly while its code is between the lock and the unlock.
MutexesOwned ==
    /\ outMutex = "worker" <=> pc["worker"] \in {"lockIn", "answer", "unlockOut", "sending"}
    /\ outMutex = "gui" <=> pc["gui"] = "sending"
    /\ inMutex = "worker" <=> pc["worker"] \in {"answer", "unlockOut", "unlockIn"}

\* A worker reports its connection first and its failure last, and runs only while Net
\* points to it.
EventsOrdered ==
    /\ \A i \in 1..Len(events) : events[i] = "Connect" => i = 1 /\ net
    /\ \A i \in 1..Len(events) :
            events[i] \in Failures => i = Len(events) /\ pc["worker"] = "done"
    /\ pc["worker"] # "done" => net
    /\ pc["worker"] \in Starting => events = <<>> /\ incoming = <<>>

\* Incoming holds one packet for each Read event that is pending, being handled or still
\* to be posted.
ReadsAccounted ==
    net => Len(incoming) + PendingConnects + PendingFailures
            = Len(events) + ReadsInHand + ReadsToPost

\* The packet still to be reported is the last one of Incoming; a packet is popped for a
\* session whose Connect event was handled.
ReadsOrdered ==
    /\ Unreported => incoming # <<>> /\ incoming[Len(incoming)] = pkt
    /\ pc["gui"] = "get" => net /\ (events # <<>> => events[1] # "Connect")

\* A packet that ends the session is the last one of Incoming, and its worker reports
\* nothing after it.
TerminalsLast ==
    /\ \A i \in 1..Len(incoming) : Terminal(incoming[i]) =>
            /\ i = Len(incoming)
            /\ Unreported \/ pc["worker"] \in {"dropTerminal", "done"}
            /\ events # <<>> => events[Len(events)] \notin Failures
    /\ pc["worker"] = "dropTerminal" => Terminal(pkt)
    /\ pc["gui"] = "waitNotice" =>
            pc["worker"] \in {"dropTerminal", "done"} /\ events = <<>> /\ incoming = <<>>

\* OnDisconnect is running.
Disconnecting ==
    \/ pc["gui"] = "wait"
    \/ pc["gui"] \in {"addOut", "sendLock", "sending"} /\ ret["gui"] = "wait"

\* A new login is possible only after the worker ended, and the menu items of a session
\* are enabled only between its Connect event and its end.
MenusOrdered ==
    /\ menuConnect => pc["worker"] = "done" /\ ~menuDisconnect
    /\ \A i \in 1..Len(modal) : modal[i] = "login" => i = 1 /\ menuConnect
    /\ \A i \in 1..Len(modal) : modal[i] = "failure" => pc["worker"] = "done" /\ events = <<>>
    /\ pc["worker"] \in Starting \/ (events # <<>> /\ events[1] = "Connect")
            => ~menuConnect /\ ~menuDisconnect
    /\ Disconnecting => menuDisconnect
    /\ MenusNeedNet
    /\ ExitAfterWorker

InductiveInvariant ==
    /\ TypeOK
    /\ MutexesOwned /\ EventsOrdered /\ ReadsAccounted /\ ReadsOrdered
    /\ TerminalsLast /\ MenusOrdered
--------------------------------------------------------------------------------
(* What AnswersAreWritten and ImplementsSession need besides it.            *)

\* An automatic packet is in Outgoing only between the step that queues it and the Send
\* that follows, unless the connection is gone.
NothingToAnswer == \A i \in 1..Len(outgoing) : ~Automatic(outgoing[i])
AnswersInHand ==
    /\ pc["worker"] \in {"connect", "postConnect", "postFailConnect"} => NothingToAnswer
    /\ link = "open" /\ pc["worker"] \notin {"unlockOut", "unlockIn", "sendLock", "sending"}
            => NothingToAnswer
    /\ link = "open" /\ pc["worker"] \in {"unlockOut", "unlockIn"} /\ ~sendNow
            => NothingToAnswer
    /\ pc["gui"] = "addOut" => ~Automatic(arg)

\* The user leaves only a session that is connected, and its worker reports no failure.
LeavingIsSilent ==
    /\ connected => pc["worker"] \notin
            {"connect", "postFailConnect", "checkExiting", "postFailRead", "done"}
    /\ pc["worker"] \in {"connect", "postFailConnect", "postFailRead"} => ~exiting
    /\ \A i \in 1..Len(events) : events[i] \in Failures => ~exiting /\ net
    /\ \A i \in 1..Len(events) : events[i] = "FailConnect" => i = 1 /\ incoming = <<>>
    /\ Disconnecting => exiting
    /\ menuConnect => ~net \/ ~exiting
    /\ \A i \in 1..Len(modal) : modal[i] = "failure" => i = Len(modal) /\ ~exiting
    /\ pc["gui"] \in {"get", "waitNotice"} => ~FailureShown

\* A session that ended and that the user did not leave has its failure or its terminal
\* packet as the last thing to handle.
EndIsLast ==
    /\ pc["worker"] = "append" => pkt \in ServerPackets
    /\ \A i \in 1..Len(incoming) : incoming[i] \in ServerPackets
    /\ pc["worker"] = "dropTerminal" =>
            IF incoming = <<>> THEN pc["gui"] = "waitNotice"
            ELSE Terminal(incoming[Len(incoming)])
    /\ net /\ pc["worker"] = "done" /\ ~exiting /\ (events # <<>> \/ pc["gui"] = "get") =>
            \/ events # <<>> /\ events[Len(events)] \in Failures
            \/ incoming # <<>> /\ Terminal(incoming[Len(incoming)])

SessionsInvariant == AnswersInHand /\ LeavingIsSilent /\ EndIsLast
================================================================================
