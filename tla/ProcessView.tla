------------------------------ MODULE ProcessView ------------------------------
(***************************************************************************)
(* The processes the user administers, as MainWindow shows them: the list  *)
(* with a row for each process, the notebook with a console page for each  *)
(* row before the chat and logs pages, the information panel and the check *)
(* of the maintenance item.  Only one console is visible at a time.        *)
(*                                                                         *)
(* This is the GTK build.  A session is reduced to what reaches these      *)
(* widgets; the worker and the menus are in module MainWindow.  A packet   *)
(* about a process that is not in ProcList changes nothing here.           *)
(***************************************************************************)
EXTENDS Naturals, Sequences

CONSTANTS
    Processes,     \* the indexes of the processes the server may authorize
    MaxSessions,   \* bound: connections in a behaviour
    MaxInfos,      \* bound: informations the server sends in a behaviour
    MaxParts       \* bound: packets of an information

ASSUME ProcessViewAssumption ==
    /\ Processes \subseteq 1..252
    /\ MaxSessions \in Nat /\ MaxInfos \in Nat /\ MaxParts \in Nat \ {0}

None == 0

\* The two pages that are no console, beside the indexes of processes.
Chat == 253
Logs == 254
OtherTabs == {Chat, Logs}

\* A packet of a Session::ProcessInfo, numbered downwards to 1.
Part(i, seq) == [idx |-> i, seq |-> seq]

\* The packets of a whole information of process i, cut in k.
Information(i, k) == [j \in 1..k |-> Part(i, k + 1 - j)]

VARIABLES
    online,        \* the session's packets may arrive
    menuProcess,   \* the items of the Process menu are enabled
    procs,         \* the processes in ProcList
    rows,          \* the process of each row of ProcessList
    pages,         \* the process of each console page of MainNotebook
    shown,         \* the processes whose console IsShown
    tab,           \* the selected page: a console page's process, or one of OtherTabs
    info,          \* each process's InfoString, as packets
    maintenance,   \* each process's MaintenanceMode
    tempdata,      \* ProtoSession's static buffer, as packets
    panel,         \* the process whose information the panel shows, or None
    check,         \* MenuItemProcessMaintenance is checked
    processShown,  \* the process ProcessShown points to, or None
    deleted,       \* that Process was deleted
    crashed,       \* a deleted Process was used
    coming,        \* the rest of the information the server is sending
    cut,           \* tempdata begins with the part of an information a session ended in
    spoilt,        \* the processes whose information was last put behind such a part
    strayed,       \* the user, or a process without a row, changed the check last
    sessions,      \* how many connections were made
    infos          \* how many informations were sent

widgets == <<rows, pages, shown, tab, panel, check>>
objects == <<procs, info, maintenance, tempdata>>
history == <<coming, cut, spoilt, strayed, sessions, infos>>
vars == <<online, menuProcess, widgets, objects, processShown, deleted, crashed, history>>

Init ==
    /\ online = FALSE /\ menuProcess = FALSE
    /\ procs = {} /\ rows = <<>> /\ pages = <<>> /\ shown = {} /\ tab \in OtherTabs
    /\ info = [i \in Processes |-> <<>>] /\ maintenance = [i \in Processes |-> FALSE]
    /\ tempdata = <<>> /\ panel = None /\ check = FALSE
    /\ processShown = None /\ deleted = FALSE /\ crashed = FALSE
    /\ coming = <<>> /\ cut = FALSE /\ spoilt = {} /\ strayed = FALSE
    /\ sessions = 0 /\ infos = 0

Consoles == {pages[k] : k \in 1..Len(pages)}
Listed == {rows[k] : k \in 1..Len(rows)}
--------------------------------------------------------------------------------
(* What the session brings.                                                 *)

\* Faulty variant of OnSocketConnected: the rows stay.
OnSocketConnectedRowsLeft ==
    /\ ~crashed /\ ~online
    /\ sessions < MaxSessions
    /\ online' = TRUE /\ menuProcess' = TRUE
    /\ procs' = {} /\ pages' = <<>> /\ shown' = {}
    /\ tab' \in IF tab \in OtherTabs THEN {tab} ELSE OtherTabs
    /\ panel' = None
    /\ deleted' = (processShown # None)
    /\ sessions' = sessions + 1
    /\ UNCHANGED <<rows, info, maintenance, tempdata, check, processShown, crashed, coming, cut,
                   spoilt, strayed, infos>>

\* The console pages, the processes, the rows and the information are deleted; the static
\* buffer and ProcessShown are not touched.
OnSocketConnected ==
    /\ ~crashed /\ ~online
    /\ sessions < MaxSessions
    /\ online' = TRUE /\ menuProcess' = TRUE
    /\ procs' = {} /\ rows' = <<>> /\ pages' = <<>> /\ shown' = {}
    /\ tab' \in IF tab \in OtherTabs THEN {tab} ELSE OtherTabs
    /\ panel' = None
    /\ deleted' = (processShown # None)
    /\ sessions' = sessions + 1
    /\ UNCHANGED <<info, maintenance, tempdata, check, processShown, crashed, coming, cut, spoilt,
                   strayed, infos>>

\* The session ends: with MainWindow::Disconnect, which disables the Process menu, or with
\* a FailRead, which does not.
SessionEnds ==
    /\ ~crashed /\ online
    /\ online' = FALSE
    /\ menuProcess' \in BOOLEAN
    /\ cut' = (tempdata # <<>>)
    /\ coming' = <<>>
    /\ UNCHANGED <<widgets, objects, processShown, deleted, crashed, spoilt, strayed, sessions,
                   infos>>

Quiet == ~crashed /\ online /\ coming = <<>>

\* Session::Authorized: a new process; its console is a shown window that is no page yet.
Authorized(i) ==
    /\ Quiet /\ i \notin procs
    /\ procs' = procs \cup {i}
    /\ info' = [info EXCEPT ![i] = <<>>]
    /\ maintenance' = [maintenance EXCEPT ![i] = FALSE]
    /\ shown' = shown \cup {i}
    /\ UNCHANGED <<online, menuProcess, rows, pages, tab, panel, check, tempdata, processShown,
                   deleted, crashed, history>>

\* The server sends the information of a process, all its packets in a row.
ServerSendsInfo(i, k) ==
    /\ Quiet /\ i \in procs
    /\ infos < MaxInfos
    /\ infos' = infos + 1
    /\ coming' = Information(i, k)
    /\ UNCHANGED <<online, menuProcess, widgets, objects, processShown, deleted, crashed, cut,
                   spoilt, strayed, sessions>>

\* Faulty variant of NewPage: the page goes before the others.
NewPageFirst(i) == pages' = <<i>> \o pages

\* InsertPage at GetPageCount () - 2, after the last console page.
NewPage(i) == pages' = Append(pages, i)

\* Faulty variant of EmptyTemp: the buffer is kept.
EmptyTempNot(whole) == tempdata' = whole

EmptyTemp(whole) == tempdata' = <<>>

\* Session::ProcessInfo: with the packet numbered 1 the information is complete.  A listed
\* process's goes to the panel, and any other process gets its row and its hidden page.
ProcessInfo ==
    /\ ~crashed /\ online /\ coming # <<>>
    /\ coming' = Tail(coming)
    /\ LET p == Head(coming)
           whole == Append(tempdata, p)
       IN  IF p.seq # 1
           THEN tempdata' = whole /\ UNCHANGED <<info, cut, spoilt, widgets>>
           ELSE /\ info' = [info EXCEPT ![p.idx] = whole]
                /\ EmptyTemp(whole)
                /\ cut' = FALSE
                /\ spoilt' = IF cut THEN spoilt \cup {p.idx} ELSE spoilt \ {p.idx}
                /\ UNCHANGED <<tab, check>>
                /\ IF p.idx \in Listed
                   THEN panel' = p.idx /\ UNCHANGED <<rows, pages, shown>>
                   ELSE /\ rows' = Append(rows, p.idx)
                        /\ NewPage(p.idx)
                        /\ shown' = shown \ {p.idx}
                        /\ UNCHANGED panel
    /\ UNCHANGED <<online, menuProcess, procs, maintenance, processShown, deleted, crashed,
                   strayed, sessions, infos>>

\* Session::MaintenanceOn and Session::MaintenanceOff.
Maintenance(i, on) ==
    /\ Quiet /\ i \in procs
    /\ maintenance' = [maintenance EXCEPT ![i] = on]
    /\ IF i \in shown
       THEN check' = on /\ strayed' = (i \notin Listed)
       ELSE UNCHANGED <<check, strayed>>
    /\ UNCHANGED <<online, menuProcess, rows, pages, shown, tab, panel, procs, info, tempdata,
                   processShown, deleted, crashed, coming, cut, spoilt, sessions, infos>>
--------------------------------------------------------------------------------
(* What the user does.                                                      *)

\* Faulty variant of ShowConsole: the console shown before is not hidden.
ShowConsoleToo(i) == shown' = shown \cup {i}

\* Every console page is hidden, and then the one of the process is shown.
ShowConsole(i) == shown' = (shown \ Consoles) \cup {i}

\* Faulty variant of ShowMode: the check is left as the process before had it.
ShowModeNot(i) == UNCHANGED check

\* The maintenance item takes the mode of the process.
ShowMode(i) == check' = maintenance[i]

\* A row is selected: its number is taken for the number of the page.
OnProcessSelected(k) ==
    /\ ~crashed
    /\ tab' = pages[k]
    /\ LET i == rows[k]
       IN  /\ processShown' = i /\ deleted' = FALSE
           /\ IF i \in shown
              THEN UNCHANGED <<shown, panel, check, strayed>>
              ELSE ShowConsole(i) /\ panel' = i /\ ShowMode(i) /\ strayed' = FALSE
    /\ UNCHANGED <<online, menuProcess, rows, pages, objects, crashed, coming, cut, spoilt,
                   sessions, infos>>

\* The user clicks on the tab of a visible page.
ClickTab(t) ==
    /\ ~crashed
    /\ t \in OtherTabs \cup (shown \cap Consoles)
    /\ tab' = t
    /\ UNCHANGED <<online, menuProcess, rows, pages, shown, panel, check, objects, processShown,
                   deleted, crashed, history>>

\* The click has changed the check; on a page that is no console it is changed back.
OnProcessMaintenance ==
    /\ ~crashed /\ menuProcess
    /\ tab \notin OtherTabs
    /\ check' = ~check
    /\ strayed' = TRUE
    /\ UNCHANGED <<online, menuProcess, rows, pages, shown, tab, panel, objects, processShown,
                   deleted, crashed, coming, cut, spoilt, sessions, infos>>

\* Process / Save to file uses ProcessShown.
OnConsoleSave ==
    /\ ~crashed /\ menuProcess
    /\ processShown # None
    /\ crashed' = deleted
    /\ UNCHANGED <<online, menuProcess, widgets, objects, processShown, deleted, history>>

Next ==
    \/ OnSocketConnected \/ SessionEnds \/ ProcessInfo
    \/ \E i \in Processes :
            \/ Authorized(i)
            \/ \E k \in 1..MaxParts : ServerSendsInfo(i, k)
            \/ \E on \in BOOLEAN : Maintenance(i, on)
    \/ \E k \in 1..Len(rows) : OnProcessSelected(k)
    \/ \E t \in OtherTabs \cup Processes : ClickTab(t)
    \/ OnProcessMaintenance \/ OnConsoleSave
    \/ crashed /\ UNCHANGED vars

Spec == Init /\ [][Next]_vars
--------------------------------------------------------------------------------
(* Properties.                                                              *)

\* The page of a process has the number of its row, in each of the sessions, no process has
\* two of them, and each is one of this session: OnProcessSelected selects the page of the
\* process that was clicked.
RowsArePages ==
    /\ rows = pages
    /\ \A j, k \in 1..Len(rows) : j # k => rows[j] # rows[k]
    /\ \A k \in 1..Len(rows) : rows[k] \in procs

\* At most one console page is visible, and it is the one of ProcessShown.
OneConsoleShown == \A i \in Consoles \cap shown : i = processShown /\ ~deleted

\* A command of the Process menu, which goes to the process of the selected page, goes to
\* the process the user selected last.
CommandsToShown == tab \notin OtherTabs => tab = processShown /\ tab \in shown \cap Consoles

\* Each information shown is the whole information of its process and of no other.  What a
\* session cut in the middle of an information leaves in the buffer spoils one information, the
\* first that is completed after it, and no more, over however many sessions.
InfoIsWhole ==
    \A i \in procs \ spoilt : info[i] # <<>> => info[i] = Information(i, Len(info[i]))

\* The check of the maintenance item tells the mode of the process selected last.  The user's
\* own click, or a message for a process that has no row yet, sets it astray until a hidden
\* console is selected or a message comes for the visible one: then it tells the mode again.
CheckTellsMode ==
    ~strayed /\ processShown # None /\ ~deleted => check = maintenance[processShown]

\* Saving the console saves an existing one.  No run checks it, for it does not hold: after
\* a reconnection processShown is a process that was deleted.
SavedConsoleExists == ~crashed
================================================================================
