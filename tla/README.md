# SAGS client: a TLA+ model

The SAGS client is a wxWidgets program with which an administrator of game servers talks
to a SAGS server over TLS: it starts and stops game processes, reads their consoles and
chats with the other administrators.  Its texts are translated by a library in its own
tree, `intl/`.  This directory holds TLA+ models of the client,
configurations that check them with TLC, and proofs about them checked by TLAPS.  Paths
below are relative to the repository; `Window.cpp:544` means `src/Window.cpp`, line 544, and
`dcigettext.c:489` means `intl/dcigettext.c`, line 489.

Everything is modelled from the code.  The models keep the control of the program (each
state change, guard, early return and the order they come in) and abstract the data: a
packet is its index and its command, a text is an identity and a number of packets, a
process is its index.

## 1. The system

### 1.1 Threads

There are two.  The **GUI thread** runs `MainWindow` and everything with a widget.  Each
session has one **worker thread**, a joinable `wxThread` whose object is `Network`
(`Network::Entry`, Network.cpp:317-458).  They share

- two lists of packets, `Outgoing` and `Incoming`, each guarded by a mutex;
- the flags `Connected` and `Exiting`, guarded by nothing;
- the queue of pending events of the window, to which the worker posts
  `Connect`, `FailConnect`, `Read` and `FailRead`;
- the SSL object: the worker reads from it and both threads write to it.

An event carries no data.  Every `Read` event makes the GUI thread pop one packet from
`Incoming`, so the number of pending events and the number of packets have to keep step by
themselves.  Message boxes and the login dialog run a nested event loop: handlers of the
worker's events run while another handler is waiting for its box.

### 1.2 Inventory

| Component | State | Operations | What makes it hard | What makes it correct | Module |
|---|---|---|---|---|---|
| Network (Network.cpp, Protocol.cpp) | `Outgoing`, `Incoming`, two mutexes, `Connected`, `Exiting`, the socket | `Entry`, `Connect`, `Send`, `Receive`, `AddOut`, `Get`, `Disconnect`, `Drop` | `Send` holds a mutex across a blocking write; the worker holds both mutexes to answer; the list it answers from is popped meanwhile by the other thread; early returns | no deadlock and no circular wait, mutexes always released, each packet reported once and found, the right packet answered, queued packets sent | `Network` |
| Session life cycle (Window.cpp) | `Net`, the menu items, open boxes, pending events | connect, disconnect, close, the four events, the packets that end a session, the destructor | the GUI thread waits for the worker inside a handler; events of an old session are still pending; a box changes the menus only when dismissed | one worker at a time; commands only with a `Net`; the worker has ended when the window goes; of each session the handlers get its connection or failure, every packet once and in order, its end last, and nothing of it in the next | `MainWindow`, `Session` |
| Processes (Window.cpp, Process.cpp) | `ProcList`, rows, console pages, what is shown, `ProcessShown`, the static buffer of `ProtoSession` | authorize, information, maintenance, select, save, reconnect | the number of a row is used as the number of a page; a static buffer and a pointer survive a session | what is selected is what is shown and what commands go to; information is whole | `ProcessView` |
| Packets (Packet.cpp, Network.cpp, and the receiving handlers) | sequence and length fields of eight bits, a buffer | `NewPacket`, `AddBuffer`, reassembly | lengths at multiples of 256, more than 255 packets | what is cut is put together again | `Fragments` |
| Login history (Window.cpp:356-386) | configuration keys `/Login/Server1..5` | an accepted login | two loops that move entries in place | the last five servers, each once, latest first | `ServerHistory`, `RecentServers` |
| Chat channel (Channel.cpp) | four static buffers, the rows of the user list, the topic, `admin_mode`, its own `Net` | `ProcessMessage`, `OnSend`, `OnTopic`, `SetNetwork`, `SetAdminMode` | buffers survive sessions; a message of one's own leaves the handler early; what is told to the channel at the end of a session depends on how it ended | what was said is shown whole and once; the list shows who is there | `Channel` |
| Console (Console.cpp) | the last input, whether a line end is held back, the text shown, the combo box | `Add`, `OnSend`, `AddInputCommand` | the echo of an input comes back whole or in pieces, among other output that may hold the same text; the line end of a text waits for the next one | the transcript of the session is shown, at worst an input less | `Console` |
| Linked list (List.hpp) | nodes, `First`, `Last`, a count | `Add`, `Remove`, `Find`, `ExtractFirst`, `ExtractLast`, `Index`, `Clear` | pointers left behind, each place a node can be taken from mends other links | it is a sequence; calls within its contract reach no deleted node | `LinkedList`, `ValueList`; a sequence in `Network`; the pointer left by `Clear` is `freedFirst` in `MainWindow` |
| Login dialog (Login.cpp) | the text of the fields | `GetServer`, `GetPort` | colons of an IPv6 address, brackets, a port that may be missing | address and port are those meant | `LoginDialog`, in `ServerHistory` |
| Lookup of translations (dcigettext.c, bindtextdom.c, textdomain.c, finddomain.c) | the current domain, the bindings, a counter of changes, three caches | `gettext`, `dgettext`, `textdomain`, `bindtextdomain`, `bind_textdomain_codeset` | what is cached under one setting is asked for under another | an answer is what the settings of now ask for | `Gettext` |
| Names and aliases of locales (explodename.c, l10nflist.c, localealias.c) | the aliases read, the files not read yet | splitting a name, the names below it, reading aliases | the order of the names, forms that are never tried themselves | the most specific catalog serves | `LocaleNames`, `LocaleAliases`, in `Gettext` |
| Message catalogs (loadmsgcat.c, dcigettext.c) | the tables of a catalog, partly in the file and partly in memory | loading, the two searches, the choice of a plural form | byte order, collisions, strings that depend on the system, counted in one walk and written in another | what is in the file is found, within the tables | `Catalog`, `SystemDependent` |
| Plural expressions (plural.c, eval-plural.h) | the stacks of the parser, the nodes allocated | scanning, parsing, freeing, evaluating | conflicts resolved in packed tables, memory that runs out, recovery from errors | accepts what the grammar says, with the tree of C, and returns | `PluralExpression`, `PluralParser` |
| The rest of `intl/` (vasnprintf.c, printf-parse.c, localcharset.c, localename.c, relocatable.c, log.c, os2compat.c, wrappers) | | | | | not modelled |
| Preferences, icons, logs, about, start (Config.cpp, Icons.cpp, Logs.cpp, About.cpp, Main.cpp), MD5 | fonts, files, widgets | | | | not modelled |

### 1.3 Interactions

```
 user -> menus, dialogs            worker thread
   |                                  |  SSL_read / SSL_write  <-> server
   v            AddOut, Send          v
 MainWindow  ------------------->  Network
   |   ^     <-- events (no data) --  |
   |   |     -- Get ------------------>
   |   +-- ProtoSync/Auth/Error/Session (one packet)
   +--> ProcessView part (list, notebook, panel)
   +--> Channel (ProcessMessage, SetNetwork, SetAdminMode)
          Channel -> Net->AddBufferOut, Net->Send
   +--> Console (Add; OnSend -> Net->AddBufferOut, Net->Send)

 _("...") -> gettext -> dcigettext -> find_domain (names, aliases) -> load_domain (catalog)
                                  \-> find_msg -> converter;  plural_lookup -> plural_eval
```

`MainWindow` extends `Network`, so one specification has both threads.  `ProcessView` and
`Channel` start from what a session is to them: their packets arrive in order, and the
session may end at any packet in one of two ways.  `Console` starts from the same.  That reduction is the abstract
specification `Session` (each packet is handled once, in order and in its own session, and the terminal one last), and
`Network` and `MainWindow` are checked, and proved, to implement it.

## 2. Modules

### Network

The variables are the fields of the class, plus the program counters `pc` and the return
points `ret` of the two threads, the pending `events`, and the socket (`link`, the packets
`wire` written in the session, how many the server has `taken`).

A critical section that only touches memory is one step that waits for its mutex: `AddOut`,
`Get`, the append in `Receive`.  A section during which the thread can block is split at
each lock, write and unlock:

- `Send` (Network.cpp:174-201): `SendLock`, then `SendNext` for each packet, and
  `SendReturns` or, when `SSL_write` fails, `SendFails`, which loses the packet and
  releases the mutex too.  Both threads run it.
- the answer (Network.cpp:366-437): `LockOutgoing`, `LockIncoming`, `AnswerLast`,
  `UnlockOutgoing`, `UnlockIncoming`.

`Network::Connect` (the TCP connection, the TLS handshake and the checks on it) is one step with
two outcomes.  `ReceiveValue` is the classification of packets at the end of
`Network::Receive`, `Answer` the switch of `Network::Entry`.

External: the server sends any of `ServerPackets` in any order, reads what arrives, and
may close at any time, and what it sent before may still be read after it closed; a write blocks
while `SocketCapacity` packets are unread.  A write to a connection the peer closed may still succeed,
as with a socket, or fail.

### MainWindow

A handler is one step up to the point where it can block: a mutex, `SSL_write`,
`Net->Wait ()` or a modal box.  `modal` is the stack of open boxes; `InLoop` says that the
GUI thread is in an event loop, of the window or of a box, and it is there that events are
dispatched.  `net` is `Net != NULL`.

| Action | Code |
|---|---|
| `OnConnect`, `LoginOk`, `LoginCancel` | `OnConnect` up to the dialog, with its two ends |
| `OnDisconnect`, `Disconnect` | `OnDisconnect`, `Network::Disconnect (TRUE)`, and the rest of `MainWindow::Disconnect` after `Net->Wait ()` |
| `OnClose`, `Destroy`, `Destructor`, `WaitExit` | `OnClose`, and `~MainWindow`, run by the event loop later |
| `OnProcessCommand` | the four handlers of the Process menu that send a packet |
| `OnSocketConnected`, `OnSocketRead` with `Get`, `OnSocketFail` | the handlers of the four events |
| `HandleTerminal`, `HandleNotice`, `HandleAuthorized`, `HandleProcessInfo`, `HandleFreedList`, `HandleOther` | `ProtoSync`, `ProtoAuth`, `ProtoError`, `ProtoSession`, by what they do to this state |
| `DismissBox` | the rest of the handler after its box; for a failure, the menus |

The places where the program dies are states (`Crashes`), and a state property says that
the program is not in one.

Assumptions about wxWidgets, used and not modelled further: the login dialog dispatches
what was pending when it opened long before the user can fill it in (`LoginOk` requires
`events = <<>>`); outside of it, input of the user may be handled before pending events, as
the GTK port does; `Destroy ()` deletes the window from the event loop; `wxThread::Wait ()`
blocks without dispatching events; the `Network` object is never deleted (the code leaks
it), so no step uses a freed one.

### Session

`Session` is what the handlers are written for: a session is `"opening"` until its connection or its failure is
reported, `"online"` while its packets are handled, and `"over"`; the user may be `leaving`, or being `told` of a
failure; `coming` are the packets received and not handled yet.  A terminal packet is handled only as the last
one (`HandleTerminal`), nothing arrives after it (`Arrive`), and a failure is reported only when everything
that came before was handled and the user has not left (`ReportFailure`).

`MainWindow` implements it (`ImplementsSession`) with `phase` given by `Phase`, `leaving` by `Leaving`, `told` by
`FailureShown`, `coming` by `Coming`:

| Step of the program | Step of `Session` |
|---|---|
| `LoginOk` | `Open` |
| `OnSocketConnected` | `ReportConnection` |
| `OnSocketFail` | `ReportFailure` |
| `DismissBox` of a failure | `Acknowledge` |
| `AppendIncoming` | `Arrive` |
| `Get` | `Handle`, or `HandleTerminal` |
| `OnDisconnect`, `OnClose` of a connected session | `Leave` |
| `Disconnect` after `OnDisconnect` | `Left` |
| every other | none |

A session is over (`SessionOver`) not only when `Net` is NULL.  After a failure `Net` stays; the session is over when
its worker has ended, its last event was dispatched and the user has not left it.  What a terminal packet
ends is over when it is handled, though the GUI thread still waits for the worker.

### ProcessView

Rows, pages and their order, the processes whose console `IsShown`, the selected page, the
panel, the check of the maintenance item, `ProcessShown` and whether what it points to is
deleted.  `coming` is the rest of the information the server is sending: it sends the packets of one information
in a row, and authorizes a process before it sends anything of it.  A new console is a
`wxPanel`, shown until `Hide ()` is called.  This is the GTK build (`__WXGTK__`); in the Windows build one page is shared.

`cut`, `spoilt` and `strayed` are history variables: the static buffer begins with the part of an information a
session ended in; the processes whose last information was put behind such a part; the check was changed last
by the user or by a packet for a process without a row.  They excuse what the code does wrong (section 5) and no
more: one information for each part that was left, until the process sends another, and a check until it is set again.

### Fragments

`AddBuffer` (Network.cpp:102-130), `Packet`'s length and sequence fields, `SendPacket` and
`RecvPacket` (Protocol.cpp:163-223), and the reassembly of the handlers.  `NewFragment` cuts the number of a packet
to eight bits before it stores the data (`SetData` copies `GetLength ()` bytes), so a packet whose number wraps to 0 has none.  A byte is known by
its place in its message, so a buffer is a sequence of runs; the constants 256, the size of the
header and the eight-bit fields are the code's.  `SSL_write` writes a packet at once.  A TLS
record may end inside a packet (`Cuts`), and `SSL_read` then returns less than it was asked
for: `RecvPacket` takes any positive result for the whole.  `Frames` is what one message puts on the
connection, `Frame` one packet of it with how much of it was read.  `garbled` is the state in which a
read took data for a header; `split` is a history variable that sets apart the behaviours in which a record ended where
one read is not over.

### LoginDialog, ServerHistory and RecentServers

`LoginDialog` has `GetServer` and `GetPort` (Login.cpp:142-195) on texts made of words and the
signs they look for.  `ServerHistory` has the two loops of `OnConnect` (Window.cpp:356-386),
with the indexes and the order of the code, and opens the session with what the dialog makes
of the same text.  `RecentServers` is what a user expects: a list of the last servers, each
once, the latest first, at most five.  Its two actions are a server of the list that moves to the
front (`Again`) and a new one that comes in front (`First`).  The keys that are not empty are the list
(`Offered`), and section 4 proves that the loops implement it.

### Console

`Add` (Console.cpp:142-256) on texts of a few characters: the carriage returns, the echo, the
line end, the character that becomes a star.  `OnSend` shows an input before it is echoed.
The process and its terminal are external: they print at any time and echo each line once, in
order, whole or in two packets.  `transcript` is a history variable with what came and was typed, in
order; `typed` has the inputs one after the other, `received` the texts.  `unclear` sets apart the behaviours in which
an echo was cut, an input was typed before the last echo, the input was found in other output, or a text had
nothing but carriage returns, at all or after its line end (section 5).  `text.Last ()` of an empty text reads
before its start: both answers are possible.

### LinkedList and ValueList

`LinkedList` has the nodes by address; a deleted node stays in the model, and a step that
reads it, or a null pointer, ends the program (`fault`).  `Nexts` and `Prevs` are the links of the nodes, and
`Path (start, links)` is what a loop visits that starts at a node and follows them to a null pointer: `Find`, `Remove`
and `Index` go along `Chain`, from `First` over `Next`; `Clear` goes from `Last` over `Prev`.  `ValueList` is a
sequence with the same operations.  The first is checked, and proved, to implement the second, in any order of calls.

### Selections

`Selected (s, places)` are the elements of a sequence at some of its places, in their order.  It is used where a
loop of the code skips elements, instead of `SelectSeq`, of which the provers have no definition.  `Console` deletes
carriage returns with it, and `ServerHistory` and `Channel` have it in their properties.

### PluralExpression and PluralParser

`PluralExpression` has the scanner, the tables of `plural.c` as they are there, one step of
the parser as a function of its state, the nodes with the memory they take, and the evaluation.
A node is a tuple, so a tree is one; `allocated` counts the nodes that were allocated and not
freed.  `PluralParser` runs the parser on any text of an alphabet: a text is chosen character
by character, when the scanner gets there.  The grammar, `TreeOf`, is written from the
precedences of C on sequences of tokens and does not use the tables.

### SystemDependent and Catalog

`SystemDependent` has the values of the directives of `inttypes.h` (loadmsgcat.c:95-765), from
the sizes of the C types.  `Catalog` loads a file and looks messages up in it.  A file is what it says: the halves
of its revision, its strings, the words of its hash table as stored, its segments and its
strings of the system.  The loader walks over the strings of the system twice and decides each time anew which
pairs to keep: `CountedPairs` is the first walk, which counts the memory and finds invalid references, `KeptPairs`
and `Assembled` the second, which writes.  Writing beyond the memory that was counted, walks that disagree on
the number of pairs, and a loop that does not end are kinds of domain: `overrun`, `abort` and `endless`.  `MCCatalog` has files such as msgfmt writes,
and files that are broken in one place each.  Words are 16 bits wide instead of 32 and their
bytes 8: the hash function folds at the same places.

### LocaleNames, LocaleAliases and Gettext

A name of a locale is a sequence of its words and signs.  `Explode` has its parts and the
mask of them, `FileName` the name for a mask, `InOrder` the masks below one, in the order
they are tried.  `LocaleAliases` reads the lines of alias files.

`Gettext` composes both with the state of `dcigettext`: the current domain, the bindings, the
counter `msg_cat_cntr`, and the caches `known` (the tree of translations), `loaded` (the list
of catalogs, each with whether it was tried and what was converted of it) and `aliases`.  A
text is the catalog it comes from and the codeset it is in.  The environment, which `setlocale` and `setenv` change,
is external: the library does not hear of a change, so an answer may be one of any environment
since the counter last moved (`since`).

`ServesSettings` demands an answer at least as specific as `Best`.  That is the most specific catalog among the
names every meaning of a language has as it is written (`Meanings`: what its aliases stand for, itself if it has none or is
also a name of another locale).  The names derived from the normalized codeset, or with the modifier as an audience, may serve
and are not demanded: a lookup that finds an entry of just its name does not try them (section 5).

### Channel

`ProcessMessage` by command, with its four static buffers; the widgets as what the user saw
(`rows`, `topic`, `heard`, `whispered`); `OnSend` and `OnTopic`, which show at once and
queue for the server.  The server sends the packets of a text in a row.  It may or may not
send a message of the user's back to him: the code has a case for it (Channel.cpp:683-684).
`cut`, `arrived`, `muddled` and `listed` are history variables: the buffers that begin with what a session left there
(`EndSession`), the texts that were not put behind such a rest, the lines and the topic that were, and whether the last list was
not.  The properties excuse, for each such rest, the one line, topic or list it is put before.

### MCMainWindow

The packets the server sends in the runs of `MainWindow`: one for each class that the
control tells apart.

The other modules named `MC...` are instances too: `MCConsole`, `MCServerHistory`,
`MCPluralParser`, `MCCatalog` and `MCGettext` define the sets their runs use.

## 3. Runs

| Run | Module, cfg | What it shows |
|---|---|---|
| `safe_main_window` | MCMainWindow, SafeMainWindow | mutexes, queues, events and menus keep step in every interleaving of the threads and the server; no thread waits in a circle; answers are written before the worker waits for the next packet; the refinement of `Session` |
| `live_main_window` | MCMainWindow, LiveMainWindow | handlers return, events are handled, queued packets are sent, a closed window goes |
| `fragments` | Fragments, Fragments | regular messages are put together again, nothing of them is left, and headers are read where headers are |
| `server_history` | MCServerHistory, ServerHistory | the refinement of `RecentServers`; host and port are those meant |
| `process_view` | ProcessView, ProcessView | rows are pages, one console is shown, commands go to it, information is whole, the check tells the mode |
| `channel` | Channel, Channel | what others say is shown whole, once, in order; the list of users is right |
| `console` | MCConsole, Console | the transcript is shown while echoes are clear, and at worst an input is missing |
| `linked_list` | LinkedList, LinkedList | the refinement of `ValueList`; only calls outside of the contract fail |
| `plural` | MCPluralParser, PluralParser | the tables are the grammar's; nothing is leaked when memory runs out; the parser returns |
| `catalog` | MCCatalog, Catalog | what is in a file is found, with the right form, within the tables |
| `gettext` | MCGettext, Gettext | an answer is what the settings of now ask for, in the codeset bound now |
| `stale_read` | MCMainWindow, StaleRead | finds the first disagreement of section 5 |

### Bounds, and why they are enough

- `safe_main_window`: two sessions, so that something of the first can be left when the
  second starts; three packets of any class over both, enough for a process to be
  authorized, get its row and be followed by a terminal packet, with events pending for all
  three; one command of the user; a socket that blocks after one packet.  The theorems of
  section 4 need none of these bounds.
- `live_main_window`: one session; the hazards it is about (a full socket, a wait inside a handler,
  the `Exiting` race) are within one.
- `fragments`: two messages with lengths at each boundary: 0, around 256 and 512,
  and around 255 and 256 packets, where the eight-bit number wraps; records that end inside the
  header, after it, inside the data or nowhere.  Two suffice, since the
  only thing a message leaves to the next is the buffer.
- `server_history`: six addresses for five keys, so that the oldest is lost and any repetition at any place occurs;
  names and IPv6 addresses, with a port and without.  The graph is complete: there is no bound on the number of logins.
- `console`: two inputs, one of which ends like the other, and two texts of output of seven kinds: nothing, a line
  end, only a carriage return, a part of an input, the same with a carriage return after its line end, an input, and a
  text that goes on after its line end; two packets on the way.  An echo has
  to be told from what came before and after it, and two of each are enough for that.
- `linked_list`: three nodes: the one in the middle, both ends, and the only one.  Two values, so that one may be
  there twice.  The theorems of section 4 need neither bound.
- `plural`: texts of up to four of fifteen characters, which is every pair of tokens in every place, and longer ones
  of few: up to ten for nested conditionals, eight for operators of different levels on both sides of another.  A
  stack of eight is enough for most of them, and `overflow` occurs; memory for two nodes runs out.
- `catalog`: tables of up to ten strings with collisions, every verdict on a string of the system, expressions that are
  right, absent, broken, beyond the forms and divide by zero, and numbers with all of these forms.
- `gettext`: two changes of settings, with two environments between two of them, two messages and two layouts.  A cache
  goes stale by one change between two lookups; the second change is for a cache that was right again.
- `process_view`: two processes (two rows, so that a wrong number is visible), two
  sessions, three informations of up to two packets.
- `channel`: two other users, two sessions, three items (a text, a list, a join or a leave)
  of up to two packets; one command for channel messages, one for private ones and the
  topic.  The cases of the other commands run the same statements and differ in the style.

Deadlock is checked in every run.  `Stop` (a bound was reached, or the program has ended) stutters; `Gettext` has none,
for a lookup is always possible.
The `Channel` bound of two sessions leaves a session that never ends possible, so `Stop` is guarded by the end of the last one.
In `MainWindow` it is guarded by the end of the program: the window can always be closed
otherwise, or a step of the worker is possible.

### Fairness

`FairSpec` of `MainWindow` and `Spec` of `PluralParser` state some; every other property is one of safety.

`Fairness` of `MainWindow` has three conditions, one for each thread and one for the server.

- The worker's thread is scheduled: weak fairness of all its steps together but `ReceivePacket`, since nothing
  forces the server to send.
- The GUI thread is scheduled, and its event loop dispatches what is pending: weak fairness of the steps of its handlers,
  of the dispatch of events and of `DismissBox`, together.  A box stays until somebody closes it, and
  nothing else of the program is promised before.  `User` has none: nobody has to click.
- A server reads what arrives, and closes once it has read a `Session::Disconnect` (`ServerReads`, `ServerHangsUp`).  The
  second is external and is what `OnDisconnect` relies on: it waits for the worker, which waits in `SSL_read`.
  A server that never closes would block the GUI thread for ever, and that is the assumption under
  which `HandlersReturn` and `WindowGoes` are stated.

Weak fairness is enough for mutexes because the sections that contend for them are finite and packets are bounded.

`WindowGoes` is about a window closed when the worker has ended or was told to: a window closed while connecting may
stay (section 5).

- `PluralParser`: the parser is one thread that nothing blocks, so its steps, and those that
  bring the text it asks for, have weak fairness.

## 4. Proofs

Eight modules hold the theorems about the modules they are named after.  None needs a bound of section 3: the
`Max...` constants are any numbers, and so the theorems hold for behaviours of any length.  What they assume of the
constants are the named assumptions of the modules, which TLC evaluates in the runs:

| Module | Assumption | Why the code justifies it |
|---|---|---|
| `MainWindowProofs` | `ConstantsAssumption`, `BoundsAssumption` | the packets are packets and the socket takes at least one |
| `ProcessViewProofs` | `ProcessViewAssumption` | an index of a process is 1 to 252, and an information has a packet at least |
| `FragmentsProofs` | `FragmentsAssumption` | lengths and places of cuts are numbers; any are allowed |
| `ChannelProofs` | `ChannelAssumption` | the user is none of the others, who are finitely many; a text has a packet at least |
| `ConsoleProofs` | `ConsoleAssumption` | an input of the text field is one line and not empty: `OnSend` sends no other |
| `ServerHistoryProofs` | `AddressesAssumption` | a host is not empty and has no brackets, a port has no colon either |
| `LinkedListProofs` | `LinkedListAssumption` | the null pointer is not a value |

| Theorem | Property |
|---|---|
| `MainWindowProofs` | |
| `TypeCorrect`, `InvariantInductive` | `[]TypeOK`, `[]InductiveInvariant` |
| `NoLockHeld` | a thread that waits owns no mutex |
| `GetNeverEmpty` | `Get` finds the packet whose event it serves |
| `MenusFollowNet` | the Process menu needs a `Net`, and has one |
| `TerminalEndsSession` | a terminal packet is the last thing its worker reports |
| `WorkerEndsFirst` | the window goes after the worker |
| `WorkersOneByOne` | `[][...]`: a new `Network` object only after the last worker has ended |
| `AnswerIsForReceived` | `[][...]`: the answer is to the packet just received, and both mutexes are released |
| `NeverCircular` | no thread waits for itself, and the two never wait for each other |
| `AnswersWrittenFirst` | what the worker queued is written when it waits for or reports a packet, unless the connection is gone |
| `SessionsInductive` | `[]SessionsInvariant`, what the two properties around it need |
| `SessionImplemented` | refinement: `Network` and `MainWindow` implement `Session` |
| `TwoDeathsNeverCome` | the program never pops an empty `Incoming` nor uses a NULL `Net` for a command |
| `OnlyDisconnectLeavesReads` | without `OnDisconnect`, a `Read` event finds its `Net`: the cause of the first finding of section 5 |
| `FirstSessionKeepsList` | a deleted node of the list of processes is visited only after a second login |
| `ProcessViewProofs` | |
| `RowsAgreeWithPages` | the number of a row is the number of its page |
| `OneConsole` | one console is visible while one is selected, and it is that one |
| `CommandsGoToShown` | a command goes to the process whose console is seen |
| `InformationIsWhole` | an information is the one the server sent, but for one after each part a session left |
| `CheckIsMode` | the check of the maintenance item tells the mode of the process, but for `strayed` |
| `FirstSessionIsSafe` | `SavedConsoleExists`, which a second connection violates (section 5), in the first session |
| `FragmentsProofs` | |
| `HeadersAreFound` | a header is read where a header is, unless a record ended inside of one |
| `MessagesAreWhole` | messages of regular lengths are put together as they were, in their order |
| `BufferIsEmptied` | nothing of them is left in the buffer |
| `MultiplesHaveNoLast` | a message whose length is a multiple of 256 has no packet numbered 1 (section 5) |
| `ChannelProofs` | |
| `OthersAreHeard`, `WhispersAreHeard` | what the others say to all, or to the user, is shown whole, once, in order, but for one line after each rest a session left |
| `OwnIsShownOnce` | what the user says is shown once |
| `TopicIsTheLast` | the topic shown is the last one the server sent, unless that was put behind such a rest |
| `ListShowsUsers` | the list has each user of the channel once, and no other |
| `OnlyFailedReadsKeep` | without `OnSocketFailRead`, only an administrator edits the topic and what is typed goes to a session: the cause of the sixth finding of section 5 |
| `ConsoleProofs` | |
| `TranscriptIsShown` | unless `unclear`, the console shows the inputs and the output in their order, on the same lines |
| `NoMoreIsMissing` | always: the letters missing are at most those typed |
| `ServerHistoryProofs` | |
| `HistoryIsTheRecentServers` | refinement: the two loops over the keys implement `RecentServers` |
| `AddressIsUnderstood` | the session is opened with the host and port that were meant |
| `LinkedListProofs` | |
| `ListIsASequence` | refinement: the linked nodes implement `ValueList`, in any order of calls, until the program ends |
| `AlwaysWellLinked` | `[]WellLinked`: both ways of links, both ends and the count agree, and no node was deleted; no run lists it |
| `LegalCallsAreAlwaysSafe` | `[][...]`: calls within the contract reach no deleted node and no null pointer |

The invariant of each is below, with why its property is not inductive by itself.

### MainWindow

`GetFindsPacket` is not inductive: it says nothing of how many events are pending.  The
argument is an account.  While `Net` is set,

    Len(incoming) + pending Connect + pending failure
        = Len(events) + (a Read is being handled) + (a packet is not reported yet)

(`ReadsAccounted`).  Each append to `Incoming` makes one packet unreported, each post of a `Read` turns
it into an event, each dispatch turns an event into a handling, and each `Get` ends it.  It
needs the parts

- `MutexesOwned`: a mutex is owned exactly between its lock and its unlock, so nothing
  changes under the worker's answer;
- `EventsOrdered`: `Connect` is the first event of its worker and a failure the last;
  a worker that has not ended is the one of `Net`;
- `ReadsOrdered`: the packet not reported yet is the last of `Incoming`.  Together with
  the mutexes this is why the worker answers the packet it has just received though the GUI
  thread may pop before it: the GUI thread pops a packet only for an event, and
  the last packet's event is not posted yet;
- `TerminalsLast`: a terminal packet is the last of `Incoming`, its worker is about to
  end, and no failure follows it.  So when the GUI thread handles it, the account says that both queues are empty;
- `MenusOrdered`: which menu items are enabled in which phase; in particular a login is
  possible only after the worker ended.  This is what rules out two workers.

Each step lemma has one case per action; the account and the rest are separate lemmas
(`...Reads`, `...Ordering`), because the first is arithmetic over lengths and the second is not.
`OneWorker` and `TerminalIsLast` are not listed in a run: `ImplementsSession` says as much and more of the same
steps.  Nor is `InductiveInvariant`, which is proved; with it, and with `SessionsInvariant`, as invariants of
`safe_main_window` TLC finds no error.

`NoCircularWait` follows from it: the mutexes are always taken in the same order, `Outgoing` first, and
`Net->Wait ()` is called by a thread that owns none.  `AnswersAreWritten` and `ImplementsSession` need
`SessionsInvariant`, proved inductive relative to `InductiveInvariant`, in three parts:

- `AnswersInHand`: an automatic answer is in `Outgoing` only between the step that queues it and the return of the
  `Send` that follows.  Either thread's `Send` may write it; if the other thread's writes it first, the worker finds
  an empty list, and that is why the mutex is all that is needed.
- `LeavingIsSilent`: the user leaves a session only while its worker is connected, so a failure is never
  posted by a worker that finds `Exiting`, and never shown to a user who is leaving.  It orders `connected`, which
  the worker writes, and `exiting`, which the GUI thread writes: neither has a lock.
- `EndIsLast`: a worker that has ended in a session the user did not leave has a failure as its last event or a terminal
  packet as the last of `Incoming`.  Without it a session could be over, by its events, with its end
  not handled.

The refinement has a lemma for each kind of step.  The hard ones are `Get` and `Disconnect`: by
`ReadsAccounted`, when the last event of an ended worker is dispatched, `Incoming` is empty, so that
`ReportFailure` and `HandleTerminal` leave nothing; and a terminal packet is popped as the only one.

The last three theorems look at the states in which the program dies (`Crashes`).  `EventsHaveNet` is the invariant of
behaviours without `OnDisconnect`: no event is pending without a `Net`.  `ListIsFresh` is that of a first session: no process
is known until the connection is reported, so `List::Clear` deletes nothing.

### ProcessView

`Inv` has three parts besides the types.

- `ComingIsKnown`: the server sends about processes of this session only, because it authorizes a process first and
  `OnSocketConnected` clears the list.  Without it `ProcessInfo` could make a row for a process without an object.
- `SelectedIsShown`: while the process `ProcessShown` points to exists, its console is a page and visible.
  `OneConsoleShown` and `CommandsToShown` look at the page selected; when the user goes to the chat and comes back,
  or the page of another process is added, it is `ProcessShown` that says what is still visible behind.
- `BufferGoesOn`: the static buffer holds the packets received of the information that is being sent, and the rest
  is on its way, unless it begins with what a session left.  `InfoIsWhole` needs it when the last packet comes.

### Fragments

`FramesUnread` says that no packet on the connection is read in part unless a record ended at a bad place; from
that `HeadersFound` follows.  `InOrder` follows one message through the connection: the packets there are the
consecutive numbers of consecutive messages (`WireInOrder`), the buffer is the run of the bytes before the next one
(`BufferFollows`), and all messages before it were delivered (`DeliveredWhole`).  The lemmas `SetLengthFacts`,
`GetLengthFacts`, `RegularFragments` and `ReadWhole` are the arithmetic of the eight-bit fields for every
length below 255 * 256 that is not a multiple of 256.

### Channel

For each kind of text, `...GoesOn` says that its buffer, unless it begins with what a session left (`cut`), holds the
packets already received of the text that is coming, and is empty otherwise.  `MessageGoesOn` has one more exception,
`echoed`: a message of one's own that came back leaves the buffer as it is.  `MuddledShown`, that the muddled places are those
of lines, is what keeps the next line from being taken for one.  `NamesGoOn` says the same of the list of users and that the names are those of
the members, each once, when the rest has come.  `RowsFollow` says what the rows show while a join or a leave is
still coming (`Expected`): they are one change behind the server.  `NothingIsKept`, that `Net` and `admin_mode` go with
the session, is the invariant of behaviours in which no session ends by a failed read.

### Console

`MissingAtMostTyped` is not inductive, because an echo not found yet will be missing later.  `Counted` counts the
letters of the last input as lost already: each time `Add` finds it, it forgets it.  `EchoAwaited` says that, unless
`unclear`, at most one echo is awaited, that of the last input: so the text removed is the echo and not the output.
For `TranscriptShown` itself the work is in the lemmas on `Squeezed`: what follows a line end that was
held back, and what an empty text leaves.

### ServerHistory

`Packed` (the keys with a server are the first ones) and `Distinct` (each once) are what the loops rely on: the
first loop may empty a key in the middle, and the second fills it since it starts there.  `ToFront`
relates what the keys offer after a login to what they offered before.  `AddressIsMeant` needs no invariant but the
meaning of the last step: `GetServer` and `GetPort` undo `Written`, whatever the host and the port.

### LinkedList

The witness of the invariant is the path of the nodes: either `Linked`, the
path from `first` over the links ends at `last`, the links back agree, and no node of it occurs twice or was deleted;
or, when the list was cleared, `Stale`, it starts with a deleted node and the count is 0.  `OnePath` shows that
links have one path from a start, so `Chain`, a `CHOOSE`, is that witness; `Removed` is the step
for a node in any place, `AddedFirst`, `AddedLast` and `AddedOnly` those for a new one.

### Lemmas on sequences

`SelectionsProofs` is used by several: what `Selected` is of a sequence with an element appended, of two
joined, in another order, and of all places but one.  The induction theorems of the library take
an operator and cannot be used; `Induction` and `SeqInduction` say the same of sets, `Nat` and `Seq (S)`, and follow from the
least number of a set.  No recursive function is needed anywhere.

### Only model-checked

- Liveness under fairness, which the prover does not reach: `HandlersReturn`, `EventsHandled`, `QueuedIsSent` and
  `WindowGoes` of `MainWindow`, `Returns` of `PluralParser`.
- `PluralParser`, `Catalog` and `Gettext`: they use recursive operators (trees, hash chains, names below a name), and
  what these compute for every input is an induction over data.

## 5. Where the code and its documentation disagree

`stale_read` has a counterexample that is the behaviour described in the first.  The others were seen by TLC
in the same way, with the named definition, which stays in its module, as the invariant of a run.

1. **A stale `Read` event** (`ReadFindsNet` of `MainWindow`, Window.cpp:544).  `OnDisconnect` waits for the
   worker and sets `Net` to NULL.  The worker's last `Read` event may be pending still;
   `OnSocketRead` calls `Net->Get ()` without a test.
2. **Closing while connecting** (`CloseExits` of `MainWindow`, Window.cpp:416).  `OnClose` tells the
   server only when `Net->IsConnected ()`.  Before that, the worker is told nothing; it
   connects, and the destructor waits for it until the server closes.  doc/html/index.html:210-213:
   "or just close the application from its title bar's icon."
3. **Lengths that are multiples of 256** (`AlwaysCompleted` of `Fragments`, Network.cpp:113).  They end with
   a packet numbered 2, and the receiver waits for a 1.  Window.cpp:678: "si la secuencia es 1 entonces es el último paquete!".
4. **Save after a reconnection** (`SavedConsoleExists` of `ProcessView`, Window.cpp:1008).  `ProcessShown` still
   points to a deleted process.  doc/html/index.html:155-158: "To save the current console's messages to a file".
5. **One's own message comes back** (`AllHeard` of `Channel`, Channel.cpp:684).  A `break` skips the
   statement that empties the buffer; from then on every message of the channel is taken
   for one's own and dropped.  doc/html/index.html:172-174: the Chat tab "allows communication between them".
6. **The topic after a failed read** (`EditorIsAdmin` of `Channel`, Window.cpp:990).  `OnSocketFailRead`
   does not reset `admin_mode`; the next user can edit the topic.  NEWS:10: "Topic widget is editable when the user is an administrator."

Seen while modelling:

- An empty server field (Window.cpp:356) equals every empty key, so the first loop counts key 5 as the
  repeated one and the second loop writes some entry twice; with an empty text among `Inputs`,
  `ImplementsRecent` fails.
- After a failed read the Process menu stays enabled with the pages of the old session.  A
  command issued once the next worker runs goes into its `Outgoing` and may reach the server before `Sync::Hello`,
  which Network.cpp:339 says is sent first.
- Information for a listed process refreshes the panel whichever process is selected (Window.cpp:710).
- A maintenance change for a process that is not a page yet changes the item's check (Window.cpp:784):
  a console that was never hidden counts as shown.  `strayed` in `ProcessView` sets this case apart.
- A denied maintenance change (Window.cpp:949) leaves the check as the click set it.
- Console.cpp:160 removes the last input from the first text that holds it.  If the process prints
  the same text before it echoes, the output is removed and the echo is shown; if the echo comes in two packets, it is shown.
- Console.cpp:150 looks for the line end of a text before :156 deletes its carriage returns.  A text that has one after its
  line end, or nothing else, sets `last_had_newline` wrongly: a line end is lost.  `unclear` sets this apart.
- `OnSocketConnected` clears the list of processes (Window.cpp:525), which leaves `First` at a deleted node.  If the
  server of a second session sends output or information of a process before it authorizes one, `ProtoSession` (Window.cpp:650)
  searches from there: `crashFreedList` of `MainWindow` is reached.
- After each alias of an alias file, the next line is skipped (localealias.c:348): `strchr` stops at the
  null character that was written after the alias, so the line is taken for one that did not fit the buffer.
- The comment above l10nflist.c:333 says the modifier is dropped first and the normalized codeset last.
  The loop goes down from the mask, so the parts with the least bits go first, and the modifier, which has the
  largest, is kept longest.
- The second lookup of a locale whose name has a codeset finds the entry of just that name (finddomain.c:88), which the first
  lookup made as a successor: catalogs under the name with the codeset in normal form are not tried any more.
- A syntax error in a plural expression leaks the nodes on the stack: there is no destructor for values
  that are popped (plural.c:1227).  `NodesAreFreed` is about memory that runs out.
- When `malloc` fails in `_nl_load_domain` (loadmsgcat.c:981, 1022), the file stays open or mapped; `log.c` writes to the
  file it could not open.  Neither is modelled.

## 6. What is not modelled

- TLS and TCP below `SSL_read` and `SSL_write`: `Network` reads and writes a packet whole, `Fragments` has short
  reads.  Two threads use one SSL object at a time; what OpenSSL does then is outside of the code.
- The data race on `Connected` and `Exiting`: each is one flag, read and written in one step.
- MD5 and the content of the credentials.
- Styles, fonts and log files (Console, Logs, Config, Icons, About, Main).
- Of the console: the static buffer of `ConsoleLogs`, `ClearOutput`, which nobody calls.
- Of the list: the copy constructor and the destructor.
- Of the translations: lists of directories, relative directories and absolute paths in LANGUAGE, the check for
  setuid programs, the log of untranslated messages, other categories than the messages, catalogs installed while
  the program runs, a locale whose codeset changes, reading a file without `mmap`, memory that runs out outside of
  the parser, and locks, which only the C library has.  Characters are not negative in the hash function.
- The formatted output, the names of codesets and locales on other systems, and relocation (`intl/vasnprintf.c`,
  `printf-parse.c`, `localcharset.c`, `localename.c`, `relocatable.c`, `os2compat.c`): replacements of what the C library
  has, without state of their own.
- The Windows build.

## 7. Plan

Done: `Network` and `MainWindow` over `Session`, `Fragments` with the framing of the connection, `ServerHistory` over
`RecentServers` with `LoginDialog`, `ProcessView`, `Channel`, `Console` and `LinkedList` over `ValueList`, each with its
proofs; the plural expressions, the catalogs and the lookup of the translations, checked.

Left:

1. *Prove.*  `InBoundCodeset` of `Gettext`: what it needs of a catalog, its counter against that of the binding, is not
   recursive, but the loops around it are (the aliases, the successors, the languages).  They would have to be
   written as steps, or without recursion, in a module of their own.
2. *Model.*  What two threads may do with one SSL object, if a model of OpenSSL is added.
