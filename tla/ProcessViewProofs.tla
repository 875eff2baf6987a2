--------------------------- MODULE ProcessViewProofs ---------------------------
(***************************************************************************)
(* Proofs about ProcessView, for any set of processes, any number of       *)
(* sessions and informations, and informations of any length.              *)
(***************************************************************************)
EXTENDS ProcessView, TLAPS

USE DEF widgets, objects, history

Packet == [idx : Processes, seq : 1..MaxParts]

TypeOK ==
    /\ online \in BOOLEAN /\ menuProcess \in BOOLEAN
    /\ procs \in SUBSET Processes
    /\ rows \in Seq(Processes) /\ pages \in Seq(Processes)
    /\ shown \in SUBSET Processes
    /\ tab \in OtherTabs \cup Processes
    /\ info \in [Processes -> Seq(Packet)]
    /\ maintenance \in [Processes -> BOOLEAN]
    /\ tempdata \in Seq(Packet) /\ coming \in Seq(Packet)
    /\ panel \in Processes \cup {None} /\ processShown \in Processes \cup {None}
    /\ check \in BOOLEAN /\ deleted \in BOOLEAN /\ crashed \in BOOLEAN
    /\ cut \in BOOLEAN /\ spoilt \in SUBSET Processes /\ strayed \in BOOLEAN

\* The server sends only in a session, and about a process of this session.
ComingIsKnown ==
    /\ ~online => coming = <<>>
    /\ \A j \in 1..Len(coming) : coming[j].idx \in procs

\* While the process selected last exists its console is a page and it is visible: no
\* message about another process hides it.
SelectedIsShown ==
    processShown # None /\ ~deleted => processShown \in shown \cap Consoles

\* What was received of an information (r) and what is still to come (c) are the two parts
\* of an information of process i in k packets.
Splits(r, c, i, k) ==
    /\ Len(r) + Len(c) = k
    /\ \A j \in 1..Len(r) : r[j] = Part(i, k + 1 - j)
    /\ \A j \in 1..Len(c) : c[j] = Part(i, k + 1 - (Len(r) + j))

\* What is still to come is the end of one information.
ComingIsRest ==
    coming # <<>> => \E i \in procs : \A j \in 1..Len(coming) : coming[j] = Part(i, Len(coming) + 1 - j)

\* Unless it begins with what a cut session left, the static buffer holds the part already
\* received of what the server is sending, and nothing between two informations.
BufferGoesOn ==
    ~cut => \/ tempdata = <<>> /\ coming = <<>>
            \/ coming # <<>> /\ \E i \in procs, k \in 1..MaxParts : Splits(tempdata, coming, i, k)

Widgets ==
    /\ ComingIsKnown
    /\ RowsArePages
    /\ OneConsoleShown
    /\ CommandsToShown
    /\ SelectedIsShown
    /\ CheckTellsMode

Whole == ComingIsRest /\ BufferGoesOn /\ InfoIsWhole

Inv == TypeOK /\ Widgets /\ Whole
--------------------------------------------------------------------------------
(* Types.                                                                   *)

\* An information has as many packets as it is cut in, numbered downwards.
LEMMA InformationType ==
    ASSUME NEW i \in Processes, NEW k \in 1..MaxParts
    PROVE  /\ Information(i, k) \in Seq(Packet)
           /\ Len(Information(i, k)) = k
           /\ \A j \in 1..k : Information(i, k)[j] = Part(i, k + 1 - j)
<1>1. MaxParts \in Nat
  BY ProcessViewAssumption
<1>2. \A j \in 1..k : Part(i, k + 1 - j) \in Packet
  BY <1>1 DEF Part, Packet
<1> QED
  BY <1>1, <1>2 DEF Information

\* A row more, whatever the sequence: the values before, and the new one.
LEMMA AppendFacts ==
    ASSUME NEW S, NEW s \in Seq(S), NEW x \in S
    PROVE  /\ Append(s, x) \in Seq(S) /\ Len(Append(s, x)) = Len(s) + 1
           /\ \A k \in 1..Len(s) : Append(s, x)[k] = s[k]
           /\ Append(s, x)[Len(s) + 1] = x
           /\ {Append(s, x)[k] : k \in 1..(Len(s) + 1)} = {s[k] : k \in 1..Len(s)} \cup {x}
<1>1. /\ Append(s, x) \in Seq(S) /\ Len(Append(s, x)) = Len(s) + 1 /\ Len(s) \in Nat
      /\ \A k \in 1..Len(s) : Append(s, x)[k] = s[k]
      /\ Append(s, x)[Len(s) + 1] = x
  OBVIOUS
<1>2. \A k \in 1..(Len(s) + 1) : k \in 1..Len(s) \/ k = Len(s) + 1
  BY <1>1
<1>3. Len(s) + 1 \in 1..(Len(s) + 1) /\ 1..Len(s) \subseteq 1..(Len(s) + 1)
  BY <1>1
<1> QED
  BY <1>1, <1>2, <1>3

LEMMA ListedType ==
    ASSUME TypeOK
    PROVE  /\ \A k \in 1..Len(rows) : rows[k] \in Processes
           /\ \A k \in 1..Len(pages) : pages[k] \in Processes
           /\ Listed \subseteq Processes /\ Consoles \subseteq Processes
  BY DEF TypeOK, Listed, Consoles

\* The steps of the session keep the types.
LEMMA SessionType ==
    ASSUME TypeOK, RowsArePages,
           \/ OnSocketConnected \/ SessionEnds \/ ProcessInfo
           \/ \E i \in Processes :
                  \/ Authorized(i)
                  \/ \E k \in 1..MaxParts : ServerSendsInfo(i, k)
                  \/ \E on \in BOOLEAN : Maintenance(i, on)
    PROVE  TypeOK'
<1>1. CASE OnSocketConnected
  BY <1>1 DEF TypeOK, OnSocketConnected
<1>2. CASE SessionEnds
  <2>1. cut' \in BOOLEAN
    BY <1>2, Zenon DEF SessionEnds
  <2>2. /\ online' = FALSE /\ menuProcess' \in BOOLEAN /\ coming' = <<>>
        /\ UNCHANGED <<widgets, objects, processShown, deleted, crashed, spoilt, strayed>>
    BY <1>2 DEF SessionEnds
  <2>3. <<>> \in Seq(Packet) /\ online' \in BOOLEAN
    <3>1. <<>> \in Seq(Packet)
      OBVIOUS
    <3> QED
      BY <2>2, <3>1
  <2> QED
    BY <2>1, <2>2, <2>3, Zenon DEF TypeOK
<1>3. CASE ProcessInfo
  <2> DEFINE p == Head(coming)
             whole == Append(tempdata, p)
  <2>1. p \in Packet /\ coming' \in Seq(Packet) /\ whole \in Seq(Packet)
    BY <1>3 DEF TypeOK, ProcessInfo
  <2>2. p.idx \in Processes
    BY <2>1 DEF Packet
  <2>3. CASE p.seq # 1
    BY <1>3, <2>1, <2>3 DEF TypeOK, ProcessInfo
  <2>4. CASE p.seq = 1
    <3>1. info' \in [Processes -> Seq(Packet)] /\ tempdata' = <<>>
      BY <1>3, <2>1, <2>2, <2>4 DEF TypeOK, ProcessInfo, EmptyTemp
    <3>4. cut' \in BOOLEAN /\ spoilt' \in SUBSET Processes
      BY <1>3, <2>2, <2>4 DEF TypeOK, ProcessInfo
    <3>2. CASE p.idx \in Listed
      BY <1>3, <2>1, <2>2, <2>4, <3>1, <3>2, <3>4, SMTT(40) DEF TypeOK, ProcessInfo
    <3>3. CASE p.idx \notin Listed
      <4>1. /\ rows' = Append(rows, p.idx) /\ pages' = Append(pages, p.idx)
            /\ shown' = shown \ {p.idx}
            /\ UNCHANGED <<tab, check, panel, online, menuProcess, procs, maintenance,
                           processShown, deleted, crashed, strayed>>
        BY <1>3, <2>4, <3>3 DEF ProcessInfo, NewPage
      <4>2. rows' \in Seq(Processes) /\ pages' \in Seq(Processes)
        BY <2>2, <4>1, AppendFacts DEF TypeOK
      <4>3. shown' \in SUBSET Processes
        BY <4>1 DEF TypeOK
      <4> QED
        BY <2>1, <3>1, <3>4, <4>1, <4>2, <4>3 DEF TypeOK
    <3> QED
      BY <3>2, <3>3
  <2> QED
    BY <2>3, <2>4
<1>4. ASSUME NEW i \in Processes, Authorized(i)
      PROVE  TypeOK'
  BY <1>4 DEF TypeOK, Authorized
<1>5. ASSUME NEW i \in Processes, NEW k \in 1..MaxParts, ServerSendsInfo(i, k)
      PROVE  TypeOK'
  BY <1>5, InformationType DEF TypeOK, ServerSendsInfo
<1>6. ASSUME NEW i \in Processes, NEW on \in BOOLEAN, Maintenance(i, on)
      PROVE  TypeOK'
  <2>1. strayed' \in BOOLEAN /\ check' \in BOOLEAN
    BY <1>6, Zenon DEF TypeOK, Maintenance
  <2> QED
    BY <1>6, <2>1 DEF TypeOK, Maintenance
<1> QED
  BY <1>1, <1>2, <1>3, <1>4, <1>5, <1>6

\* The steps of the user keep the types.
LEMMA UserType ==
    ASSUME TypeOK, RowsArePages,
           \/ \E k \in 1..Len(rows) : OnProcessSelected(k)
           \/ \E t \in OtherTabs \cup Processes : ClickTab(t)
           \/ OnProcessMaintenance \/ OnConsoleSave
    PROVE  TypeOK'
<1>1. ASSUME NEW k \in 1..Len(rows), OnProcessSelected(k)
      PROVE  TypeOK'
  <2>1. rows[k] \in Processes /\ pages[k] \in Processes
    BY ListedType DEF RowsArePages
  <2>2. CASE rows[k] \in shown
    BY <1>1, <2>1, <2>2 DEF TypeOK, OnProcessSelected
  <2>3. CASE rows[k] \notin shown
    BY <1>1, <2>1, <2>3 DEF TypeOK, OnProcessSelected, ShowConsole, ShowMode
  <2> QED
    BY <2>2, <2>3
<1>2. ASSUME NEW t \in OtherTabs \cup Processes, ClickTab(t)
      PROVE  TypeOK'
  BY <1>2 DEF TypeOK, ClickTab
<1>3. CASE OnProcessMaintenance
  BY <1>3 DEF TypeOK, OnProcessMaintenance
<1>4. CASE OnConsoleSave
  BY <1>4 DEF TypeOK, OnConsoleSave
<1> QED
  BY <1>1, <1>2, <1>3, <1>4
--------------------------------------------------------------------------------
(* The widgets.                                                             *)

\* A user's step changes neither the rows nor the pages.
LEMMA UserWidgets ==
    ASSUME TypeOK, Widgets,
           \/ \E k \in 1..Len(rows) : OnProcessSelected(k)
           \/ \E t \in OtherTabs \cup Processes : ClickTab(t)
           \/ OnProcessMaintenance \/ OnConsoleSave
    PROVE  Widgets'
<1> USE DEF Widgets
<1> USE DEF ComingIsKnown
<1>1. ASSUME NEW k \in 1..Len(rows), OnProcessSelected(k)
      PROVE  Widgets'
  <2> DEFINE i == rows[k]
  <2>1. /\ i \in Consoles /\ i \in Processes /\ i # None /\ pages[k] = i
        /\ i \notin OtherTabs
    BY ListedType, ProcessViewAssumption
    DEF RowsArePages, Consoles, None, OtherTabs, Chat, Logs
  <2>2. /\ rows' = rows /\ pages' = pages /\ procs' = procs /\ Consoles' = Consoles
        /\ coming' = coming /\ online' = online /\ maintenance' = maintenance
        /\ tab' = i /\ processShown' = i /\ ~deleted'
    BY <1>1, <2>1 DEF OnProcessSelected, Consoles
  <2>3. CASE i \in shown
    <3>1. i = processShown /\ ~deleted
      BY <2>1, <2>3 DEF OneConsoleShown
    <3>2. shown' = shown /\ check' = check /\ strayed' = strayed
      BY <1>1, <2>3 DEF OnProcessSelected
    <3> QED
      BY <2>1, <2>2, <2>3, <3>1, <3>2
      DEF RowsArePages, OneConsoleShown, CommandsToShown, SelectedIsShown, CheckTellsMode
  <2>4. CASE i \notin shown
    <3>1. /\ shown' = (shown \ Consoles) \cup {i}
          /\ check' = maintenance[i] /\ strayed' = FALSE
      BY <1>1, <2>4 DEF OnProcessSelected, ShowConsole, ShowMode
    <3> QED
      BY <2>1, <2>2, <3>1
      DEF RowsArePages, OneConsoleShown, CommandsToShown, SelectedIsShown, CheckTellsMode
  <2> QED
    BY <2>3, <2>4
<1>2. ASSUME NEW t \in OtherTabs \cup Processes, ClickTab(t)
      PROVE  Widgets'
  BY <1>2 DEF ClickTab, RowsArePages, OneConsoleShown, CommandsToShown, SelectedIsShown,
              CheckTellsMode, Consoles
<1>3. CASE OnProcessMaintenance
  BY <1>3 DEF OnProcessMaintenance, RowsArePages, OneConsoleShown, CommandsToShown,
              SelectedIsShown, CheckTellsMode, Consoles
<1>4. CASE OnConsoleSave
  BY <1>4 DEF OnConsoleSave, RowsArePages, OneConsoleShown, CommandsToShown,
              SelectedIsShown, CheckTellsMode, Consoles
<1> QED
  BY <1>1, <1>2, <1>3, <1>4

\* A session's packet about one process leaves the widgets of the others.
LEMMA SessionWidgets ==
    ASSUME TypeOK, Widgets,
           \/ OnSocketConnected \/ SessionEnds \/ ProcessInfo
           \/ \E i \in Processes :
                  \/ Authorized(i)
                  \/ \E k \in 1..MaxParts : ServerSendsInfo(i, k)
                  \/ \E on \in BOOLEAN : Maintenance(i, on)
    PROVE  Widgets'
<1> USE DEF Widgets
<1>1. CASE OnSocketConnected
  <2>1. /\ rows' = <<>> /\ pages' = <<>> /\ coming' = <<>> /\ Consoles' = {}
        /\ online' /\ check' = check /\ maintenance' = maintenance /\ strayed' = strayed
        /\ processShown' = processShown /\ deleted' = (processShown # None)
        /\ tab' \in OtherTabs
    BY <1>1 DEF OnSocketConnected, Consoles, ComingIsKnown
  <2>2. CheckTellsMode' /\ SelectedIsShown'
    BY <2>1, Zenon DEF CheckTellsMode, SelectedIsShown
  <2> QED
    BY <2>1, <2>2 DEF ComingIsKnown, RowsArePages, OneConsoleShown, CommandsToShown
<1>2. CASE SessionEnds
  BY <1>2 DEF SessionEnds, ComingIsKnown, RowsArePages, OneConsoleShown, CommandsToShown,
              SelectedIsShown, CheckTellsMode, Consoles
<1>3. CASE ProcessInfo
  <2> DEFINE p == Head(coming)
  <2>1. /\ p \in Packet /\ p.idx \in procs /\ p.idx \in Processes
        /\ online' = online /\ online
        /\ procs' = procs /\ maintenance' = maintenance /\ processShown' = processShown
        /\ deleted' = deleted /\ strayed' = strayed /\ coming' = Tail(coming)
        /\ tab' = tab /\ check' = check
    <3>1. coming \in Seq(Packet) /\ coming # <<>>
      BY <1>3 DEF ProcessInfo, TypeOK
    <3>2. p = coming[1] /\ 1 \in 1..Len(coming) /\ p \in Packet
      BY <3>1
    <3>3. p.idx \in procs /\ p.idx \in Processes
      BY <3>2 DEF ComingIsKnown, Packet
    <3> QED
      BY <1>3, <3>2, <3>3 DEF ProcessInfo
  <2>2. ComingIsKnown'
    BY <1>3, <2>1 DEF ComingIsKnown, ProcessInfo, TypeOK
  <2>3. CASE UNCHANGED <<rows, pages, shown>>
    BY <2>1, <2>2, <2>3 DEF RowsArePages, OneConsoleShown, CommandsToShown, SelectedIsShown,
                            CheckTellsMode, Consoles
  <2>4. CASE /\ p.idx \notin Listed
             /\ rows' = Append(rows, p.idx) /\ pages' = Append(pages, p.idx)
             /\ shown' = shown \ {p.idx}
    <3>1. Consoles = Listed
      BY DEF Consoles, Listed, RowsArePages
    <3>2. Consoles' = Consoles \cup {p.idx}
      <4>1. /\ Len(pages') = Len(pages) + 1
            /\ {pages'[k] : k \in 1..(Len(pages) + 1)}
                 = {pages[k] : k \in 1..Len(pages)} \cup {p.idx}
        <5>1. pages \in Seq(Processes) /\ pages' = Append(pages, p.idx) /\ p.idx \in Processes
          BY <2>1, <2>4 DEF TypeOK
        <5>2. /\ Len(Append(pages, p.idx)) = Len(pages) + 1
              /\ {Append(pages, p.idx)[k] : k \in 1..(Len(pages) + 1)}
                   = {pages[k] : k \in 1..Len(pages)} \cup {p.idx}
          BY <5>1, AppendFacts
        <5> QED
          BY <5>1, <5>2, Zenon
      <4> QED
        BY <4>1 DEF Consoles
    <3>3. RowsArePages'
      <4>1. /\ rows \in Seq(Processes) /\ Len(rows') = Len(rows) + 1 /\ Len(rows) \in Nat
            /\ \A k \in 1..Len(rows) : rows'[k] = rows[k]
            /\ rows'[Len(rows) + 1] = p.idx
        BY <2>1, <2>4, AppendFacts DEF TypeOK
      <4>2. \A k \in 1..Len(rows') : k \in 1..Len(rows) \/ k = Len(rows) + 1
        BY <4>1
      <4>3. \A k \in 1..Len(rows) : rows[k] # p.idx
        BY <2>4 DEF Listed
      <4> QED
        BY <2>1, <2>4, <4>1, <4>2, <4>3 DEF RowsArePages
    <3> QED
      BY <2>1, <2>2, <2>4, <3>1, <3>2, <3>3
      DEF OneConsoleShown, CommandsToShown, SelectedIsShown, CheckTellsMode
  <2> QED
    BY <1>3, <2>3, <2>4 DEF ProcessInfo, NewPage
<1>4. ASSUME NEW i \in Processes, Authorized(i)
      PROVE  Widgets'
  <2>1. i \notin Consoles
    BY <1>4 DEF Authorized, Consoles, RowsArePages
  <2>2. /\ rows' = rows /\ pages' = pages /\ procs' = procs \cup {i} /\ Consoles' = Consoles
        /\ coming' = coming /\ online' = online /\ shown' = shown \cup {i}
        /\ maintenance' = [maintenance EXCEPT ![i] = FALSE]
        /\ tab' = tab /\ processShown' = processShown /\ deleted' = deleted
        /\ check' = check /\ strayed' = strayed
    BY <1>4 DEF Authorized, Consoles
  <2>3. CheckTellsMode'
    <3>1. processShown # None /\ ~deleted => processShown # i /\ processShown \in Processes
      BY <2>1 DEF SelectedIsShown, TypeOK
    <3> QED
      BY <2>2, <3>1 DEF CheckTellsMode, TypeOK
  <2> QED
    BY <2>1, <2>2, <2>3 DEF ComingIsKnown, RowsArePages, OneConsoleShown, CommandsToShown,
                            SelectedIsShown
<1>5. ASSUME NEW i \in Processes, NEW k \in 1..MaxParts, ServerSendsInfo(i, k)
      PROVE  Widgets'
  <2>1. ComingIsKnown'
    <3>1. coming' = Information(i, k) /\ online' /\ procs' = procs /\ i \in procs
      BY <1>5 DEF ServerSendsInfo, Quiet
    <3>2. /\ Len(coming') = k
          /\ \A j \in 1..k : coming'[j].idx = i
      <4>1. /\ Len(Information(i, k)) = k
            /\ \A j \in 1..k : Information(i, k)[j] = Part(i, k + 1 - j)
        BY InformationType
      <4>2. \A j \in 1..k : Information(i, k)[j].idx = i
        BY <4>1 DEF Part
      <4> QED
        BY <3>1, <4>1, <4>2
    <3> QED
      BY <3>1, <3>2 DEF ComingIsKnown
  <2> QED
    BY <1>5, <2>1 DEF ServerSendsInfo, RowsArePages, OneConsoleShown, CommandsToShown,
                      SelectedIsShown, CheckTellsMode, Consoles
<1>6. ASSUME NEW i \in Processes, NEW on \in BOOLEAN, Maintenance(i, on)
      PROVE  Widgets'
  <2>1. /\ rows' = rows /\ pages' = pages /\ procs' = procs /\ Consoles' = Consoles
        /\ coming' = coming /\ online' = online /\ shown' = shown
        /\ maintenance' = [maintenance EXCEPT ![i] = on]
        /\ tab' = tab /\ processShown' = processShown /\ deleted' = deleted
    BY <1>6 DEF Maintenance, Consoles
  <2>2. CheckTellsMode'
    <3>1. SUFFICES ASSUME ~strayed', processShown # None, ~deleted
                   PROVE  check' = maintenance'[processShown]
      BY <2>1 DEF CheckTellsMode
    <3>2. CASE i \in shown
      <4>1. check' = on /\ i \in Listed
        BY <1>6, <3>1, <3>2 DEF Maintenance
      <4>2. i = processShown
        BY <3>2, <4>1 DEF OneConsoleShown, RowsArePages, Listed, Consoles
      <4> QED
        BY <2>1, <4>1, <4>2 DEF TypeOK
    <3>3. CASE i \notin shown
      <4>1. check' = check /\ strayed' = strayed /\ i # processShown
        BY <1>6, <3>1, <3>3 DEF Maintenance, SelectedIsShown
      <4> QED
        BY <2>1, <3>1, <4>1 DEF CheckTellsMode, TypeOK
    <3> QED
      BY <3>2, <3>3
  <2> QED
    BY <2>1, <2>2 DEF ComingIsKnown, RowsArePages, OneConsoleShown, CommandsToShown,
                      SelectedIsShown
<1> QED
  BY <1>1, <1>2, <1>3, <1>4, <1>5, <1>6
--------------------------------------------------------------------------------
(* The information.                                                         *)

\* The steps that carry no information keep what is known of it.
LEMMA OthersInformation ==
    ASSUME TypeOK, Whole, UNCHANGED <<procs, info, tempdata, coming, cut, spoilt>>
    PROVE  Whole'
  BY DEF Whole, ComingIsRest, BufferGoesOn, InfoIsWhole, Splits

\* A step of the session keeps the buffer in step with what is coming, and what it takes
\* for complete is complete.
LEMMA SessionInformation ==
    ASSUME TypeOK, ComingIsKnown, Whole,
           \/ OnSocketConnected \/ SessionEnds \/ ProcessInfo
           \/ \E i \in Processes :
                  \/ Authorized(i)
                  \/ \E k \in 1..MaxParts : ServerSendsInfo(i, k)
                  \/ \E on \in BOOLEAN : Maintenance(i, on)
    PROVE  Whole'
<1> USE DEF Whole
<1>1. CASE OnSocketConnected
  BY <1>1 DEF OnSocketConnected, ComingIsKnown, ComingIsRest, BufferGoesOn, InfoIsWhole
<1>2. CASE SessionEnds
  <2>1. /\ cut' = (tempdata # <<>>) /\ coming' = <<>>
        /\ UNCHANGED <<procs, info, tempdata, spoilt>>
    BY <1>2 DEF SessionEnds
  <2>2. ComingIsRest' /\ InfoIsWhole'
    BY <2>1 DEF ComingIsRest, InfoIsWhole
  <2>3. ~cut' => tempdata' = <<>>
    BY <2>1, Zenon
  <2> QED
    BY <2>1, <2>2, <2>3 DEF BufferGoesOn
<1>3. CASE ProcessInfo
  <2>9. PICK q \in procs : \A j \in 1..Len(coming) : coming[j] = Part(q, Len(coming) + 1 - j)
    BY <1>3 DEF ProcessInfo, ComingIsRest
  <2>10. /\ coming \in Seq(Packet) /\ coming # <<>> /\ coming' = Tail(coming) /\ procs' = procs
         /\ Len(coming) \in Nat /\ Len(coming) >= 1 /\ Len(Tail(coming)) = Len(coming) - 1
         /\ Head(coming) = coming[1] /\ q \in Processes
    BY <1>3 DEF ProcessInfo, TypeOK
  <2>11. Head(coming).idx = q /\ Head(coming).seq = Len(coming)
    BY <2>9, <2>10 DEF Part
  <2>12. ComingIsRest'
    <3>1. SUFFICES ASSUME NEW j \in 1..Len(coming')
                   PROVE  coming'[j] = Part(q, Len(coming') + 1 - j)
      BY <2>10 DEF ComingIsRest
    <3>2. Len(coming') = Len(coming) - 1
      BY <2>10
    <3>3. j \in Nat /\ j + 1 \in 1..Len(coming) /\ Len(coming) + 1 - (j + 1) = Len(coming') + 1 - j
      <4> DEFINE n == Len(coming)
                 m == Len(coming')
      <4>1. n \in Nat /\ m = n - 1 /\ j \in 1..m
        BY <2>10, <3>2
      <4> HIDE DEF n, m
      <4>2. j \in Nat /\ j + 1 \in 1..n /\ n + 1 - (j + 1) = m + 1 - j
        BY <4>1
      <4> QED
        BY <4>2 DEF n, m
    <3>4. coming'[j] = coming[j + 1]
      BY <2>10, <3>2
    <3> QED
      BY <2>9, <3>3, <3>4
  <2>13. CASE cut
    <3>1. CASE Head(coming).seq # 1
      BY <1>3, <2>10, <2>12, <2>13, <3>1 DEF ProcessInfo, BufferGoesOn, InfoIsWhole
    <3>2. CASE Head(coming).seq = 1
      <4>1. /\ tempdata' = <<>> /\ ~cut' /\ spoilt' = spoilt \cup {q}
            /\ \E value : info' = [info EXCEPT ![q] = value]
        BY <1>3, <2>11, <2>13, <3>2 DEF ProcessInfo, EmptyTemp
      <4>2. coming' = <<>>
        <5>1. Len(coming') = 0 /\ coming' \in Seq(Packet)
          BY <2>10, <2>11, <3>2
        <5> QED
          BY <5>1
      <4>3. InfoIsWhole'
        BY <2>10, <4>1 DEF InfoIsWhole, TypeOK
      <4> QED
        BY <2>12, <4>1, <4>2, <4>3 DEF BufferGoesOn
    <3> QED
      BY <3>1, <3>2
  <2>1. SUFFICES ASSUME ~cut
                 PROVE  Whole'
    BY <2>13
  <2>2. PICK i \in procs, k \in 1..MaxParts : Splits(tempdata, coming, i, k)
    BY <1>3, <2>1 DEF ProcessInfo, BufferGoesOn
  <2> DEFINE p == Head(coming)
             whole == Append(tempdata, p)
             rest == Tail(coming)
  <2>3. MaxParts \in Nat /\ i \in Processes /\ coming # <<>>
    BY <1>3, ProcessViewAssumption DEF TypeOK, ProcessInfo
  <2>4. Splits(whole, rest, i, k)
    <3>1. Len(whole) = Len(tempdata) + 1 /\ Len(rest) = Len(coming) - 1 /\ Len(coming) \in Nat
      BY <2>3 DEF TypeOK
    <3>2. \A j \in 1..Len(whole) : whole[j] = Part(i, k + 1 - j)
      <4>1. coming \in Seq(Packet) /\ p = coming[1] /\ 1 \in 1..Len(coming) /\ p \in Packet
        BY <2>3 DEF TypeOK
      <4>2. /\ whole[Len(tempdata) + 1] = p
            /\ \A j \in 1..Len(tempdata) : whole[j] = tempdata[j]
            /\ Len(tempdata) \in Nat
        BY <4>1, AppendFacts DEF TypeOK
      <4>3. \A j \in 1..Len(whole) : j \in 1..Len(tempdata) \/ j = Len(tempdata) + 1
        BY <3>1, <4>2
      <4> QED
        BY <2>2, <4>1, <4>2, <4>3 DEF Splits
    <3>3. \A j \in 1..Len(rest) : rest[j] = Part(i, k + 1 - (Len(whole) + j))
      <4>1. TAKE j \in 1..Len(rest)
      <4>2. rest[j] = coming[j + 1] /\ j + 1 \in 1..Len(coming)
        BY <2>3, <3>1 DEF TypeOK
      <4>3. Len(tempdata) + (j + 1) = Len(whole) + j
        BY <3>1 DEF TypeOK
      <4> QED
        BY <2>2, <4>2, <4>3 DEF Splits
    <3> QED
      BY <2>2, <2>3, <3>1, <3>2, <3>3, SMTT(40) DEF Splits, TypeOK
  <2>5. /\ p = Part(i, k + 1 - Len(whole))
        /\ p.idx = i /\ p.seq = k + 1 - Len(whole)
        /\ Len(whole) \in Nat /\ Len(rest) \in Nat /\ Len(whole) + Len(rest) = k
        /\ rest \in Seq(Packet) /\ whole \in Seq(Packet)
    <3>1. coming \in Seq(Packet) /\ p = coming[1] /\ 1 \in 1..Len(coming) /\ p \in Packet
      BY <2>3 DEF TypeOK
    <3>2. whole \in Seq(Packet) /\ rest \in Seq(Packet) /\ Len(whole) = Len(tempdata) + 1
      BY <3>1, AppendFacts DEF TypeOK
    <3>3. p = Part(i, k + 1 - Len(whole))
      BY <2>2, <3>1, <3>2 DEF Splits
    <3> QED
      BY <2>4, <3>2, <3>3 DEF Splits, Part
  <2>6. coming' = rest /\ ~cut' /\ procs' = procs
    BY <1>3, <2>1, Zenon DEF ProcessInfo
  <2>7. CASE p.seq # 1
    <3>1. tempdata' = whole /\ info' = info /\ spoilt' = spoilt
      BY <1>3, <2>7 DEF ProcessInfo
    <3>2. rest # <<>>
      <4> HIDE DEF whole, rest
      <4>1. k \in Nat /\ Len(whole) # k
        BY <2>3, <2>5, <2>7
      <4>2. Len(rest) # 0
        BY <2>5, <4>1
      <4> QED
        BY <4>2
    <3>3. BufferGoesOn'
      BY <2>4, <2>6, <3>1, <3>2 DEF BufferGoesOn
    <3> QED
      BY <2>6, <2>12, <3>1, <3>3 DEF InfoIsWhole
  <2>8. CASE p.seq = 1
    <3>1. /\ tempdata' = <<>> /\ info' = [info EXCEPT ![i] = whole]
          /\ spoilt' = spoilt \ {i}
      BY <1>3, <2>1, <2>5, <2>8 DEF ProcessInfo, EmptyTemp
    <3>2. Len(whole) = k /\ rest = <<>>
      BY <2>3, <2>5, <2>8
    <3>3. whole = Information(i, k)
      <4>1. /\ Information(i, k) \in Seq(Packet) /\ Len(Information(i, k)) = k
            /\ \A j \in 1..k : Information(i, k)[j] = whole[j]
        BY <2>3, <2>4, <3>2, InformationType DEF Splits
      <4> QED
        BY <2>5, <3>2, <4>1
    <3>4. InfoIsWhole'
      BY <2>1, <2>3, <2>6, <3>1, <3>2, <3>3 DEF InfoIsWhole, TypeOK
    <3> QED
      BY <2>6, <2>12, <3>1, <3>2, <3>4 DEF BufferGoesOn
  <2> QED
    BY <2>7, <2>8
<1>4. ASSUME NEW i \in Processes, Authorized(i)
      PROVE  Whole'
  <2>1. /\ procs' = procs \cup {i} /\ info' = [info EXCEPT ![i] = <<>>]
        /\ UNCHANGED <<tempdata, coming, cut, spoilt>> /\ coming = <<>>
    BY <1>4 DEF Authorized, Quiet
  <2> QED
    BY <2>1 DEF ComingIsRest, BufferGoesOn, InfoIsWhole, TypeOK
<1>5. ASSUME NEW i \in Processes, NEW k \in 1..MaxParts, ServerSendsInfo(i, k)
      PROVE  Whole'
  <2>1. /\ UNCHANGED <<procs, info, tempdata, cut, spoilt>>
        /\ i \in procs /\ coming = <<>> /\ coming' = Information(i, k)
    BY <1>5 DEF ServerSendsInfo, Quiet
  <2>2. MaxParts \in Nat
    BY ProcessViewAssumption
  <2>3. ~cut => tempdata = <<>>
    BY <2>1 DEF BufferGoesOn
  <2>4. coming' # <<>> /\ Splits(<<>>, coming', i, k)
    BY <2>1, <2>2, InformationType DEF Splits
  <2>5. ComingIsRest'
    <3>1. /\ Len(Information(i, k)) = k
          /\ \A j \in 1..k : Information(i, k)[j] = Part(i, k + 1 - j)
      BY InformationType
    <3>2. Len(coming') = k /\ \A j \in 1..k : coming'[j] = Part(i, k + 1 - j)
      BY <2>1, <3>1
    <3> QED
      BY <2>1, <3>2 DEF ComingIsRest
  <2> QED
    BY <2>1, <2>3, <2>4, <2>5 DEF BufferGoesOn, InfoIsWhole
<1>6. ASSUME NEW i \in Processes, NEW on \in BOOLEAN, Maintenance(i, on)
      PROVE  Whole'
  BY <1>6, OthersInformation DEF Maintenance
<1> QED
  BY <1>1, <1>2, <1>3, <1>4, <1>5, <1>6
--------------------------------------------------------------------------------
(* The theorems.                                                            *)

\* The invariant is inductive.
THEOREM InductiveInvariant == Spec => []Inv
<1>1. Init => Inv
  <2> SUFFICES ASSUME Init PROVE Inv
    OBVIOUS
  <2>1. TypeOK
    <3>1. <<>> \in Seq(Packet) /\ <<>> \in Seq(Processes)
      OBVIOUS
    <3>2. info \in [Processes -> Seq(Packet)] /\ maintenance \in [Processes -> BOOLEAN]
      BY <3>1 DEF Init
    <3> QED
      BY <3>1, <3>2 DEF Init, TypeOK
  <2>2. Consoles = {}
    BY DEF Init, Consoles
  <2> QED
    BY <2>1, <2>2 DEF Init, Inv, Widgets, Whole, ComingIsKnown, RowsArePages, OneConsoleShown,
        CommandsToShown, SelectedIsShown, CheckTellsMode, ComingIsRest, BufferGoesOn, InfoIsWhole
<1>2. Inv /\ [Next]_vars => Inv'
  <2> SUFFICES ASSUME Inv, [Next]_vars PROVE Inv'
    OBVIOUS
  <2>1. TypeOK /\ Widgets /\ Whole /\ RowsArePages /\ ComingIsKnown
    BY DEF Inv, Widgets
  <2>2. CASE \/ OnSocketConnected \/ SessionEnds \/ ProcessInfo
             \/ \E i \in Processes :
                   \/ Authorized(i)
                   \/ \E k \in 1..MaxParts : ServerSendsInfo(i, k)
                   \/ \E on \in BOOLEAN : Maintenance(i, on)
    BY <2>1, <2>2, SessionType, SessionWidgets, SessionInformation DEF Inv
  <2>3. CASE \/ \E k \in 1..Len(rows) : OnProcessSelected(k)
             \/ \E t \in OtherTabs \cup Processes : ClickTab(t)
             \/ OnProcessMaintenance \/ OnConsoleSave
    <3>1. UNCHANGED <<procs, info, tempdata, coming, cut, spoilt>>
      BY <2>3 DEF OnProcessSelected, ClickTab, OnProcessMaintenance, OnConsoleSave
    <3> QED
      BY <2>1, <2>3, <3>1, UserType, UserWidgets, OthersInformation DEF Inv
  <2>4. CASE UNCHANGED vars
    BY <2>1, <2>4 DEF vars, Inv, TypeOK, Widgets, Whole, ComingIsKnown, RowsArePages,
        OneConsoleShown, CommandsToShown, SelectedIsShown, CheckTellsMode, ComingIsRest,
        BufferGoesOn, InfoIsWhole, Consoles
  <2> QED
    BY <2>2, <2>3, <2>4 DEF Next
<1> QED
  BY <1>1, <1>2, PTL DEF Spec

\* Types: every variable stays in its set.
THEOREM TypesHold == Spec => []TypeOK
<1>1. Inv => TypeOK
  BY DEF Inv
<1> QED
  BY <1>1, InductiveInvariant, PTL

\* In every session the rows of the list and the console pages are the same processes in the
\* same order, none twice: the page OnProcessSelected selects is the one of the process that
\* was clicked.
THEOREM RowsAgreeWithPages == Spec => []RowsArePages
<1>1. Inv => RowsArePages
  BY DEF Inv, Widgets
<1> QED
  BY <1>1, InductiveInvariant, PTL

\* Whatever the session brings while the user selects, no second console is visible.
THEOREM OneConsole == Spec => []OneConsoleShown
<1>1. Inv => OneConsoleShown
  BY DEF Inv, Widgets
<1> QED
  BY <1>1, InductiveInvariant, PTL

\* The Process menu's commands, which OnProcessStart and the others send to the process of
\* the selected page, go to the process selected last.
THEOREM CommandsGoToShown == Spec => []CommandsToShown
<1>1. Inv => CommandsToShown
  BY DEF Inv, Widgets
<1> QED
  BY <1>1, InductiveInvariant, PTL

\* Session::ProcessInfo joins the packets of one information with those of no other, but for
\* the first information completed after a session was cut in the middle of one.
THEOREM InformationIsWhole == Spec => []InfoIsWhole
<1>1. Inv => InfoIsWhole
  BY DEF Inv, Whole
<1> QED
  BY <1>1, InductiveInvariant, PTL

\* The check of the maintenance item is the mode of the process selected last, from each time
\* it is set from a mode until the user or a process without a row changes it.
THEOREM CheckIsMode == Spec => []CheckTellsMode
<1>1. Inv => CheckTellsMode
  BY DEF Inv, Widgets
<1> QED
  BY <1>1, InductiveInvariant, PTL
--------------------------------------------------------------------------------
(* The process that was deleted.                                            *)

\* ProcessShown is left behind only by a second connection, so in the first session every
\* use of it is a use of a process that exists.
DeletedByReconnection ==
    /\ sessions \in Nat
    /\ online \/ procs # {} \/ processShown # None => sessions > 0
    /\ deleted => sessions > 1
    /\ crashed => deleted

\* A deleted process is used, by OnConsoleSave, only after a second connection: what
\* SavedConsoleExists says holds in the first session.
THEOREM FirstSessionIsSafe == Spec => [](sessions < 2 => SavedConsoleExists)
<1>1. Init => DeletedByReconnection
  BY DEF Init, DeletedByReconnection
<1>2. Inv /\ DeletedByReconnection /\ [Next]_vars => DeletedByReconnection'
  <2> SUFFICES ASSUME Inv, DeletedByReconnection, [Next]_vars
               PROVE  DeletedByReconnection'
    OBVIOUS
  <2> USE DEF DeletedByReconnection
  <2>1. CASE OnSocketConnected
    <3>1. /\ sessions' = sessions + 1 /\ online' /\ procs' = {} /\ processShown' = processShown
          /\ ~crashed'
      BY <2>1 DEF OnSocketConnected
    <3>2. deleted' => processShown # None
      BY <2>1, Zenon DEF OnSocketConnected
    <3> QED
      BY <3>1, <3>2
  <2>2. CASE SessionEnds
    BY <2>2 DEF SessionEnds
  <2>3. CASE ProcessInfo
    BY <2>3 DEF ProcessInfo
  <2>4. ASSUME NEW i \in Processes, Authorized(i)
        PROVE  DeletedByReconnection'
    BY <2>4 DEF Authorized, Quiet
  <2>5. ASSUME NEW i \in Processes, NEW k \in 1..MaxParts, ServerSendsInfo(i, k)
        PROVE  DeletedByReconnection'
    BY <2>5 DEF ServerSendsInfo
  <2>6. ASSUME NEW i \in Processes, NEW on \in BOOLEAN, Maintenance(i, on)
        PROVE  DeletedByReconnection'
    BY <2>6 DEF Maintenance
  <2>7. ASSUME NEW k \in 1..Len(rows), OnProcessSelected(k)
        PROVE  DeletedByReconnection'
    <3>1. rows[k] \in procs
      BY DEF Inv, Widgets, RowsArePages
    <3> QED
      BY <2>7, <3>1 DEF OnProcessSelected
  <2>8. ASSUME NEW t \in OtherTabs \cup Processes, ClickTab(t)
        PROVE  DeletedByReconnection'
    BY <2>8 DEF ClickTab
  <2>9. CASE OnProcessMaintenance
    BY <2>9 DEF OnProcessMaintenance
  <2>10. CASE OnConsoleSave
    BY <2>10 DEF OnConsoleSave
  <2>11. CASE UNCHANGED vars
    BY <2>11 DEF vars
  <2> QED
    BY <2>1, <2>2, <2>3, <2>4, <2>5, <2>6, <2>7, <2>8, <2>9, <2>10, <2>11 DEF Next
<1>3. DeletedByReconnection => (sessions < 2 => SavedConsoleExists)
  BY DEF DeletedByReconnection, SavedConsoleExists
<1> QED
  BY <1>1, <1>2, <1>3, InductiveInvariant, PTL DEF Spec
================================================================================
