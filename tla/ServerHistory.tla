----------------------------- MODULE ServerHistory -----------------------------
(***************************************************************************)
(* The servers the login dialog offers, kept by MainWindow::OnConnect under*)
(* the configuration keys /Login/Server1 .. /Login/Server5.  Each accepted *)
(* login rewrites them in two loops: the first erases the entries equal to *)
(* what the user typed, the second moves entries down by one key, from the *)
(* last erased key up to the first.  The session is then opened with the    *)
(* address and the port that the dialog finds in the same text.             *)
(***************************************************************************)
EXTENDS LoginDialog, Selections

CONSTANT Addresses   \* the addresses the user may mean

\* Their hosts are not empty, and the brackets and the colon before the port are not part
\* of what the user means.
ASSUME AddressesAssumption ==
    \A address \in Addresses :
        /\ address = Address(address.host, address.port)
        /\ address.host \in Seq(STRING) /\ address.host # <<>>
        /\ address.port \in Seq(STRING)
        /\ \A i \in DOMAIN address.host : address.host[i] \notin {"[", "]"}
        /\ \A i \in DOMAIN address.port : address.port[i] \notin {":", "[", "]"}

Inputs == {Written(address) : address \in Addresses}

Keys == 1..5
None == <<>>

VARIABLES
    server,   \* the value of each key
    opened,   \* the address and the port of the Network object
    \* history
    meant     \* the address the user had in mind at the last login

vars == <<server, opened, meant>>

NoAddress == Address(<<>>, <<>>)

Init == server = [i \in Keys |-> None] /\ opened = NoAddress /\ meant = NoAddress

\* The first loop: every key that holds the input is emptied.
Erased(input) == [i \in Keys |-> IF server[i] = input THEN None ELSE server[i]]

\* Faulty variant of Repeated: the first key that held the input instead of the last.
RepeatedFirst(input) ==
    LET found == {i \in Keys : server[i] = input}
    IN  IF found = {} THEN 1 ELSE CHOOSE i \in found : \A j \in found : i <= j

\* The variable repeated after the first loop: the last key that held the input, or 5.
Repeated(input) ==
    LET found == {i \in Keys : server[i] = input}
    IN  IF found = {} THEN 5 ELSE CHOOSE i \in found : \A j \in found : j <= i

\* The second loop goes downwards, so that it reads each key before it writes it; an empty
\* value is never written.
Shifted(values, input, repeated) ==
    LET previous(i) == IF i > 1 THEN values[i - 1] ELSE input
    IN  [i \in Keys |->
            IF i <= repeated /\ previous(i) # None THEN previous(i) ELSE values[i]]

OnConnect(input) == server' = Shifted(Erased(input), input, Repeated(input))

\* The rest of OnConnect: Network takes what GetServer and GetPort return.
OpenSession(input) == opened' = Address(GetServer(input), GetPort(input))

Login(address) ==
    /\ OnConnect(Written(address))
    /\ OpenSession(Written(address))
    /\ meant' = address

Next == \E address \in Addresses : Login(address)

Spec == Init /\ [][Next]_vars
--------------------------------------------------------------------------------
(* Properties.                                                              *)

\* The entries the dialog shows: the keys that are not empty, in order.
Offered == Selected(server, {i \in Keys : server[i] # None})

\* The keys implement the list of the last servers used.
Abstract == INSTANCE RecentServers
                WITH Servers <- Inputs, Capacity <- 5, recent <- Offered

\* The history the dialog offers is the list of the last servers used, whatever the order of
\* the logins: the two loops lose none of them but the oldest and double none.
ImplementsRecent == Abstract!Spec

\* The session is opened with the host and the port the user meant, for names and IPv4
\* addresses, and for IPv6 addresses in brackets, with a port or without.
AddressIsMeant == opened = meant
================================================================================
