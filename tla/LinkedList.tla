------------------------------- MODULE LinkedList ------------------------------
(***************************************************************************)
(* The template List, which holds the packets of both queues of Network and *)
(* the processes of the session: nodes with pointers both ways, a pointer   *)
(* to each end and a count.  A node that was deleted stays in the model, so *)
(* that a step that reads it is seen; such a step, or one that follows a    *)
(* null pointer, ends the program.                                          *)
(***************************************************************************)
EXTENDS Naturals, Sequences, SequencesExt

CONSTANTS
    Values,     \* what the list holds
    NoValue,    \* the null pointer that Find returns
    MaxNodes    \* bound: nodes ever allocated

ASSUME LinkedListAssumption == MaxNodes \in Nat /\ NoValue \notin Values

NULL == 0

VARIABLES
    node,        \* the nodes allocated so far, by address
    first, last, \* First and Last
    count,       \* Count
    result,      \* what the last operation that returns a value returned
    fault,       \* what ended the program, or "none"
    \* history
    cleared      \* the last operation that changed the list was Clear

vars == <<node, first, last, count, result, fault, cleared>>

Node(data, prev, next) == [data |-> data, prev |-> prev, next |-> next, deleted |-> FALSE]

Init ==
    /\ node = <<>> /\ first = NULL /\ last = NULL /\ count = 0
    /\ result = NoValue /\ fault = "none" /\ cleared = FALSE

Nexts == [address \in DOMAIN node |-> node[address].next]
Prevs == [address \in DOMAIN node |-> node[address].prev]

\* A loop starts at a node, or at a null pointer, and follows the links to a null pointer.
Follows(path, start, links) ==
    IF path = <<>> THEN start = NULL
    ELSE /\ path[1] = start
         /\ \A i \in 1..Len(path) :
                links[path[i]] = IF i < Len(path) THEN path[i + 1] ELSE NULL

\* The nodes the loop visits.
Path(start, links) ==
    CHOOSE path \in SeqOf(DOMAIN links, Len(links)) : Follows(path, start, links)

Chain == Path(first, Nexts)

\* The first place of the chain whose data equals d, or one past its end.
PlaceOf(d) ==
    LET found == {i \in 1..Len(Chain) : node[Chain[i]].data = d}
    IN  IF found = {} THEN Len(Chain) + 1 ELSE CHOOSE i \in found : \A j \in found : i <= j

Deleted(address) == node[address].deleted

\* Reading First, or any node up to a place of the chain, is a fault if it was deleted.
FaultyUpTo(place) == \E i \in 1..Len(Chain) : i <= place /\ Deleted(Chain[i])

Fails(what) == fault' = what /\ UNCHANGED <<node, first, last, count, result, cleared>>
--------------------------------------------------------------------------------
AddAtStart(d) ==
    /\ node' = Append([node EXCEPT ![first].prev = Len(node) + 1], Node(d, NULL, first))
    /\ first' = Len(node) + 1
    /\ last' = last

AddAtEnd(d) ==
    /\ node' = Append([node EXCEPT ![last].next = Len(node) + 1], Node(d, last, NULL))
    /\ last' = Len(node) + 1
    /\ first' = first

\* Faulty variant of AddToEmpty: First is set only if it is null.
AddToEmptyKept(d) ==
    /\ node' = Append(node, Node(d, NULL, NULL))
    /\ first' = IF first = NULL THEN Len(node) + 1 ELSE first
    /\ last' = Len(node) + 1

AddToEmpty(d) ==
    /\ node' = Append(node, Node(d, NULL, NULL))
    /\ first' = Len(node) + 1
    /\ last' = Len(node) + 1

\* Both overloads of Add, and operator<<, which adds at the end.
Add(d, atStart) ==
    /\ Len(node) < MaxNodes
    /\ IF first # NULL /\ last # NULL
       THEN IF atStart THEN AddAtStart(d) ELSE AddAtEnd(d)
       ELSE AddToEmpty(d)
    /\ count' = count + 1
    /\ cleared' = FALSE
    /\ UNCHANGED <<result, fault>>

\* The node is not deleted: its data goes to the caller and nothing points to it any more.
ExtractFirst ==
    IF first = NULL THEN Fails("null pointer")
    ELSE IF Deleted(first) THEN Fails("deleted node")
    ELSE LET next == node[first].next
         IN  /\ first' = next
             /\ IF next # NULL
                THEN node' = [node EXCEPT ![next].prev = NULL] /\ last' = last
                ELSE last' = NULL /\ node' = node
             /\ count' = count - 1
             /\ result' = node[first].data
             /\ cleared' = FALSE
             /\ UNCHANGED fault

\* Faulty variant of ExtractLast: First still points to the node that was taken out.
ExtractLastKept ==
    IF last = NULL THEN Fails("null pointer")
    ELSE LET prev == node[last].prev
         IN  /\ last' = prev
             /\ node' = IF prev # NULL THEN [node EXCEPT ![prev].next = NULL] ELSE node
             /\ first' = first
             /\ count' = count - 1
             /\ result' = node[last].data
             /\ cleared' = FALSE
             /\ UNCHANGED fault

ExtractLast ==
    IF last = NULL THEN Fails("null pointer")
    ELSE LET prev == node[last].prev
         IN  /\ last' = prev
             /\ IF prev # NULL
                THEN node' = [node EXCEPT ![prev].next = NULL] /\ first' = first
                ELSE first' = NULL /\ node' = node
             /\ count' = count - 1
             /\ result' = node[last].data
             /\ cleared' = FALSE
             /\ UNCHANGED fault

Find(d) ==
    IF FaultyUpTo(PlaceOf(d)) THEN Fails("deleted node")
    ELSE /\ result' = IF PlaceOf(d) <= Len(Chain) THEN d ELSE NoValue
         /\ UNCHANGED <<node, first, last, count, fault, cleared>>

\* The links around a node that goes away.
Unlink(a) ==
    LET prev == node[a].prev
        next == node[a].next
    IN  /\ node' = [i \in 1..Len(node) |->
                       [node[i] EXCEPT !.next = IF i = prev THEN next ELSE @,
                                       !.prev = IF i = next THEN prev ELSE @,
                                       !.deleted = (i = a) \/ @]]
        /\ first' = IF prev = NULL THEN next ELSE first
        /\ last' = IF next = NULL THEN prev ELSE last

\* Both overloads of Remove.  Without a break the loop goes on at Temp->Next of the node it
\* has just deleted.
RemoveEqual(d, repeat) ==
    IF FaultyUpTo(PlaceOf(d)) THEN Fails("deleted node")
    ELSE IF PlaceOf(d) > Len(Chain) THEN UNCHANGED vars
    ELSE IF repeat THEN Fails("deleted node")
    ELSE /\ Unlink(Chain[PlaceOf(d)])
         /\ count' = count - 1
         /\ cleared' = FALSE
         /\ UNCHANGED <<result, fault>>

\* Index and operator[], which count from 0; past the end they follow a null pointer.
Index(n) ==
    IF FaultyUpTo(n + 1) THEN Fails("deleted node")
    ELSE IF n + 1 > Len(Chain) THEN Fails("null pointer")
    ELSE /\ result' = node[Chain[n + 1]].data
         /\ UNCHANGED <<node, first, last, count, fault, cleared>>

\* Clear goes from Last to its Prev, deletes each node and leaves First as it was.
Clear ==
    LET visited == Path(last, Prevs)
    IN  /\ node' = [a \in 1..Len(node) |->
                       [node[a] EXCEPT !.deleted = @ \/ Contains(visited, a)]]
        /\ last' = NULL
        /\ count' = count - Len(visited)
        /\ fault' = IF count = Len(visited) THEN "none" ELSE "assertion"
        /\ cleared' = TRUE
        /\ UNCHANGED <<first, result>>

\* The program has ended, or every operation of the bound was used.
Stop == (fault # "none" \/ Len(node) = MaxNodes) /\ UNCHANGED vars

Running == fault = "none"

Next ==
    \/ /\ Running
       /\ \/ \E d \in Values, atStart \in BOOLEAN : Add(d, atStart)
          \/ ExtractFirst
          \/ ExtractLast
          \/ \E d \in Values : Find(d)
          \/ \E d \in Values, repeat \in BOOLEAN : RemoveEqual(d, repeat)
          \/ \E n \in 0..MaxNodes : Index(n)
          \/ Clear
    \/ Stop

Spec == Init /\ [][Next]_vars
--------------------------------------------------------------------------------
(* Properties.                                                              *)

\* The values of the list: those of the nodes from First on, unless it was cleared.
Items == IF last = NULL THEN <<>> ELSE [i \in 1..Len(Chain) |-> node[Chain[i]].data]

Abstract == INSTANCE ValueList WITH items <- Items

\* As long as the program runs, the list is a sequence of values: the operations put, take,
\* find, delete and read what those of a sequence do, in any order of calls.
ImplementsSequence == Abstract!Spec

\* The two ways of links agree, both ends are where the links end, the count is the number
\* of nodes, and none of them was deleted.
WellLinked ==
    last # NULL =>
        /\ Len(Chain) > 0 /\ Last(Chain) = last /\ count = Len(Chain)
        /\ node[first].prev = NULL
        /\ \A i \in 1..(Len(Chain) - 1) : node[Chain[i + 1]].prev = Chain[i]
        /\ \A i \in 1..Len(Chain) : ~Deleted(Chain[i])

\* A caller that removes one value at a time, stays within the count and, after Clear, adds
\* a value before anything else never reaches a deleted node or a null pointer.
LegalCallsAreSafe ==
    [][fault' # "none" /\ Running =>
          \/ cleared
          \/ count = 0
          \/ \E d \in Values : Contains(Items, d) /\ RemoveEqual(d, TRUE)
          \/ \E n \in count..MaxNodes : Index(n)]_vars
================================================================================
