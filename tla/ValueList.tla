------------------------------- MODULE ValueList -------------------------------
(***************************************************************************)
(* What a user of List expects: a sequence of values, with a result for the *)
(* operations that return one.  Nothing is said of calls that a list cannot *)
(* answer, such as taking a value out of an empty one.                      *)
(***************************************************************************)
EXTENDS Naturals, Sequences, SequencesExt

CONSTANTS Values, NoValue

VARIABLES items, result

Init == items = <<>> /\ result = NoValue

Put(d) == items' \in {Append(items, d), <<d>> \o items} /\ result' = result

TakeFirst == items # <<>> /\ result' = Head(items) /\ items' = Tail(items)

TakeLast == items # <<>> /\ result' = Last(items) /\ items' = Front(items)

LookUp(d) == result' = (IF Contains(items, d) THEN d ELSE NoValue) /\ items' = items

DeleteFirst(d) ==
    /\ \/ ~Contains(items, d) /\ items' = items
       \/ \E i \in 1..Len(items) :
              /\ items[i] = d /\ \A j \in 1..(i - 1) : items[j] # d
              /\ items' = RemoveAt(items, i)
    /\ result' = result

Read(n) == n \in 1..Len(items) /\ result' = items[n] /\ items' = items

Empty == items' = <<>> /\ result' = result

Next ==
    \/ \E d \in Values : Put(d) \/ LookUp(d) \/ DeleteFirst(d)
    \/ TakeFirst \/ TakeLast \/ Empty
    \/ \E n \in 1..Len(items) : Read(n)

Spec == Init /\ [][Next]_<<items, result>>
================================================================================
