--------------------------- MODULE LinkedListProofs ---------------------------
(***************************************************************************)
(* Proofs about LinkedList, for any number of nodes and any values: the     *)
(* nodes of the list are a path from First to Last, and what an operation   *)
(* does to the links it does to the sequence of the values on that path.    *)
(***************************************************************************)
EXTENDS LinkedList, SelectionsProofs

Nodes == [data : Values, prev : Nat, next : Nat, deleted : BOOLEAN]

TypeOK ==
    /\ node \in Seq(Nodes) /\ first \in Nat /\ last \in Nat /\ count \in Nat
    /\ cleared \in BOOLEAN

\* Links that lead nowhere else than to nodes make one path at most.
LEMMA OnePath ==
    ASSUME NEW S, NULL \notin S, NEW start, NEW links,
           NEW c \in Seq(S), NEW d \in Seq(S), Len(c) <= Len(d),
           Follows(c, start, links), Follows(d, start, links)
    PROVE  c = d
<1>1. PICK n, m : n = Len(c) /\ m = Len(d)
  OBVIOUS
<1>2. n \in Nat /\ m \in Nat /\ n <= m /\ (c = <<>> <=> n = 0) /\ (d = <<>> <=> m = 0)
  BY <1>1
<1>3. CASE n = 0
  <2>1. start = NULL
    BY <1>2, <1>3 DEF Follows
  <2>2. m = 0
    <3> SUFFICES ASSUME m # 0 PROVE FALSE
      OBVIOUS
    <3>1. d[1] = start /\ d[1] \in S
      BY <1>1, <1>2 DEF Follows
    <3> QED
      BY <2>1, <3>1
  <2> QED
    BY <1>2, <1>3, <2>2
<1>4. CASE n # 0
  <2>1. /\ c[1] = start /\ d[1] = start
        /\ \A i \in 1..n : links[c[i]] = IF i < n THEN c[i + 1] ELSE NULL
        /\ \A i \in 1..m : links[d[i]] = IF i < m THEN d[i + 1] ELSE NULL
    BY <1>1, <1>2, <1>4 DEF Follows
  <2>2. PICK I : I = {i \in Nat : i + 1 \in 1..n => c[i + 1] = d[i + 1]}
    OBVIOUS
  <2>3. 0 \in I
    BY <2>1, <2>2
  <2>4. ASSUME NEW i \in Nat, i \in I PROVE i + 1 \in I
    <3> SUFFICES ASSUME (i + 1) + 1 \in 1..n PROVE c[(i + 1) + 1] = d[(i + 1) + 1]
      BY <2>2
    <3>1. PICK k : k = i + 1
      OBVIOUS
    <3>2. k \in 1..n /\ k < n /\ k < m /\ k \in 1..m
      BY <1>2, <3>1
    <3>3. c[k] = d[k]
      BY <2>2, <2>4, <3>1, <3>2
    <3>4. links[c[k]] = c[k + 1] /\ links[d[k]] = d[k + 1]
      BY <2>1, <3>2
    <3> QED
      BY <3>1, <3>3, <3>4
  <2>5. Nat \subseteq I
    BY <2>3, <2>4, Induction
  <2>6. \A i \in 1..n : c[i] = d[i]
    <3> TAKE i \in 1..n
    <3>1. PICK k : k = i - 1
      OBVIOUS
    <3>2. k \in Nat /\ i = k + 1
      BY <1>2, <3>1
    <3> QED
      BY <2>2, <2>5, <3>2
  <2>7. n = m
    <3> SUFFICES ASSUME n < m PROVE FALSE
      BY <1>2
    <3>1. n \in 1..n /\ n \in 1..m /\ n + 1 \in 1..m
      BY <1>2, <1>4
    <3>2. links[c[n]] = NULL /\ links[d[n]] = d[n + 1] /\ c[n] = d[n]
      BY <1>2, <2>1, <2>6, <3>1
    <3>3. d[n + 1] \in S
      BY <1>1, <3>1
    <3> QED
      BY <3>2, <3>3
  <2> QED
    BY <1>1, <2>6, <2>7, SameElements
<1> QED
  BY <1>3, <1>4

\* So the path a loop takes is any one that can be given.
LEMMA PathIs ==
    ASSUME NEW n \in Nat, NEW start, NEW links, Len(links) = n, DOMAIN links = 1..n,
           NEW c \in Seq(1..n), Len(c) <= n, Follows(c, start, links)
    PROVE  Path(start, links) = c
<1>1. PICK P : P = SeqOf(DOMAIN links, Len(links))
  OBVIOUS
<1>2. \A d : d \in P <=> d \in Seq(1..n) /\ Len(d) <= n
  <2>1. \A d : d \in P <=> \E m \in 0..n : d \in [1..m -> 1..n]
    BY <1>1 DEF SeqOf
  <2>2. ASSUME NEW d, NEW m \in 0..n, d \in [1..m -> 1..n] PROVE d \in Seq(1..n) /\ Len(d) <= n
    BY <2>2
  <2>3. ASSUME NEW d, d \in Seq(1..n), Len(d) <= n PROVE \E m \in 0..n : d \in [1..m -> 1..n]
    <3>1. Len(d) \in 0..n /\ d \in [1..Len(d) -> 1..n]
      BY <2>3
    <3> QED
      BY <3>1
  <2> QED
    BY <2>1, <2>2, <2>3
<1>3. c \in P
  BY <1>2
<1>4. PICK d : d = Path(start, links)
  OBVIOUS
<1>5. d \in P /\ Follows(d, start, links)
  BY <1>1, <1>3, <1>4 DEF Path
<1>6. d \in Seq(1..n) /\ NULL \notin 1..n
  BY <1>2, <1>5 DEF NULL
<1>7. Len(c) <= Len(d) \/ Len(d) <= Len(c)
  BY <1>6
<1> QED
  BY <1>4, <1>5, <1>6, <1>7, OnePath

\* A sequence, by its elements.
LEMMA NarrowerSeq ==
    ASSUME NEW S, NEW T, NEW c \in Seq(T), \A i \in 1..Len(c) : c[i] \in S
    PROVE  c \in Seq(S) /\ Len(c) \in Nat /\ (c = <<>> <=> Len(c) = 0)
<1>1. PICK m \in Nat : m = Len(c) /\ DOMAIN c = 1..m
  OBVIOUS
<1>2. c \in [1..m -> S]
  BY <1>1
<1> QED
  BY <1>1, <1>2

\* c is the path of the nodes n from f on.
Leads(c, n, f) ==
    /\ c \in Seq(Nat) /\ Len(c) <= Len(n) /\ \A i \in 1..Len(c) : c[i] \in 1..Len(n)
    /\ f = IF Len(c) = 0 THEN NULL ELSE c[1]
    /\ \A i \in 1..Len(c) : n[c[i]].next = IF i < Len(c) THEN c[i + 1] ELSE NULL

\* It ends at l, the links back agree with it, and none of its nodes was deleted.
Linked(c, n, f, l) ==
    /\ Leads(c, n, f)
    /\ l = IF Len(c) = 0 THEN NULL ELSE c[Len(c)]
    /\ \A i, j \in 1..Len(c) : c[i] = c[j] => i = j
    /\ \A i \in 1..Len(c) : /\ ~n[c[i]].deleted
                            /\ n[c[i]].prev = IF 1 < i THEN c[i - 1] ELSE NULL

\* After Clear, First still points to a path of nodes, the first of them deleted.
Stale(c) ==
    /\ Leads(c, node, first) /\ last = NULL /\ count = 0
    /\ Len(c) > 0 => Deleted(c[1])

Holds(c) == IF cleared THEN Stale(c) ELSE Linked(c, node, first, last) /\ count = Len(c)

Inv == TypeOK /\ \E c : Holds(c)

LEMMA LoopForward ==
    ASSUME NEW n \in Seq(Nodes), NEW f, NEW c, Leads(c, n, f)
    PROVE  Path(f, [a \in DOMAIN n |-> n[a].next]) = c
<1>1. PICK k, m, links : k = Len(n) /\ m = Len(c) /\ links = [a \in DOMAIN n |-> n[a].next]
  OBVIOUS
<1>2. /\ k \in Nat /\ DOMAIN n = 1..k /\ DOMAIN links = 1..k /\ Len(links) = k
      /\ \A a \in 1..k : links[a] = n[a].next
  BY <1>1
<1>3. c \in Seq(Nat) /\ m <= k /\ \A i \in 1..m : c[i] \in 1..k
  BY <1>1 DEF Leads
<1>4. c \in Seq(1..k) /\ m \in Nat /\ (c = <<>> <=> m = 0)
  BY <1>1, <1>3, NarrowerSeq
<1>5. Follows(c, f, links)
  <2>1. \A i \in 1..m : links[c[i]] = IF i < m THEN c[i + 1] ELSE NULL
    BY <1>1, <1>2, <1>3 DEF Leads
  <2>2. IF m = 0 THEN f = NULL ELSE f = c[1]
    BY <1>1 DEF Leads
  <2> QED
    BY <1>1, <1>4, <2>1, <2>2 DEF Follows
<1> QED
  BY <1>1, <1>2, <1>3, <1>4, <1>5, PathIs

\* The loop of Clear visits the same nodes, from the last one on.
LEMMA LoopBack ==
    ASSUME NEW n \in Seq(Nodes), NEW f, NEW l, NEW c, Linked(c, n, f, l),
           NEW links, links = [a \in DOMAIN n |-> n[a].prev]
    PROVE  /\ Len(Path(l, links)) = Len(c)
           /\ \A a : Contains(Path(l, links), a) <=> \E i \in 1..Len(c) : c[i] = a
<1>1. PICK k, m : k = Len(n) /\ m = Len(c)
  OBVIOUS
<1>2. /\ k \in Nat /\ DOMAIN n = 1..k /\ DOMAIN links = 1..k /\ Len(links) = k
      /\ \A a \in 1..k : links[a] = n[a].prev
  BY <1>1
<1>3. c \in Seq(Nat) /\ m <= k /\ m \in Nat /\ \A i \in 1..m : c[i] \in 1..k
  BY <1>1 DEF Linked, Leads
<1>4. PICK r : r = [i \in 1..m |-> c[m + 1 - i]]
  OBVIOUS
<1>5. \A i \in 1..m : m + 1 - i \in 1..m /\ r[i] = c[m + 1 - i] /\ r[i] \in 1..k
  BY <1>1, <1>3, <1>4
<1>6. r \in Seq(1..k) /\ Len(r) = m /\ (r = <<>> <=> m = 0)
  <2>1. r \in Seq(1..k)
    BY <1>3, <1>4, <1>5
  <2>2. Len(r) = m
    BY <1>3, <1>4
  <2> QED
    BY <2>1, <2>2
<1>7. Follows(r, l, links)
  <2>1. ASSUME NEW i \in 1..m PROVE links[r[i]] = IF i < m THEN r[i + 1] ELSE NULL
    <3>1. PICK j \in 1..m : j = m + 1 - i /\ r[i] = c[j]
      BY <1>5
    <3>2. links[c[j]] = IF 1 < j THEN c[j - 1] ELSE NULL
      <4>1. n[c[j]].prev = IF 1 < j THEN c[j - 1] ELSE NULL
        BY <1>1 DEF Linked
      <4> QED
        BY <1>2, <1>3, <4>1
    <3>3. i < m => i + 1 \in 1..m /\ m + 1 - (i + 1) = j - 1
      BY <1>3, <3>1
    <3>4. i < m => r[i + 1] = c[j - 1]
      BY <1>5, <3>3
    <3> QED
      BY <1>3, <3>1, <3>2, <3>4
  <2>2. m = 0 => l = NULL
    BY <1>1 DEF Linked
  <2>3. m # 0 => r[1] = l
    BY <1>1, <1>3, <1>5 DEF Linked
  <2> QED
    BY <1>6, <2>1, <2>2, <2>3 DEF Follows
<1>8. Path(l, links) = r
  BY <1>1, <1>2, <1>3, <1>6, <1>7, PathIs
<1>9. \A a : (\E i \in 1..m : r[i] = a) <=> \E i \in 1..m : c[i] = a
  <2>1. \A i \in 1..m : m + 1 - i \in 1..m /\ m + 1 - (m + 1 - i) = i
    BY <1>3
  <2> QED
    BY <1>5, <2>1
<1> QED
  BY <1>1, <1>6, <1>8, <1>9 DEF Contains

--------------------------------------------------------------------------------
(* What the operations do to the links.                                     *)


\* The nodes n2 are those of n with a new one in front of f, or after l.
PutFirst(n, n2, f, d) ==
    /\ n2 \in Seq(Nodes) /\ Len(n2) = Len(n) + 1 /\ n2[Len(n) + 1] = Node(d, NULL, f)
    /\ \A i \in 1..Len(n) :
           n2[i] = IF i = f THEN [n[i] EXCEPT !.prev = Len(n) + 1] ELSE n[i]

PutLast(n, n2, l, d) ==
    /\ n2 \in Seq(Nodes) /\ Len(n2) = Len(n) + 1 /\ n2[Len(n) + 1] = Node(d, l, NULL)
    /\ \A i \in 1..Len(n) :
           n2[i] = IF i = l THEN [n[i] EXCEPT !.next = Len(n) + 1] ELSE n[i]

\* A new node in front of the first one.
LEMMA AddedFirst ==
    ASSUME NEW n \in Seq(Nodes), NEW c, NEW f, NEW l, Linked(c, n, f, l), Len(c) # 0,
           NEW d \in Values, NEW n2, PutFirst(n, n2, f, d), NEW new, new = Len(n) + 1
    PROVE  Linked(<<new>> \o c, n2, new, l)
<1>1. PICK k, m, e : k = Len(n) /\ m = Len(c) /\ e = <<new>> \o c
  OBVIOUS
<1>2. /\ k \in Nat /\ m \in Nat /\ m # 0 /\ new = k + 1 /\ m <= k
      /\ c \in Seq(Nat) /\ \A i \in 1..m : c[i] \in 1..k
      /\ f = c[1] /\ l = c[m] /\ 1 \in 1..m /\ m \in 1..m
  BY <1>1 DEF Linked, Leads
<1>3. /\ e \in Seq(Nat) /\ Len(e) = m + 1 /\ e[1] = new
      /\ \A i \in 1..m : e[i + 1] = c[i]
  BY <1>1, <1>2
<1>4. ASSUME NEW i \in 1..(m + 1), i # 1
      PROVE  \E j \in 1..m : i = j + 1 /\ e[i] = c[j]
  <2>1. i - 1 \in 1..m /\ i = (i - 1) + 1
    BY <1>2, <1>4
  <2>2. e[(i - 1) + 1] = c[i - 1]
    BY <1>3, <2>1
  <2> QED
    BY <2>1, <2>2
<1>5. \A i, j \in 1..(m + 1) : e[i] = e[j] => i = j
  BY <1>1, <1>2, <1>3, <1>4 DEF Linked, Leads
<1>6. ASSUME NEW i \in 1..(m + 1)
      PROVE  /\ ~n2[e[i]].deleted
             /\ n2[e[i]].next = IF i < m + 1 THEN e[i + 1] ELSE NULL
             /\ n2[e[i]].prev = IF 1 < i THEN e[i - 1] ELSE NULL
  <2>1. CASE i = 1
    <3>1. e[1 + 1] = c[1] /\ e[1] = new
      BY <1>2, <1>3
    <3>2. n2[e[i]] = Node(d, NULL, f) /\ e[i + 1] = f
      BY <1>2, <2>1, <3>1 DEF PutFirst
    <3> QED
      BY <1>2, <2>1, <3>2 DEF Node
  <2>2. CASE i # 1
    <3>1. PICK j \in 1..m : i = j + 1 /\ e[i] = c[j]
      BY <1>4, <2>2
    <3>2. PICK a \in 1..k : a = c[j] /\ (a = f <=> j = 1)
      BY <1>1, <1>2 DEF Linked, Leads
    <3>3. n2[a] = IF a = f THEN [n[a] EXCEPT !.prev = new] ELSE n[a]
      BY <1>1, <1>2 DEF PutFirst
    <3>4. n[c[j]] \in Nodes
      BY <1>1, <1>2
    <3>5. /\ n2[c[j]].deleted = n[c[j]].deleted /\ n2[c[j]].next = n[c[j]].next
          /\ n2[c[j]].prev = IF j = 1 THEN new ELSE n[c[j]].prev
      BY <3>2, <3>3, <3>4 DEF Nodes
    <3>6. /\ ~n[c[j]].deleted /\ n[c[j]].next = IF j < m THEN c[j + 1] ELSE NULL
          /\ n[c[j]].prev = IF 1 < j THEN c[j - 1] ELSE NULL
      BY <1>1 DEF Linked, Leads
    <3>7. j < m => e[i + 1] = c[j + 1]
      <4>1. j < m => j + 1 \in 1..m
        BY <1>2
      <4>2. j < m => e[(j + 1) + 1] = c[j + 1]
        BY <1>3, <4>1
      <4> QED
        BY <3>1, <4>2
    <3>8. e[i - 1] = IF j = 1 THEN new ELSE c[j - 1]
      <4>1. i - 1 = j
        BY <3>1
      <4>2. j # 1 => j - 1 \in 1..m /\ (j - 1) + 1 = j
        BY <1>2
      <4>3. j # 1 => e[(j - 1) + 1] = c[j - 1]
        BY <1>3, <4>2
      <4> QED
        BY <1>3, <4>1, <4>2, <4>3
    <3>9. /\ (i < m + 1 <=> j < m) /\ 1 < i /\ (1 < j <=> j # 1)
      BY <1>2, <3>1
    <3> QED
      BY <3>1, <3>5, <3>6, <3>7, <3>8, <3>9
  <2> QED
    BY <2>1, <2>2
<1>7. l = e[m + 1] /\ m + 1 <= new /\ new \in 1..new
  <2>1. m \in 1..m
    BY <1>2
  <2> QED
    BY <1>2, <1>3, <2>1, SMTT(40)
<1>8. \A i \in 1..(m + 1) : e[i] \in 1..new
  <2> TAKE i \in 1..(m + 1)
  <2>1. \A j \in 1..m : c[j] \in 1..new
    BY <1>2
  <2> QED
    BY <1>3, <1>4, <1>7, <2>1
<1>9. m + 1 # 0 /\ m + 1 \in Nat
  BY <1>2
<1>10. Len(n2) = new
  BY DEF PutFirst
<1>11. Leads(e, n2, new)
  <2>1. \A i \in 1..Len(e) : n2[e[i]].next = IF i < Len(e) THEN e[i + 1] ELSE NULL
    BY <1>3, <1>6
  <2>2. new = IF Len(e) = 0 THEN NULL ELSE e[1]
    BY <1>3, <1>7, <1>9
  <2> QED
    BY <1>3, <1>7, <1>8, <1>10, <2>1, <2>2 DEF Leads
<1>12. l = IF Len(e) = 0 THEN NULL ELSE e[Len(e)]
  BY <1>3, <1>7, <1>9
<1>13. \A i \in 1..Len(e) : /\ ~n2[e[i]].deleted
                            /\ n2[e[i]].prev = IF 1 < i THEN e[i - 1] ELSE NULL
  BY <1>3, <1>6
<1>14. Linked(e, n2, new, l)
  BY <1>3, <1>5, <1>11, <1>12, <1>13 DEF Linked
<1> QED
  BY <1>1, <1>14

\* A new node after the last one.
LEMMA AddedLast ==
    ASSUME NEW n \in Seq(Nodes), NEW c, NEW f, NEW l, Linked(c, n, f, l), Len(c) # 0,
           NEW d \in Values, NEW n2, PutLast(n, n2, l, d), NEW new, new = Len(n) + 1
    PROVE  Linked(Append(c, new), n2, f, new)
<1>1. PICK k, m, e : k = Len(n) /\ m = Len(c) /\ e = Append(c, new)
  OBVIOUS
<1>2. /\ k \in Nat /\ m \in Nat /\ m # 0 /\ new = k + 1 /\ m <= k
      /\ c \in Seq(Nat) /\ \A i \in 1..m : c[i] \in 1..k
      /\ f = c[1] /\ l = c[m] /\ 1 \in 1..m /\ m \in 1..m
  BY <1>1 DEF Linked, Leads
<1>3. /\ e \in Seq(Nat) /\ Len(e) = m + 1 /\ e[m + 1] = new
      /\ \A i \in 1..m : e[i] = c[i]
  BY <1>1, <1>2
<1>4. \A i \in 1..(m + 1) : i \in 1..m \/ i = m + 1
  BY <1>2
<1>5. \A i, j \in 1..(m + 1) : e[i] = e[j] => i = j
  BY <1>1, <1>2, <1>3, <1>4 DEF Linked, Leads
<1>6. ASSUME NEW i \in 1..(m + 1)
      PROVE  /\ ~n2[e[i]].deleted
             /\ n2[e[i]].next = IF i < m + 1 THEN e[i + 1] ELSE NULL
             /\ n2[e[i]].prev = IF 1 < i THEN e[i - 1] ELSE NULL
  <2>1. CASE i = m + 1
    <3>1. i - 1 = m /\ m \in 1..m
      BY <1>2, <2>1
    <3>2. e[i] = new /\ e[i - 1] = l
      BY <1>2, <1>3, <2>1, <3>1
    <3>3. n2[new] = Node(d, l, NULL)
      BY DEF PutLast
    <3> QED
      BY <1>2, <2>1, <3>2, <3>3 DEF Node
  <2>2. CASE i # m + 1
    <3>1. i \in 1..m /\ e[i] = c[i] /\ c[i] \in 1..k
      BY <1>2, <1>3, <1>4, <2>2
    <3>2. PICK a \in 1..k : a = c[i] /\ (a = l <=> i = m)
      BY <1>1, <1>2, <3>1 DEF Linked, Leads
    <3>3. n2[a] = IF a = l THEN [n[a] EXCEPT !.next = new] ELSE n[a]
      BY <1>1, <1>2 DEF PutLast
    <3>4. n[c[i]] \in Nodes
      BY <1>1, <3>1
    <3>5. /\ n2[c[i]].deleted = n[c[i]].deleted /\ n2[c[i]].prev = n[c[i]].prev
          /\ n2[c[i]].next = IF i = m THEN new ELSE n[c[i]].next
      BY <3>2, <3>3, <3>4 DEF Nodes
    <3>6. /\ ~n[c[i]].deleted /\ n[c[i]].next = IF i < m THEN c[i + 1] ELSE NULL
          /\ n[c[i]].prev = IF 1 < i THEN c[i - 1] ELSE NULL
      BY <1>1, <3>1 DEF Linked, Leads
    <3>7. 1 < i => e[i - 1] = c[i - 1]
      <4>1. 1 < i => i - 1 \in 1..m
        BY <1>2, <3>1
      <4> QED
        BY <1>3, <4>1
    <3>8. e[i + 1] = IF i = m THEN new ELSE c[i + 1]
      <4>1. i # m => i + 1 \in 1..m
        BY <1>2, <3>1
      <4> QED
        BY <1>3, <4>1
    <3>9. i < m + 1 /\ (i < m <=> i # m)
      BY <1>2, <3>1
    <3> QED
      BY <3>1, <3>5, <3>6, <3>7, <3>8, <3>9
  <2> QED
    BY <2>1, <2>2
<1>7. f = e[1] /\ m + 1 <= new /\ new \in 1..new
  <2>1. 1 \in 1..m
    BY <1>2
  <2> QED
    BY <1>2, <1>3, <2>1
<1>8. \A i \in 1..(m + 1) : e[i] \in 1..new
  <2> TAKE i \in 1..(m + 1)
  <2>1. \A j \in 1..m : c[j] \in 1..new
    BY <1>2
  <2> QED
    BY <1>3, <1>4, <1>7, <2>1
<1>9. m + 1 # 0 /\ m + 1 \in Nat
  BY <1>2
<1>10. Len(n2) = new
  BY DEF PutLast
<1>11. Leads(e, n2, f)
  <2>1. \A i \in 1..Len(e) : n2[e[i]].next = IF i < Len(e) THEN e[i + 1] ELSE NULL
    BY <1>3, <1>6
  <2>2. f = IF Len(e) = 0 THEN NULL ELSE e[1]
    BY <1>3, <1>7, <1>9
  <2> QED
    BY <1>3, <1>7, <1>8, <1>10, <2>1, <2>2 DEF Leads
<1>12. new = IF Len(e) = 0 THEN NULL ELSE e[Len(e)]
  BY <1>3, <1>7, <1>9
<1>13. \A i \in 1..Len(e) : /\ ~n2[e[i]].deleted
                            /\ n2[e[i]].prev = IF 1 < i THEN e[i - 1] ELSE NULL
  BY <1>3, <1>6
<1>14. Linked(e, n2, f, new)
  BY <1>3, <1>5, <1>11, <1>12, <1>13 DEF Linked
<1> QED
  BY <1>1, <1>14

\* A node on its own.
LEMMA AddedOnly ==
    ASSUME NEW n2 \in Seq(Nodes), NEW new \in Nat, new # 0, Len(n2) = new,
           NEW d \in Values, n2[new] = Node(d, NULL, NULL)
    PROVE  Linked(<<new>>, n2, new, new)
<1>1. PICK e : e = <<new>>
  OBVIOUS
<1>2. e \in Seq(Nat) /\ Len(e) = 1 /\ e[1] = new
  BY <1>1
<1>3. \A i \in 1..1 : i = 1
  OBVIOUS
<1>4. n2[e[1]].next = NULL /\ n2[e[1]].prev = NULL /\ ~n2[e[1]].deleted
  BY <1>2 DEF Node
<1> QED
  BY <1>1, <1>2, <1>3, <1>4 DEF Linked, Leads

\* The nodes n2, from f2 to l2, are those of n, from f to l, after the links around
\* the node a were joined.
Joining(n, f, l, n2, f2, l2, a) ==
    /\ n2 \in Seq(Nodes) /\ Len(n2) = Len(n)
    /\ f2 = (IF n[a].prev = NULL THEN n[a].next ELSE f)
    /\ l2 = (IF n[a].next = NULL THEN n[a].prev ELSE l)
    /\ \A i \in 1..Len(n) :
           /\ n2[i].data = n[i].data
           /\ n2[i].next = IF i = n[a].prev THEN n[a].next ELSE n[i].next
           /\ n2[i].prev = IF i = n[a].next THEN n[a].prev ELSE n[i].prev
           /\ n2[i].deleted => i = a \/ n[i].deleted

\* e is the sequence s without its element p.
Without(s, p, e) ==
    /\ Len(e) = Len(s) - 1
    /\ \A i \in 1..Len(e) : e[i] = IF i < p THEN s[i] ELSE s[i + 1]

\* A node that goes away.
LEMMA Removed ==
    ASSUME NEW n \in Seq(Nodes), NEW c, NEW f, NEW l, Linked(c, n, f, l), NEW p \in 1..Len(c),
           NEW n2, NEW f2, NEW l2, Joining(n, f, l, n2, f2, l2, c[p]),
           NEW e \in Seq(Nat), Without(c, p, e)
    PROVE  Linked(e, n2, f2, l2)
<1>1. PICK k, m, a : k = Len(n) /\ m = Len(c) /\ a = c[p]
  OBVIOUS
<1>2. /\ k \in Nat /\ m \in Nat /\ m # 0 /\ m <= k /\ p \in 1..m
      /\ c \in Seq(Nat) /\ \A i \in 1..m : c[i] \in 1..k
      /\ f = c[1] /\ l = c[m]
  BY <1>1 DEF Linked, Leads
<1>3. k \in Nat /\ m \in Nat /\ m # 0 /\ m <= k /\ p \in 1..m
  BY <1>2
<1>4. \A i, j \in 1..m : c[i] = c[j] => i = j
  BY <1>1 DEF Linked, Leads
<1>5. \A i \in 1..m : /\ ~n[c[i]].deleted
                      /\ n[c[i]].next = IF i < m THEN c[i + 1] ELSE NULL
                      /\ n[c[i]].prev = IF 1 < i THEN c[i - 1] ELSE NULL
  BY <1>1 DEF Linked, Leads
<1>6. \A i \in 1..m : c[i] # NULL
  BY <1>2 DEF NULL
<1>7. /\ n[a].next = IF p < m THEN c[p + 1] ELSE NULL
      /\ n[a].prev = IF 1 < p THEN c[p - 1] ELSE NULL
  BY <1>1, <1>2, <1>5
<1>8. Len(e) = m - 1 /\ \A i \in 1..(m - 1) : e[i] = IF i < p THEN c[i] ELSE c[i + 1]
  BY <1>1 DEF Without
<1>9. \A i \in 1..k : /\ n2[i].next = IF i = n[a].prev THEN n[a].next ELSE n[i].next
                      /\ n2[i].prev = IF i = n[a].next THEN n[a].prev ELSE n[i].prev
                      /\ n2[i].deleted => i = a \/ n[i].deleted
  BY <1>1 DEF Joining
<1>10. /\ f2 = (IF n[a].prev = NULL THEN n[a].next ELSE f)
       /\ l2 = (IF n[a].next = NULL THEN n[a].prev ELSE l)
  BY <1>1 DEF Joining
\* The place in c of the i-th element of e.
<1>11. PICK q : q = [i \in 1..(m - 1) |-> IF i < p THEN i ELSE i + 1]
  OBVIOUS
<1>12. ASSUME NEW i \in 1..(m - 1)
       PROVE  q[i] \in 1..m /\ q[i] # p /\ q[i] = (IF i < p THEN i ELSE i + 1) /\ e[i] = c[q[i]]
  <2>1. q[i] = IF i < p THEN i ELSE i + 1
    BY <1>11
  <2>2. q[i] \in 1..m /\ q[i] # p
    BY <1>2, <2>1
  <2> QED
    BY <1>8, <2>1, <2>2
<1>13. \A i, j \in 1..(m - 1) : e[i] = e[j] => i = j
  <2> SUFFICES ASSUME NEW i \in 1..(m - 1), NEW j \in 1..(m - 1), e[i] = e[j] PROVE i = j
    OBVIOUS
  <2>1. PICK r \in 1..m, t \in 1..m : r = q[i] /\ t = q[j] /\ e[i] = c[r] /\ e[j] = c[t]
    BY <1>12
  <2>2. r = t
    BY <1>4, <2>1
  <2>3. r = (IF i < p THEN i ELSE i + 1) /\ t = (IF j < p THEN j ELSE j + 1)
    BY <1>12, <2>1
  <2>4. i \in Nat /\ j \in Nat /\ p \in Nat
    BY <1>3
  <2>5. (IF i < p THEN i ELSE i + 1) = (IF j < p THEN j ELSE j + 1)
    BY <2>2, <2>3
  <2> QED
    BY <2>4, <2>5
<1>14. ASSUME NEW i \in 1..(m - 1) PROVE ~n2[e[i]].deleted
  <2>1. PICK r \in 1..m : r = q[i] /\ r # p /\ e[i] = c[r]
    BY <1>12
  <2>2. c[r] \in 1..k /\ c[r] # a /\ ~n[c[r]].deleted
    BY <1>1, <1>2, <1>4, <1>5, <2>1
  <2> QED
    BY <1>9, <2>1, <2>2
<1>15. ASSUME NEW i \in 1..(m - 1) PROVE n2[e[i]].next = IF i < m - 1 THEN e[i + 1] ELSE NULL
  <2>1. PICK r \in 1..m : r = q[i] /\ r # p /\ e[i] = c[r] /\ r = IF i < p THEN i ELSE i + 1
    BY <1>12
  <2>2. n2[c[r]].next = IF c[r] = n[a].prev THEN n[a].next ELSE n[c[r]].next
    BY <1>2, <1>9
  <2>3. c[r] = n[a].prev <=> r = p - 1
    <3>1. CASE 1 < p
      <4>1. p - 1 \in 1..m
        BY <1>2, <3>1
      <4> QED
        BY <1>4, <1>7, <3>1, <4>1
    <3>2. CASE ~(1 < p)
      <4>1. r # p - 1
        BY <1>2, <3>2
      <4> QED
        BY <1>6, <1>7, <3>2, <4>1
    <3> QED
      BY <3>1, <3>2
  <2>4. i < m - 1 => i + 1 \in 1..(m - 1)
    BY <1>2
  <2>5. CASE r = p - 1
    <3>1. i = p - 1 /\ (i < m - 1 <=> p < m) /\ ~(i + 1 < p)
      BY <1>3, <2>1, <2>5
    <3>2. i < m - 1 => e[i + 1] = c[p + 1]
      BY <1>2, <1>8, <2>4, <3>1
    <3> QED
      BY <1>7, <2>1, <2>2, <2>3, <2>5, <3>1, <3>2
  <2>6. CASE r # p - 1
    <3>1. n2[c[r]].next = IF r < m THEN c[r + 1] ELSE NULL
      BY <1>5, <2>2, <2>3, <2>6
    <3>2. i < m - 1 <=> r < m
      BY <1>3, <2>1, <2>6
    <3>3. i + 1 < p <=> i < p
      BY <1>3, <2>1, <2>6
    <3>4. i < m - 1 => e[i + 1] = c[r + 1]
      BY <1>8, <2>1, <2>4, <3>3
    <3> QED
      BY <2>1, <3>1, <3>2, <3>4
  <2> QED
    BY <2>5, <2>6
<1>16. ASSUME NEW i \in 1..(m - 1) PROVE n2[e[i]].prev = IF 1 < i THEN e[i - 1] ELSE NULL
  <2>1. PICK r \in 1..m : r = q[i] /\ r # p /\ e[i] = c[r] /\ r = IF i < p THEN i ELSE i + 1
    BY <1>12
  <2>2. n2[c[r]].prev = IF c[r] = n[a].next THEN n[a].prev ELSE n[c[r]].prev
    BY <1>2, <1>9
  <2>3. c[r] = n[a].next <=> r = p + 1
    <3>1. CASE p < m
      <4>1. p + 1 \in 1..m
        BY <1>2, <3>1
      <4> QED
        BY <1>4, <1>7, <3>1, <4>1
    <3>2. CASE ~(p < m)
      <4>1. r # p + 1
        BY <1>2, <3>2
      <4> QED
        BY <1>6, <1>7, <3>2, <4>1
    <3> QED
      BY <3>1, <3>2
  <2>4. 1 < i => i - 1 \in 1..(m - 1) /\ (i - 1) + 1 = i
    BY <1>2
  <2>5. CASE r = p + 1
    <3>1. i = p /\ i - 1 < p
      BY <1>3, <2>1, <2>5
    <3>2. 1 < i => e[i - 1] = c[p - 1]
      BY <1>8, <2>4, <3>1
    <3> QED
      BY <1>7, <2>1, <2>2, <2>3, <2>5, <3>1, <3>2
  <2>6. CASE r # p + 1
    <3>1. n2[c[r]].prev = IF 1 < r THEN c[r - 1] ELSE NULL
      BY <1>5, <2>2, <2>3, <2>6
    <3>2. 1 < i <=> 1 < r
      BY <1>3, <2>1, <2>6
    <3>3. i - 1 < p <=> i < p
      BY <1>3, <2>1, <2>6
    <3>4. 1 < i => e[i - 1] = c[r - 1]
      <4>1. r - 1 = IF i < p THEN i - 1 ELSE i
        BY <2>1
      <4> QED
        BY <1>8, <2>4, <3>3, <4>1
    <3> QED
      BY <2>1, <3>1, <3>2, <3>4
  <2> QED
    BY <2>5, <2>6
<1>17. /\ m - 1 \in Nat /\ m - 1 <= k /\ \A i \in 1..(m - 1) : e[i] \in 1..k
  <2>1. ASSUME NEW i \in 1..(m - 1) PROVE e[i] \in 1..k
    BY <1>2, <1>12
  <2> QED
    BY <1>3, <2>1
<1>18. CASE m = 1
  <2>1. f2 = NULL /\ l2 = NULL
    BY <1>2, <1>7, <1>18, <1>10
  <2> QED
    BY <1>8, <1>18, <2>1 DEF Linked, Leads
<1>19. CASE m # 1
  <2>1. 1 \in 1..(m - 1) /\ m - 1 \in 1..(m - 1) /\ (m - 1) + 1 = m /\ 1 + 1 \in 1..m
    BY <1>2, <1>19
  <2>2. f2 = e[1]
    <3>1. CASE 1 < p
      <4>1. p - 1 \in 1..m /\ e[1] = c[1]
        BY <1>2, <1>8, <2>1, <3>1
      <4>2. n[a].prev # NULL
        BY <1>6, <1>7, <3>1, <4>1
      <4> QED
        BY <1>2, <1>10, <4>1, <4>2
    <3>2. CASE ~(1 < p)
      <4>1. p = 1 /\ p < m
        BY <1>2, <1>19, <3>2
      <4>2. n[a].prev = NULL /\ n[a].next = c[1 + 1] /\ e[1] = c[1 + 1]
        BY <1>7, <1>8, <2>1, <4>1
      <4> QED
        BY <1>10, <4>2
    <3> QED
      BY <3>1, <3>2
  <2>3. l2 = e[m - 1]
    <3>1. CASE p < m
      <4>1. p + 1 \in 1..m /\ ~(m - 1 < p)
        BY <1>2, <3>1
      <4>2. e[m - 1] = c[m]
        BY <1>8, <2>1, <4>1
      <4>3. n[a].next # NULL
        BY <1>6, <1>7, <3>1, <4>1
      <4> QED
        BY <1>2, <1>10, <4>2, <4>3
    <3>2. CASE ~(p < m)
      <4>1. p = m /\ 1 < p /\ m - 1 < p
        BY <1>2, <1>19, <3>2
      <4>2. n[a].next = NULL /\ n[a].prev = c[m - 1] /\ e[m - 1] = c[m - 1]
        BY <1>7, <1>8, <2>1, <4>1
      <4> QED
        BY <1>10, <4>2
    <3> QED
      BY <3>1, <3>2
  <2>4. m - 1 # 0
    BY <1>2, <1>19
  <2>5. Len(n2) = k
    BY <1>1 DEF Joining
  <2> QED
    BY <1>8, <1>13, <1>14, <1>15, <1>16, <1>17, <2>2, <2>3, <2>4, <2>5 DEF Linked, Leads
<1> QED
  BY <1>18, <1>19

--------------------------------------------------------------------------------
(* What they do to the values.                                              *)

ValuesOf(c, n) == [i \in 1..Len(c) |-> n[c[i]].data]

LEMMA ValuesType ==
    ASSUME NEW n \in Seq(Nodes), NEW c \in Seq(Nat), \A i \in 1..Len(c) : c[i] \in 1..Len(n)
    PROVE  /\ ValuesOf(c, n) \in Seq(Values) /\ Len(ValuesOf(c, n)) = Len(c)
           /\ \A i \in 1..Len(c) : ValuesOf(c, n)[i] = n[c[i]].data
<1>1. PICK m \in Nat : m = Len(c)
  OBVIOUS
<1>2. \A i \in 1..m : n[c[i]].data \in Values
  <2> TAKE i \in 1..m
  <2>1. PICK a \in 1..Len(n) : a = c[i]
    BY <1>1
  <2>2. n[a] \in Nodes
    OBVIOUS
  <2> QED
    BY <2>1, <2>2 DEF Nodes
<1>3. PICK s : s = [i \in 1..m |-> n[c[i]].data]
  OBVIOUS
<1>4. s \in Seq(Values) /\ Len(s) = m /\ \A i \in 1..m : s[i] = n[c[i]].data
  BY <1>2, <1>3
<1> QED
  BY <1>1, <1>3, <1>4 DEF ValuesOf

\* The nodes on the path c keep their values.
SameValues(c, n, n2) == \A i \in 1..Len(c) : n2[c[i]].data = n[c[i]].data

LEMMA ValuesFirst ==
    ASSUME NEW n, NEW n2, NEW c \in Seq(Nat), ValuesOf(c, n) \in Seq(Values),
           NEW new \in Nat, n2[new].data \in Values, SameValues(c, n, n2)
    PROVE  ValuesOf(<<new>> \o c, n2) = <<n2[new].data>> \o ValuesOf(c, n)
<1>1. PICK m, d, s, e, t, v : /\ m = Len(c) /\ d = n2[new].data /\ s = ValuesOf(c, n)
                               /\ e = <<new>> \o c /\ t = <<d>> \o s
                               /\ v = ValuesOf(e, n2)
  OBVIOUS
<1>2. d \in Values /\ s \in Seq(Values)
  BY <1>1
<1>3. m \in Nat /\ Len(s) = m /\ \A i \in 1..m : s[i] = n[c[i]].data
  BY <1>1 DEF ValuesOf
<1>4. Len(e) = m + 1 /\ e[1] = new /\ \A i \in 1..m : e[i + 1] = c[i]
  BY <1>1
<1>5. t \in Seq(Values) /\ Len(t) = m + 1 /\ t[1] = d /\ \A i \in 1..m : t[i + 1] = s[i]
  BY <1>2, <1>1, <1>3
<1>6. \A i \in 1..(m + 1) : n2[e[i]].data = t[i]
  <2> TAKE i \in 1..(m + 1)
  <2>1. CASE i = 1
    BY <1>1, <1>4, <1>5, <2>1
  <2>2. CASE i # 1
    <3>1. i - 1 \in 1..m /\ (i - 1) + 1 = i
      BY <1>3, <2>2
    <3>2. n2[c[i - 1]].data = n[c[i - 1]].data
      BY <1>1, <3>1 DEF SameValues
    <3>3. e[(i - 1) + 1] = c[i - 1] /\ t[(i - 1) + 1] = s[i - 1]
      BY <1>4, <1>5, <3>1
    <3> QED
      BY <1>3, <3>1, <3>2, <3>3
  <2> QED
    BY <2>1, <2>2
<1>7. v = [i \in 1..(m + 1) |-> t[i]]
  BY <1>1, <1>4, <1>6 DEF ValuesOf
<1>8. t = [i \in 1..(m + 1) |-> t[i]]
  BY <1>5
<1> QED
  BY <1>1, <1>7, <1>8

LEMMA ValuesLast ==
    ASSUME NEW n, NEW n2, NEW c \in Seq(Nat), ValuesOf(c, n) \in Seq(Values),
           NEW new \in Nat, n2[new].data \in Values, SameValues(c, n, n2)
    PROVE  ValuesOf(Append(c, new), n2) = Append(ValuesOf(c, n), n2[new].data)
<1>1. PICK m, d, s, e, t, v : /\ m = Len(c) /\ d = n2[new].data /\ s = ValuesOf(c, n)
                               /\ e = Append(c, new) /\ t = Append(s, d)
                               /\ v = ValuesOf(e, n2)
  OBVIOUS
<1>2. d \in Values /\ s \in Seq(Values)
  BY <1>1
<1>3. m \in Nat /\ Len(s) = m /\ \A i \in 1..m : s[i] = n[c[i]].data
  BY <1>1 DEF ValuesOf
<1>4. Len(e) = m + 1 /\ e[m + 1] = new /\ \A i \in 1..m : e[i] = c[i]
  BY <1>1
<1>5. t \in Seq(Values) /\ Len(t) = m + 1 /\ t[m + 1] = d /\ \A i \in 1..m : t[i] = s[i]
  BY <1>2, <1>1, <1>3
<1>6. \A i \in 1..(m + 1) : n2[e[i]].data = t[i]
  <2> TAKE i \in 1..(m + 1)
  <2>1. i \in 1..m \/ i = m + 1
    BY <1>3
  <2>2. CASE i = m + 1
    BY <1>1, <1>4, <1>5, <2>2
  <2>3. CASE i \in 1..m
    <3>1. n2[c[i]].data = n[c[i]].data
      BY <1>1, <2>3 DEF SameValues
    <3> QED
      BY <1>3, <1>4, <1>5, <2>3, <3>1
  <2> QED
    BY <2>1, <2>2, <2>3
<1>7. v = [i \in 1..(m + 1) |-> t[i]]
  BY <1>1, <1>4, <1>6 DEF ValuesOf
<1>8. t = [i \in 1..(m + 1) |-> t[i]]
  BY <1>5
<1> QED
  BY <1>1, <1>7, <1>8

\* A sequence without its element p, as the operators on sequences say it.
LEMMA WithoutIs ==
    ASSUME NEW S, NEW s \in Seq(S), NEW p \in 1..Len(s), NEW t \in Seq(S), Without(s, p, t)
    PROVE  /\ t = RemoveAt(s, p)
           /\ p = 1 => t = Tail(s)
           /\ p = Len(s) => t = Front(s)
<1>1. PICK m \in Nat : m = Len(s)
  OBVIOUS
<1>2. p \in 1..m /\ Len(t) = m - 1 /\ m - 1 \in Nat
  BY <1>1 DEF Without
<1>3. \A i \in 1..(m - 1) : t[i] = IF i < p THEN s[i] ELSE s[i + 1]
  BY <1>2 DEF Without
<1>4. t = RemoveAt(s, p)
  <2>1. PICK a, b, u : a = SubSeq(s, 1, p - 1) /\ b = SubSeq(s, p + 1, m) /\ u = a \o b
    OBVIOUS
  <2>2. a \in Seq(S) /\ Len(a) = p - 1 /\ \A i \in 1..(p - 1) : a[i] = s[i]
    BY <1>1, <1>2, <2>1
  <2>3. b \in Seq(S) /\ Len(b) = m - p /\ \A i \in 1..(m - p) : b[i] = s[p + i]
    BY <1>1, <1>2, <2>1
  <2>4. u \in Seq(S)
    BY <2>1, <2>2, <2>3
  <2>5. Len(u) = m - 1
    <3>1. Len(u) = Len(a) + Len(b)
      BY <2>1, <2>2, <2>3
    <3> QED
      BY <1>2, <2>2, <2>3, <3>1
  <2>6. /\ \A i \in 1..Len(a) : u[i] = a[i]
        /\ \A i \in 1..Len(b) : u[Len(a) + i] = b[i]
    BY <2>1, <2>2, <2>3, Joined
  <2>7. \A i \in 1..(m - 1) : t[i] = u[i]
    <3> TAKE i \in 1..(m - 1)
    <3>1. CASE i < p
      <4>1. i \in 1..(p - 1)
        BY <1>2, <3>1
      <4> QED
        BY <1>3, <2>2, <2>6, <3>1, <4>1
    <3>2. CASE ~(i < p)
      <4>1. PICK j : j = i - (p - 1)
        OBVIOUS
      <4>2. j \in 1..(m - p) /\ p + j = i + 1 /\ (p - 1) + j = i
        BY <1>2, <3>2, <4>1
      <4>3. b[j] = s[i + 1]
        BY <2>3, <4>2
      <4>4. u[i] = b[j]
        BY <2>2, <2>3, <2>6, <4>2
      <4> QED
        BY <1>3, <3>2, <4>3, <4>4
    <3> QED
      BY <3>1, <3>2
  <2>8. t = u
    BY <1>2, <2>4, <2>5, <2>7, SameElements
  <2> QED
    BY <1>1, <2>1, <2>8 DEF RemoveAt
<1>5. ASSUME p = 1 PROVE t = Tail(s)
  <2>1. PICK u : u = Tail(s)
    OBVIOUS
  <2>2. u \in Seq(S) /\ Len(u) = m - 1 /\ \A i \in 1..(m - 1) : u[i] = s[i + 1]
    BY <1>1, <1>2, <2>1
  <2>3. \A i \in 1..(m - 1) : t[i] = u[i]
    BY <1>3, <1>5, <2>2
  <2>4. t = u
    BY <1>2, <2>2, <2>3, SameElements
  <2> QED
    BY <2>1, <2>4
<1>6. ASSUME p = Len(s) PROVE t = Front(s)
  <2>1. PICK u : u = Front(s)
    OBVIOUS
  <2>2. u \in Seq(S) /\ Len(u) = m - 1 /\ \A i \in 1..(m - 1) : u[i] = s[i]
    BY <1>1, <1>2, <2>1 DEF Front
  <2>3. \A i \in 1..(m - 1) : t[i] = u[i]
    <3> TAKE i \in 1..(m - 1)
    <3>1. i < p
      BY <1>1, <1>2, <1>6
    <3> QED
      BY <1>3, <2>2, <3>1
  <2>4. t = u
    BY <1>2, <2>2, <2>3, SameElements
  <2> QED
    BY <2>1, <2>4
<1> QED
  BY <1>4, <1>5, <1>6

LEMMA ValuesWithout ==
    ASSUME NEW n, NEW n2, NEW c \in Seq(Nat), NEW p \in 1..Len(c), NEW e \in Seq(Nat),
           Without(c, p, e), SameValues(c, n, n2)
    PROVE  Without(ValuesOf(c, n), p, ValuesOf(e, n2))
<1>1. PICK m, s, t : m = Len(c) /\ s = ValuesOf(c, n) /\ t = ValuesOf(e, n2)
  OBVIOUS
<1>2. m \in Nat /\ p \in 1..m /\ Len(e) = m - 1 /\ m - 1 \in Nat
  BY <1>1 DEF Without
<1>3. Len(s) = m /\ \A i \in 1..m : s[i] = n[c[i]].data
  BY <1>1, <1>2 DEF ValuesOf
<1>4. Len(t) = m - 1 /\ \A i \in 1..(m - 1) : t[i] = n2[e[i]].data
  BY <1>1, <1>2 DEF ValuesOf
<1>5. ASSUME NEW i \in 1..(m - 1) PROVE t[i] = IF i < p THEN s[i] ELSE s[i + 1]
  <2>1. e[i] = IF i < p THEN c[i] ELSE c[i + 1]
    BY <1>2 DEF Without
  <2>2. i \in 1..m /\ i + 1 \in 1..m
    BY <1>2
  <2>3. n2[c[i]].data = n[c[i]].data /\ n2[c[i + 1]].data = n[c[i + 1]].data
    BY <1>1, <2>2 DEF SameValues
  <2> QED
    BY <1>3, <1>4, <2>1, <2>2, <2>3
<1> QED
  BY <1>1, <1>3, <1>4, <1>5 DEF Without

\* Items, for any nodes and ends.
ItemsOf(n, f, l) ==
    LET path == Path(f, [a \in DOMAIN n |-> n[a].next])
    IN  IF l = NULL THEN <<>> ELSE [i \in 1..Len(path) |-> n[path[i]].data]

LEMMA ItemsOfLinked ==
    ASSUME NEW n \in Seq(Nodes), NEW f, NEW l, NEW c, Linked(c, n, f, l)
    PROVE  ItemsOf(n, f, l) = ValuesOf(c, n) /\ ValuesOf(c, n) \in Seq(Values)
<1>1. Leads(c, n, f) /\ l = IF Len(c) = 0 THEN NULL ELSE c[Len(c)]
  BY DEF Linked
<1>2. c \in Seq(Nat) /\ \A i \in 1..Len(c) : c[i] \in 1..Len(n)
  BY <1>1 DEF Leads
<1>3. Path(f, [a \in DOMAIN n |-> n[a].next]) = c
  BY <1>1, LoopForward
<1>4. ValuesOf(c, n) \in Seq(Values) /\ Len(ValuesOf(c, n)) = Len(c)
  BY <1>2, ValuesType
<1>5. CASE l = NULL
  <2>1. Len(c) = 0
    BY <1>1, <1>2, <1>5 DEF NULL
  <2>2. ValuesOf(c, n) = <<>>
    BY <1>4, <2>1
  <2> QED
    BY <1>4, <1>5, <2>2 DEF ItemsOf
<1>6. CASE l # NULL
  BY <1>3, <1>4, <1>6 DEF ItemsOf, ValuesOf
<1> QED
  BY <1>5, <1>6

--------------------------------------------------------------------------------
(* The steps.                                                               *)

\* What is known of a state of the invariant.
LEMMA StateIs ==
    ASSUME TypeOK, NEW c, Holds(c)
    PROVE  /\ Chain = c /\ c \in Seq(Nat) /\ Len(c) \in Nat /\ Leads(c, node, first)
           /\ \A i \in 1..Len(c) : c[i] \in 1..Len(node)
           /\ Items = IF cleared THEN <<>> ELSE ValuesOf(c, node)
           /\ Items \in Seq(Values)
<1>1. Leads(c, node, first) /\ node \in Seq(Nodes)
  BY DEF Holds, Stale, Linked, TypeOK
<1>2. Chain = c
  BY <1>1, LoopForward DEF Chain, Nexts
<1>3. c \in Seq(Nat) /\ Len(c) \in Nat /\ \A i \in 1..Len(c) : c[i] \in 1..Len(node)
  BY <1>1 DEF Leads
<1>4. Items = ItemsOf(node, first, last)
  BY DEF Items, ItemsOf, Chain, Nexts
<1>5. CASE cleared
  <2>1. Items = <<>>
    BY <1>5 DEF Items, Holds, Stale
  <2> QED
    BY <1>1, <1>2, <1>3, <1>5, <2>1
<1>6. CASE ~cleared
  <2>1. Linked(c, node, first, last)
    BY <1>6 DEF Holds
  <2>2. Items = ValuesOf(c, node) /\ Items \in Seq(Values)
    BY <1>1, <1>4, <2>1, ItemsOfLinked
  <2> QED
    BY <1>1, <1>2, <1>3, <1>6, <2>2
<1> QED
  BY <1>5, <1>6

\* A step that leaves the list alone.
LEMMA ListKept ==
    ASSUME Inv, UNCHANGED <<node, first, last, count, cleared>>
    PROVE  Inv' /\ Items' = Items
<1>1. TypeOK'
  BY DEF Inv, TypeOK
<1>2. PICK c : Holds(c)
  BY DEF Inv
<1>3. Holds(c)'
  BY <1>2 DEF Holds, Stale, Deleted
<1>4. Items' = Items
  BY DEF Items, Chain, Nexts
<1> QED
  BY <1>1, <1>3, <1>4 DEF Inv

\* A step that leads to the path e.
LEMMA ListReached ==
    ASSUME node' \in Seq(Nodes), NEW e, Linked(e, node', first', last'), count' = Len(e),
           cleared' = FALSE
    PROVE  Inv' /\ Items' = ValuesOf(e, node') /\ Items' \in Seq(Values)
<1>1. Holds(e)'
  BY DEF Holds
<1>2. /\ e \in Seq(Nat) /\ Len(e) \in Nat /\ first' = (IF Len(e) = 0 THEN NULL ELSE e[1])
      /\ last' = IF Len(e) = 0 THEN NULL ELSE e[Len(e)]
  BY DEF Linked, Leads
<1>3. first' \in Nat /\ last' \in Nat
  BY <1>2 DEF NULL
<1>4. TypeOK'
  BY <1>2, <1>3 DEF TypeOK
<1>5. Items' = ItemsOf(node', first', last')
  BY DEF Items, ItemsOf, Chain, Nexts
<1> QED
  BY <1>1, <1>4, <1>5, ItemsOfLinked DEF Inv

\* A step that takes the node at place p out of the path.
LEMMA TakenOut ==
    ASSUME TypeOK, NEW c, Linked(c, node, first, last), count = Len(c), ~cleared,
           NEW p \in 1..Len(c), Joining(node, first, last, node', first', last', c[p]),
           count' = count - 1, cleared' = FALSE
    PROVE  Inv' /\ Items \in Seq(Values) /\ Items' \in Seq(Values) /\ Without(Items, p, Items')
<1>1. PICK m \in Nat : m = Len(c) /\ c \in Seq(Nat) /\ \A i \in 1..m : c[i] \in 1..Len(node)
  BY DEF Linked, Leads
<1>2. PICK e : e = [i \in 1..(m - 1) |-> IF i < p THEN c[i] ELSE c[i + 1]]
  OBVIOUS
<1>3. p \in 1..m /\ m - 1 \in Nat
  BY <1>1
<1>4. e \in Seq(Nat) /\ Len(e) = m - 1
  <2>1. \A i \in 1..(m - 1) : c[i] \in Nat /\ c[i + 1] \in Nat
    BY <1>1, <1>3
  <2> QED
    BY <1>2, <1>3, <2>1
<1>5. Without(c, p, e)
  BY <1>1, <1>2, <1>4 DEF Without
<1>6. node \in Seq(Nodes) /\ node' \in Seq(Nodes)
  BY DEF TypeOK, Joining
<1>7. Linked(e, node', first', last')
  BY <1>4, <1>5, <1>6, Removed
<1>8. count' = Len(e)
  BY <1>1, <1>4
<1>9. Inv' /\ Items' = ValuesOf(e, node') /\ Items' \in Seq(Values)
  BY <1>6, <1>7, <1>8, ListReached
<1>10. Items = ValuesOf(c, node) /\ Items \in Seq(Values)
  <2>1. Holds(c)
    BY DEF Holds
  <2> QED
    BY <2>1, StateIs
<1>11. SameValues(c, node, node')
  BY <1>1 DEF SameValues, Joining
<1>12. Without(ValuesOf(c, node), p, ValuesOf(e, node'))
  BY <1>1, <1>4, <1>5, <1>11, ValuesWithout
<1> QED
  BY <1>9, <1>10, <1>12

Refines == Abstract!Next \/ (Items' = Items /\ result' = result)

LEMMA AddStep ==
    ASSUME Inv, NEW d \in Values, NEW atStart \in BOOLEAN, Add(d, atStart)
    PROVE  Inv' /\ Refines
<1>1. PICK c : Holds(c)
  BY DEF Inv
<1>2. PICK new : new = Len(node) + 1
  OBVIOUS
<1>3. /\ node \in Seq(Nodes) /\ first \in Nat /\ last \in Nat /\ new \in Nat /\ new # 0
      /\ Len(node) \in Nat
  BY <1>2 DEF Inv, TypeOK
<1>4. /\ c \in Seq(Nat) /\ Len(c) \in Nat /\ Leads(c, node, first)
      /\ \A i \in 1..Len(c) : c[i] \in 1..Len(node)
      /\ Items = (IF cleared THEN <<>> ELSE ValuesOf(c, node)) /\ Items \in Seq(Values)
  BY <1>1, StateIs DEF Inv
<1>5. count' = count + 1 /\ cleared' = FALSE /\ result' = result
  BY DEF Add
<1>6. \A prev, next : Node(d, prev, next).data = d
  BY DEF Node
<1>7. \A prev \in Nat, next \in Nat : Node(d, prev, next) \in Nodes
  BY DEF Node, Nodes
<1>8. SUFFICES Inv' /\ Items' \in {Append(Items, d), <<d>> \o Items}
  BY <1>5 DEF Refines, Abstract!Next, Abstract!Put
<1>9. CASE first # NULL /\ last # NULL
  <2>1. ~cleared /\ Linked(c, node, first, last) /\ count = Len(c) /\ Items = ValuesOf(c, node)
    BY <1>1, <1>4, <1>9 DEF Holds, Stale
  <2>2. Len(c) # 0
    BY <1>4, <1>9 DEF Leads
  <2>3. CASE atStart
    <3>1. AddAtStart(d)
      BY <1>9, <2>3 DEF Add
    <3>2. first \in 1..Len(node)
      BY <1>4, <2>2 DEF Leads
    <3>3. PutFirst(node, node', first, d)
      <4>1. PICK n : n = [node EXCEPT ![first].prev = new]
        OBVIOUS
      <4>2. /\ n \in Seq(Nodes) /\ Len(n) = Len(node)
            /\ \A i \in 1..Len(node) :
                   n[i] = IF i = first THEN [node[i] EXCEPT !.prev = new] ELSE node[i]
        <5>1. [node[first] EXCEPT !.prev = new] \in Nodes
          <6>1. PICK a \in Nodes : a = node[first]
            BY <1>3, <3>2
          <6>2. [a EXCEPT !.prev = new] \in Nodes
            BY <1>3 DEF Nodes
          <6> QED
            BY <6>1, <6>2
        <5> QED
          BY <1>3, <3>2, <4>1, <5>1
      <4>3. node' = Append(n, Node(d, NULL, first))
        BY <1>2, <3>1, <4>1 DEF AddAtStart
      <4>4. Node(d, NULL, first) \in Nodes
        BY <1>3, <1>7 DEF NULL
      <4> QED
        BY <1>2, <1>3, <4>2, <4>3, <4>4 DEF PutFirst
    <3>4. Linked(<<new>> \o c, node', new, last)
      BY <1>2, <1>3, <2>1, <2>2, <3>3, AddedFirst
    <3>5. first' = new /\ last' = last
      BY <1>2, <3>1 DEF AddAtStart
    <3>6. node' \in Seq(Nodes) /\ node'[new].data = d
      BY <1>2, <1>6, <3>3 DEF PutFirst
    <3>7. SameValues(c, node, node')
      <4> SUFFICES ASSUME NEW i \in 1..Len(c) PROVE node'[c[i]].data = node[c[i]].data
        BY DEF SameValues
      <4>1. PICK a \in 1..Len(node) : a = c[i]
        BY <1>4
      <4>2. node[a] \in Nodes
        BY <1>3
      <4>3. node'[a] = IF a = first THEN [node[a] EXCEPT !.prev = Len(node) + 1] ELSE node[a]
        BY <3>3 DEF PutFirst
      <4> QED
        BY <4>1, <4>2, <4>3 DEF Nodes
    <3>8. Len(<<new>> \o c) = Len(c) + 1
      BY <1>3, <1>4
    <3>9. Inv' /\ Items' = ValuesOf(<<new>> \o c, node')
      BY <1>5, <2>1, <3>4, <3>5, <3>6, <3>8, ListReached
    <3>10. ValuesOf(<<new>> \o c, node') = <<d>> \o Items
      <4>1. c \in Seq(Nat) /\ ValuesOf(c, node) \in Seq(Values) /\ node'[new].data \in Values
        BY <1>4, <2>1, <3>6
      <4>2. ValuesOf(<<new>> \o c, node') = <<node'[new].data>> \o ValuesOf(c, node)
        BY <1>3, <3>7, <4>1, ValuesFirst, ZenonT(40)
      <4> QED
        BY <2>1, <3>6, <4>2
    <3> QED
      BY <3>9, <3>10
  <2>4. CASE ~atStart
    <3>1. AddAtEnd(d)
      BY <1>9, <2>4 DEF Add
    <3>2. last \in 1..Len(node)
      BY <1>4, <2>1, <2>2 DEF Linked
    <3>3. PutLast(node, node', last, d)
      <4>1. PICK n : n = [node EXCEPT ![last].next = new]
        OBVIOUS
      <4>2. /\ n \in Seq(Nodes) /\ Len(n) = Len(node)
            /\ \A i \in 1..Len(node) :
                   n[i] = IF i = last THEN [node[i] EXCEPT !.next = new] ELSE node[i]
        <5>1. [node[last] EXCEPT !.next = new] \in Nodes
          <6>1. PICK a \in Nodes : a = node[last]
            BY <1>3, <3>2
          <6>2. [a EXCEPT !.next = new] \in Nodes
            BY <1>3 DEF Nodes
          <6> QED
            BY <6>1, <6>2
        <5> QED
          BY <1>3, <3>2, <4>1, <5>1
      <4>3. node' = Append(n, Node(d, last, NULL))
        BY <1>2, <3>1, <4>1 DEF AddAtEnd
      <4>4. Node(d, last, NULL) \in Nodes
        BY <1>3, <1>7 DEF NULL
      <4> QED
        BY <1>2, <1>3, <4>2, <4>3, <4>4 DEF PutLast
    <3>4. Linked(Append(c, new), node', first, new)
      BY <1>2, <1>3, <2>1, <2>2, <3>3, AddedLast
    <3>5. last' = new /\ first' = first
      BY <1>2, <3>1 DEF AddAtEnd
    <3>6. node' \in Seq(Nodes) /\ node'[new].data = d
      BY <1>2, <1>6, <3>3 DEF PutLast
    <3>7. SameValues(c, node, node')
      <4> SUFFICES ASSUME NEW i \in 1..Len(c) PROVE node'[c[i]].data = node[c[i]].data
        BY DEF SameValues
      <4>1. PICK a \in 1..Len(node) : a = c[i]
        BY <1>4
      <4>2. node[a] \in Nodes
        BY <1>3
      <4>3. node'[a] = IF a = last THEN [node[a] EXCEPT !.next = Len(node) + 1] ELSE node[a]
        BY <3>3 DEF PutLast
      <4> QED
        BY <4>1, <4>2, <4>3 DEF Nodes
    <3>8. Len(Append(c, new)) = Len(c) + 1
      BY <1>3, <1>4
    <3>9. Inv' /\ Items' = ValuesOf(Append(c, new), node')
      BY <1>5, <2>1, <3>4, <3>5, <3>6, <3>8, ListReached
    <3>10. ValuesOf(Append(c, new), node') = Append(Items, d)
      <4>1. c \in Seq(Nat) /\ ValuesOf(c, node) \in Seq(Values) /\ node'[new].data \in Values
        BY <1>4, <2>1, <3>6
      <4>2. ValuesOf(Append(c, new), node') = Append(ValuesOf(c, node), node'[new].data)
        BY <1>3, <3>7, <4>1, ValuesLast, ZenonT(40)
      <4> QED
        BY <2>1, <3>6, <4>2
    <3> QED
      BY <3>9, <3>10
  <2> QED
    BY <2>3, <2>4
<1>10. CASE ~(first # NULL /\ last # NULL)
  <2>1. node' = Append(node, Node(d, NULL, NULL)) /\ first' = new /\ last' = new
    BY <1>2, <1>10 DEF Add, AddToEmpty
  <2>2. count = 0 /\ Items = <<>>
    <3>1. CASE cleared
      BY <1>1, <1>4, <3>1 DEF Holds, Stale
    <3>2. CASE ~cleared
      <4>1. Linked(c, node, first, last) /\ count = Len(c)
        BY <1>1, <3>2 DEF Holds
      <4>2. Len(c) = 0
        <5> SUFFICES ASSUME Len(c) # 0 PROVE FALSE
          OBVIOUS
        <5>1. first = c[1] /\ last = c[Len(c)]
          BY <4>1 DEF Linked, Leads
        <5> QED
          BY <1>4, <1>10, <5>1 DEF NULL
      <4>3. Len(Items) = 0
        BY <1>3, <1>4, <3>2, <4>2, ValuesType
      <4> QED
        BY <1>4, <4>1, <4>2, <4>3
    <3> QED
      BY <3>1, <3>2
  <2>3. Node(d, NULL, NULL) \in Nodes
    BY <1>7 DEF NULL
  <2>4. node' \in Seq(Nodes) /\ Len(node') = new /\ node'[new] = Node(d, NULL, NULL)
    BY <1>2, <1>3, <2>1, <2>3
  <2>5. Linked(<<new>>, node', new, new)
    BY <1>3, <2>4, AddedOnly
  <2>6. Len(<<new>>) = 1 /\ count' = 1
    BY <1>5, <2>2
  <2>7. Inv' /\ Items' = ValuesOf(<<new>>, node')
    BY <1>5, <2>1, <2>4, <2>5, <2>6, ListReached
  <2>8. ValuesOf(<<new>>, node') = <<d>>
    <3>1. PICK v : v = ValuesOf(<<new>>, node')
      OBVIOUS
    <3>2. v = [i \in 1..1 |-> node'[new].data]
      BY <2>6, <3>1 DEF ValuesOf
    <3>3. node'[new].data = d
      BY <1>6, <2>4
    <3> QED
      BY <3>1, <3>2, <3>3
  <2>9. Append(Items, d) = <<d>>
    BY <2>2
  <2> QED
    BY <2>7, <2>8, <2>9
<1> QED
  BY <1>9, <1>10

\* A step that ends the program leaves the list alone.
LEMMA FailStep ==
    ASSUME Inv, NEW what, Fails(what)
    PROVE  Inv' /\ Refines
  BY ListKept DEF Fails, Refines

\* The path of a list that was not cleared.
LEMMA ListIs ==
    ASSUME TypeOK, NEW c, Holds(c), ~cleared
    PROVE  /\ Linked(c, node, first, last) /\ count = Len(c) /\ Len(Items) = Len(c)
           /\ \A i \in 1..Len(c) : Items[i] = node[c[i]].data
           /\ first = IF Len(c) = 0 THEN NULL ELSE c[1]
           /\ last = IF Len(c) = 0 THEN NULL ELSE c[Len(c)]
<1>1. /\ c \in Seq(Nat) /\ \A i \in 1..Len(c) : c[i] \in 1..Len(node)
      /\ Items = ValuesOf(c, node) /\ Leads(c, node, first)
  BY StateIs
<1>2. Linked(c, node, first, last) /\ count = Len(c)
  BY DEF Holds
<1>3. node \in Seq(Nodes)
  BY DEF TypeOK
<1>4. Len(Items) = Len(c) /\ \A i \in 1..Len(c) : Items[i] = node[c[i]].data
  BY <1>1, <1>3, ValuesType
<1> QED
  BY <1>1, <1>2, <1>4 DEF Linked, Leads

LEMMA ExtractFirstStep ==
    ASSUME Inv, ExtractFirst
    PROVE  Inv' /\ Refines
<1>1. CASE first = NULL \/ Deleted(first)
  BY <1>1, FailStep DEF ExtractFirst
<1>2. CASE first # NULL /\ ~Deleted(first)
  <2>1. PICK c : Holds(c) /\ TypeOK
    BY DEF Inv
  <2>2. c \in Seq(Nat) /\ Len(c) \in Nat /\ Leads(c, node, first)
        /\ \A i \in 1..Len(c) : c[i] \in 1..Len(node)
    BY <2>1, StateIs
  <2>3. Len(c) # 0 /\ first = c[1] /\ 1 \in 1..Len(c)
    BY <1>2, <2>2 DEF Leads
  <2>4. ~cleared
    BY <1>2, <2>1, <2>2, <2>3 DEF Holds, Stale
  <2>5. Linked(c, node, first, last) /\ count = Len(c) /\ Len(Items) = Len(c)
        /\ Items[1] = node[first].data
    BY <2>1, <2>3, <2>4, ListIs
  <2>6. PICK next : next = node[first].next
    OBVIOUS
  <2>7. /\ first' = next
        /\ next # NULL => node' = [node EXCEPT ![next].prev = NULL] /\ last' = last
        /\ next = NULL => node' = node /\ last' = NULL
        /\ count' = count - 1 /\ cleared' = FALSE /\ result' = node[first].data
    BY <1>2, <2>6 DEF ExtractFirst
  <2>8. node[first].prev = NULL
    BY <2>3, <2>5 DEF Linked
  <2>9. next = NULL \/ next \in 1..Len(node)
    <3>1. next = IF 1 < Len(c) THEN c[2] ELSE NULL
      BY <2>2, <2>3, <2>6 DEF Leads
    <3>2. 1 < Len(c) => 2 \in 1..Len(c)
      BY <2>2
    <3> QED
      BY <2>2, <3>1, <3>2
  <2>10. Joining(node, first, last, node', first', last', c[1])
    <3>1. node \in Seq(Nodes) /\ \A i \in 1..Len(node) : i # NULL
      BY <2>1 DEF TypeOK, NULL
    <3>2. CASE next = NULL
      BY <2>3, <2>6, <2>7, <2>8, <3>1, <3>2 DEF Joining
    <3>3. CASE next # NULL
      <4>1. PICK a \in Nodes : a = node[next]
        BY <2>9, <3>1, <3>3
      <4>2. [a EXCEPT !.prev = NULL] \in Nodes
        BY DEF Nodes, NULL
      <4>3. /\ node' \in Seq(Nodes) /\ Len(node') = Len(node)
            /\ \A i \in 1..Len(node) :
                   node'[i] = IF i = next THEN [a EXCEPT !.prev = NULL] ELSE node[i]
        BY <2>7, <2>9, <3>1, <3>3, <4>1, <4>2
      <4>4. \A i \in 1..Len(node) :
               /\ node'[i].data = node[i].data
               /\ node'[i].next = node[i].next
               /\ node'[i].prev = IF i = next THEN NULL ELSE node[i].prev
               /\ node'[i].deleted = node[i].deleted
        BY <4>1, <4>3 DEF Nodes
      <4> QED
        BY <2>3, <2>6, <2>7, <2>8, <3>1, <3>3, <4>3, <4>4 DEF Joining
    <3> QED
      BY <3>2, <3>3
  <2>11. Inv' /\ Items \in Seq(Values) /\ Items' \in Seq(Values) /\ Without(Items, 1, Items')
    BY <2>1, <2>3, <2>4, <2>5, <2>7, <2>10, TakenOut
  <2>12. Items' = Tail(Items)
    BY <2>3, <2>5, <2>11, WithoutIs
  <2>13. Items # <<>> /\ result' = Head(Items)
    BY <2>3, <2>5, <2>7, <2>11
  <2> QED
    BY <2>11, <2>12, <2>13 DEF Refines, Abstract!Next, Abstract!TakeFirst
<1> QED
  BY <1>1, <1>2

LEMMA ExtractLastStep ==
    ASSUME Inv, ExtractLast
    PROVE  Inv' /\ Refines
<1>1. CASE last = NULL
  BY <1>1, FailStep DEF ExtractLast
<1>2. CASE last # NULL
  <2>1. PICK c : Holds(c) /\ TypeOK
    BY DEF Inv
  <2>2. c \in Seq(Nat) /\ Len(c) \in Nat /\ \A i \in 1..Len(c) : c[i] \in 1..Len(node)
    BY <2>1, StateIs
  <2>3. ~cleared
    BY <1>2, <2>1 DEF Holds, Stale
  <2>4. PICK m : m = Len(c)
    OBVIOUS
  <2>5. m \in Nat /\ m # 0 /\ m \in 1..m /\ last = c[m]
    BY <1>2, <2>1, <2>2, <2>3, <2>4, ListIs
  <2>6. Linked(c, node, first, last) /\ count = m /\ Len(Items) = m
        /\ Items[m] = node[last].data
    BY <2>1, <2>3, <2>4, <2>5, ListIs
  <2>7. PICK prev : prev = node[last].prev
    OBVIOUS
  <2>8. /\ last' = prev
        /\ prev # NULL => node' = [node EXCEPT ![prev].next = NULL] /\ first' = first
        /\ prev = NULL => node' = node /\ first' = NULL
        /\ count' = count - 1 /\ cleared' = FALSE /\ result' = node[last].data
    BY <1>2, <2>7 DEF ExtractLast
  <2>9. node[last].next = NULL
    BY <2>4, <2>5, <2>6 DEF Linked, Leads
  <2>10. prev = NULL \/ prev \in 1..Len(node)
    <3>1. prev = IF 1 < m THEN c[m - 1] ELSE NULL
      BY <2>4, <2>5, <2>6, <2>7 DEF Linked
    <3>2. 1 < m => m - 1 \in 1..m
      BY <2>5
    <3> QED
      BY <2>2, <2>4, <3>1, <3>2
  <2>11. Joining(node, first, last, node', first', last', c[m])
    <3>1. node \in Seq(Nodes) /\ \A i \in 1..Len(node) : i # NULL
      BY <2>1 DEF TypeOK, NULL
    <3>2. CASE prev = NULL
      BY <2>5, <2>7, <2>8, <2>9, <3>1, <3>2 DEF Joining
    <3>3. CASE prev # NULL
      <4>1. PICK a \in Nodes : a = node[prev]
        BY <2>10, <3>1, <3>3
      <4>2. [a EXCEPT !.next = NULL] \in Nodes
        BY DEF Nodes, NULL
      <4>3. /\ node' \in Seq(Nodes) /\ Len(node') = Len(node)
            /\ \A i \in 1..Len(node) :
                   node'[i] = IF i = prev THEN [a EXCEPT !.next = NULL] ELSE node[i]
        BY <2>8, <2>10, <3>1, <3>3, <4>1, <4>2
      <4>4. \A i \in 1..Len(node) :
               /\ node'[i].data = node[i].data
               /\ node'[i].next = IF i = prev THEN NULL ELSE node[i].next
               /\ node'[i].prev = node[i].prev
               /\ node'[i].deleted = node[i].deleted
        BY <4>1, <4>3 DEF Nodes
      <4> QED
        BY <2>5, <2>7, <2>8, <2>9, <3>1, <3>3, <4>3, <4>4 DEF Joining
    <3> QED
      BY <3>2, <3>3
  <2>12. Inv' /\ Items \in Seq(Values) /\ Items' \in Seq(Values) /\ Without(Items, m, Items')
    BY <2>1, <2>3, <2>4, <2>5, <2>6, <2>8, <2>11, TakenOut
  <2>13. Items' = Front(Items)
    BY <2>5, <2>6, <2>12, WithoutIs
  <2>14. Items # <<>> /\ result' = Last(Items)
    BY <2>5, <2>6, <2>8, <2>12 DEF Last
  <2> QED
    BY <2>12, <2>13, <2>14
    DEF Refines, Abstract!Next, Abstract!TakeLast, Abstract!Last, Abstract!Front, Last, Front
<1> QED
  BY <1>1, <1>2

\* The place where a loop over the list stops.
LEMMA PlaceIs ==
    ASSUME TypeOK, NEW c, Holds(c), NEW d
    PROVE  \E p \in 1..(Len(c) + 1) :
               /\ PlaceOf(d) = p /\ Len(Chain) = Len(c)
               /\ p <= Len(c) => node[c[p]].data = d
               /\ \A j \in 1..Len(c) : j < p => node[c[j]].data # d
<1>1. PICK m \in Nat : m = Len(c) /\ Chain = c
  BY StateIs
<1>2. PICK found : found = {i \in 1..m : node[c[i]].data = d}
  OBVIOUS
<1>3. PlaceOf(d) = IF found = {} THEN m + 1
                   ELSE CHOOSE i \in found : \A j \in found : i <= j
  BY <1>1, <1>2 DEF PlaceOf
<1>4. CASE found = {}
  <2>1. m + 1 \in 1..(m + 1) /\ ~(m + 1 <= m)
    BY <1>1
  <2> QED
    BY <1>1, <1>2, <1>3, <1>4, <2>1
<1>5. CASE found # {}
  <2>1. found \subseteq Nat
    BY <1>2
  <2>2. PICK p : p = CHOOSE i \in found : \A j \in found : i <= j
    OBVIOUS
  <2>3. p \in found /\ \A j \in found : p <= j
    BY <1>5, <2>1, <2>2, LeastNumber
  <2>4. p \in 1..m /\ p \in 1..(m + 1) /\ node[c[p]].data = d
    BY <1>1, <1>2, <2>3
  <2>5. \A j \in 1..m : j < p => node[c[j]].data # d
    BY <1>2, <2>3, <2>4
  <2> QED
    BY <1>1, <1>3, <1>5, <2>2, <2>4, <2>5
<1> QED
  BY <1>4, <1>5

\* A loop only meets a deleted node after Clear.
LEMMA FaultyIs ==
    ASSUME TypeOK, NEW c, Holds(c), NEW place \in Nat, place > 0
    PROVE  FaultyUpTo(place) <=> cleared /\ Len(c) > 0
<1>1. PICK m \in Nat : m = Len(c) /\ Chain = c
  BY StateIs
<1>2. CASE cleared
  <2>1. m > 0 => Deleted(c[1]) /\ 1 \in 1..m /\ 1 <= place
    BY <1>1, <1>2 DEF Holds, Stale
  <2>2. m = 0 => 1..m = {}
    BY <1>1
  <2> QED
    BY <1>1, <1>2, <2>1, <2>2 DEF FaultyUpTo
<1>3. CASE ~cleared
  <2>1. \A i \in 1..m : ~Deleted(c[i])
    BY <1>1, <1>3 DEF Holds, Linked, Deleted
  <2> QED
    BY <1>1, <1>3, <2>1 DEF FaultyUpTo
<1> QED
  BY <1>2, <1>3

LEMMA FindStep ==
    ASSUME Inv, NEW d \in Values, Find(d)
    PROVE  Inv' /\ Refines
<1>1. PICK c : Holds(c) /\ TypeOK
  BY DEF Inv
<1>2. PICK p \in 1..(Len(c) + 1) :
          /\ PlaceOf(d) = p /\ Len(Chain) = Len(c)
          /\ p <= Len(c) => node[c[p]].data = d
          /\ \A j \in 1..Len(c) : j < p => node[c[j]].data # d
  BY <1>1, PlaceIs
<1>3. PICK m \in Nat : m = Len(c)
  BY <1>1, StateIs
<1>4. CASE FaultyUpTo(p)
  BY <1>2, <1>4, FailStep DEF Find
<1>5. CASE ~FaultyUpTo(p)
  <2>1. /\ result' = IF p <= m THEN d ELSE NoValue
        /\ UNCHANGED <<node, first, last, count, cleared>>
    BY <1>2, <1>3, <1>5 DEF Find
  <2>2. Inv' /\ Items' = Items
    BY <2>1, ListKept
  <2>3. p \in Nat /\ p > 0
    BY <1>2, <1>3
  <2>4. ~(cleared /\ m > 0)
    BY <1>1, <1>3, <1>5, <2>3, FaultyIs
  <2>5. (\E i \in 1..Len(Items) : Items[i] = d) <=> p <= m
    <3>1. CASE cleared
      <4>1. Items = <<>> /\ m = 0
        BY <1>1, <1>3, <2>4, <3>1, StateIs
      <4>2. ~(p <= m) /\ 1..Len(Items) = {}
        BY <2>3, <4>1
      <4> QED
        BY <4>2
    <3>2. CASE ~cleared
      <4>1. Len(Items) = m /\ \A i \in 1..m : Items[i] = node[c[i]].data
        BY <1>1, <1>3, <3>2, ListIs
      <4>2. p <= m => p \in 1..m
        BY <2>3
      <4>3. ~(p <= m) => \A j \in 1..m : j < p
        BY <2>3
      <4> QED
        BY <1>2, <1>3, <4>1, <4>2, <4>3
    <3> QED
      BY <3>1, <3>2
  <2>6. Abstract!LookUp(d)
    BY <2>1, <2>2, <2>5 DEF Abstract!LookUp, Abstract!Contains
  <2> QED
    BY <2>2, <2>6 DEF Refines, Abstract!Next
<1> QED
  BY <1>4, <1>5

LEMMA RemoveStep ==
    ASSUME Inv, NEW d \in Values, NEW repeat \in BOOLEAN, RemoveEqual(d, repeat)
    PROVE  Inv' /\ Refines
<1>1. PICK c : Holds(c) /\ TypeOK
  BY DEF Inv
<1>2. PICK p \in 1..(Len(c) + 1) :
          /\ PlaceOf(d) = p /\ Len(Chain) = Len(c)
          /\ p <= Len(c) => node[c[p]].data = d
          /\ \A j \in 1..Len(c) : j < p => node[c[j]].data # d
  BY <1>1, PlaceIs
<1>3. PICK m \in Nat : m = Len(c) /\ Chain = c
  BY <1>1, StateIs
<1>4. CASE FaultyUpTo(p)
  BY <1>2, <1>4, FailStep DEF RemoveEqual
<1>5. CASE ~FaultyUpTo(p) /\ p > m
  <2>1. UNCHANGED vars
    BY <1>2, <1>3, <1>5 DEF RemoveEqual
  <2> QED
    BY <2>1, ListKept DEF vars, Refines
<1>6. CASE ~FaultyUpTo(p) /\ ~(p > m) /\ repeat
  <2>1. Fails("deleted node")
    BY <1>2, <1>3, <1>6 DEF RemoveEqual
  <2> QED
    BY <2>1, FailStep
<1>7. CASE ~FaultyUpTo(p) /\ ~(p > m) /\ ~repeat
  <2>1. /\ Unlink(c[p]) /\ count' = count - 1 /\ cleared' = FALSE /\ result' = result
    BY <1>2, <1>3, <1>7 DEF RemoveEqual
  <2>2. p \in Nat /\ p > 0 /\ p \in 1..m /\ m > 0
    BY <1>2, <1>3, <1>7
  <2>3. ~cleared
    BY <1>1, <1>3, <1>7, <2>2, FaultyIs
  <2>4. /\ Linked(c, node, first, last) /\ count = Len(c) /\ Len(Items) = m
        /\ \A i \in 1..m : Items[i] = node[c[i]].data
    BY <1>1, <1>3, <2>3, ListIs
  <2>5. Joining(node, first, last, node', first', last', c[p])
    <3>1. PICK a, prev, next : a = c[p] /\ prev = node[a].prev /\ next = node[a].next
      OBVIOUS
    <3>2. node' = [i \in 1..Len(node) |->
                      [node[i] EXCEPT !.next = IF i = prev THEN next ELSE @,
                                      !.prev = IF i = next THEN prev ELSE @,
                                      !.deleted = (i = a) \/ @]]
      BY <2>1, <3>1 DEF Unlink
    <3>3. node \in Seq(Nodes) /\ Len(node) \in Nat
      BY <1>1 DEF TypeOK
    <3>4. a \in 1..Len(node)
      BY <1>1, <1>3, <2>2, <3>1, StateIs
    <3>5. prev \in Nat /\ next \in Nat
      <4>1. node[a] \in Nodes
        BY <3>3, <3>4
      <4> QED
        BY <3>1, <4>1 DEF Nodes
    <3>6. ASSUME NEW i \in 1..Len(node)
          PROVE  /\ node'[i] \in Nodes
                 /\ node'[i].data = node[i].data
                 /\ node'[i].next = IF i = prev THEN next ELSE node[i].next
                 /\ node'[i].prev = IF i = next THEN prev ELSE node[i].prev
                 /\ node'[i].deleted = ((i = a) \/ node[i].deleted)
      <4>1. PICK b \in Nodes : b = node[i]
        BY <3>3
      <4>2. PICK x, y, z : /\ x = (IF i = prev THEN next ELSE b.next)
                           /\ y = (IF i = next THEN prev ELSE b.prev)
                           /\ z = ((i = a) \/ b.deleted)
        OBVIOUS
      <4>3. x \in Nat /\ y \in Nat /\ z \in BOOLEAN
        BY <3>5, <4>2 DEF Nodes
      <4>4. node'[i] = [b EXCEPT !.next = x, !.prev = y, !.deleted = z]
        BY <3>2, <4>1, <4>2 DEF Nodes
      <4> QED
        BY <4>1, <4>2, <4>3, <4>4 DEF Nodes
    <3>7. node' \in Seq(Nodes) /\ Len(node') = Len(node)
      <4>1. node' = [i \in 1..Len(node) |-> node'[i]]
        BY <3>2
      <4> QED
        BY <3>3, <3>6, <4>1
    <3>8. \A i \in 1..Len(node) :
             /\ node'[i].data = node[i].data
             /\ node'[i].next = IF i = prev THEN next ELSE node[i].next
             /\ node'[i].prev = IF i = next THEN prev ELSE node[i].prev
             /\ node'[i].deleted => i = a \/ node[i].deleted
      BY <3>6
    <3>9. /\ first' = (IF prev = NULL THEN next ELSE first)
          /\ last' = (IF next = NULL THEN prev ELSE last)
      BY <2>1, <3>1 DEF Unlink
    <3> QED
      BY <3>1, <3>7, <3>8, <3>9 DEF Joining
  <2>6. Inv' /\ Items \in Seq(Values) /\ Items' \in Seq(Values) /\ Without(Items, p, Items')
    BY <1>1, <1>3, <2>1, <2>2, <2>3, <2>4, <2>5, TakenOut
  <2>7. Items' = RemoveAt(Items, p)
    BY <2>2, <2>4, <2>6, WithoutIs
  <2>8. Items[p] = d /\ \A j \in 1..(p - 1) : Items[j] # d
    <3>1. ASSUME NEW j \in 1..(p - 1) PROVE j \in 1..m /\ j < p
      BY <2>2
    <3> QED
      BY <1>2, <1>3, <1>7, <2>2, <2>4, <3>1
  <2>9. Abstract!DeleteFirst(d)
    BY <2>1, <2>2, <2>4, <2>7, <2>8 DEF Abstract!DeleteFirst, Abstract!RemoveAt, RemoveAt
  <2> QED
    BY <2>6, <2>9 DEF Refines, Abstract!Next
<1> QED
  BY <1>3, <1>4, <1>5, <1>6, <1>7

LEMMA IndexStep ==
    ASSUME Inv, NEW n \in Nat, Index(n)
    PROVE  Inv' /\ Refines
<1>1. PICK c : Holds(c) /\ TypeOK
  BY DEF Inv
<1>2. PICK m \in Nat : m = Len(c) /\ Chain = c
  BY <1>1, StateIs
<1>3. CASE FaultyUpTo(n + 1)
  BY <1>3, FailStep DEF Index
<1>4. CASE ~FaultyUpTo(n + 1) /\ n + 1 > m
  <2>1. Fails("null pointer")
    BY <1>2, <1>4 DEF Index
  <2> QED
    BY <2>1, FailStep
<1>5. CASE ~FaultyUpTo(n + 1) /\ ~(n + 1 > m)
  <2>1. /\ result' = node[c[n + 1]].data
        /\ UNCHANGED <<node, first, last, count, cleared>>
    BY <1>2, <1>5 DEF Index
  <2>2. Inv' /\ Items' = Items
    BY <2>1, ListKept
  <2>3. n + 1 \in Nat /\ n + 1 > 0 /\ n + 1 \in 1..m /\ m > 0
    BY <1>2, <1>5
  <2>4. ~cleared
    BY <1>1, <1>2, <1>5, <2>3, FaultyIs
  <2>5. Len(Items) = m /\ Items[n + 1] = node[c[n + 1]].data
    BY <1>1, <1>2, <2>3, <2>4, ListIs
  <2>6. Abstract!Read(n + 1)
    BY <2>1, <2>2, <2>3, <2>5 DEF Abstract!Read
  <2> QED
    BY <2>2, <2>3, <2>5, <2>6 DEF Refines, Abstract!Next
<1> QED
  BY <1>3, <1>4, <1>5

\* Clear visits every node of the path, so the count comes to zero.
LEMMA ClearStep ==
    ASSUME Inv, Clear
    PROVE  Inv' /\ Refines /\ fault' = "none"
<1>1. PICK c : Holds(c) /\ TypeOK
  BY DEF Inv
<1>2. /\ Leads(c, node, first) /\ c \in Seq(Nat) /\ Len(c) \in Nat
      /\ \A i \in 1..Len(c) : c[i] \in 1..Len(node)
  BY <1>1, StateIs
<1>3. node \in Seq(Nodes) /\ Len(node) \in Nat
  BY <1>1 DEF TypeOK
<1>4. PICK visited : visited = Path(last, Prevs)
  OBVIOUS
<1>5. /\ count = Len(visited)
      /\ ~cleared => \A a : Contains(visited, a) <=> \E i \in 1..Len(c) : c[i] = a
  <2>1. CASE cleared
    <3>1. last = NULL /\ count = 0
      BY <1>1, <2>1 DEF Holds, Stale
    <3>2. PICK e : e = <<>>
      OBVIOUS
    <3>3. Linked(e, node, NULL, NULL) /\ Len(e) = 0
      <4>1. e \in Seq(Nat) /\ Len(e) = 0 /\ 1..0 = {} /\ 0 <= Len(node)
        BY <1>3, <3>2
      <4> QED
        BY <4>1 DEF Linked, Leads
    <3>4. Len(Path(NULL, Prevs)) = Len(e)
      BY <1>3, <3>3, LoopBack DEF Prevs
    <3> QED
      BY <1>4, <2>1, <3>1, <3>3, <3>4
  <2>2. CASE ~cleared
    <3>1. Linked(c, node, first, last) /\ count = Len(c)
      BY <1>1, <2>2 DEF Holds
    <3>2. /\ Len(Path(last, Prevs)) = Len(c)
          /\ \A a : Contains(Path(last, Prevs), a) <=> \E i \in 1..Len(c) : c[i] = a
      BY <1>3, <3>1, LoopBack DEF Prevs
    <3> QED
      BY <1>4, <3>1, <3>2
  <2> QED
    BY <2>1, <2>2
<1>6. /\ node' = [a \in 1..Len(node) |->
                     [node[a] EXCEPT !.deleted = @ \/ Contains(visited, a)]]
      /\ last' = NULL /\ count' = count - Len(visited) /\ cleared' = TRUE
      /\ fault' = (IF count = Len(visited) THEN "none" ELSE "assertion")
      /\ first' = first /\ result' = result
  BY <1>4 DEF Clear
<1>7. ASSUME NEW a \in 1..Len(node)
      PROVE  /\ node'[a] \in Nodes /\ node'[a].next = node[a].next
             /\ node'[a].deleted = (node[a].deleted \/ Contains(visited, a))
  <2>1. PICK b \in Nodes : b = node[a]
    BY <1>3
  <2>2. PICK z \in BOOLEAN : z = (b.deleted \/ Contains(visited, a))
    BY DEF Nodes, Contains
  <2>3. node'[a] = [b EXCEPT !.deleted = z]
    BY <1>6, <2>1, <2>2 DEF Nodes
  <2> QED
    BY <2>1, <2>2, <2>3 DEF Nodes
<1>8. node' \in Seq(Nodes) /\ Len(node') = Len(node)
  <2>1. node' = [a \in 1..Len(node) |-> node'[a]]
    BY <1>6
  <2> QED
    BY <1>3, <1>7, <2>1
<1>9. count' = 0 /\ fault' = "none"
  BY <1>1, <1>5, <1>6 DEF TypeOK
<1>10. TypeOK'
  BY <1>1, <1>6, <1>8, <1>9 DEF TypeOK, NULL
<1>11. Leads(c, node', first')
  <2>1. \A i \in 1..Len(c) : node'[c[i]].next = node[c[i]].next
    BY <1>2, <1>7
  <2> QED
    BY <1>2, <1>6, <1>8, <2>1 DEF Leads
<1>12. Len(c) > 0 => node'[c[1]].deleted
  <2> SUFFICES ASSUME Len(c) > 0 PROVE node'[c[1]].deleted
    OBVIOUS
  <2>1. 1 \in 1..Len(c) /\ c[1] \in 1..Len(node)
    BY <1>2
  <2>2. CASE cleared
    <3>1. node[c[1]].deleted
      BY <1>1, <2>2 DEF Holds, Stale, Deleted
    <3> QED
      BY <1>7, <2>1, <3>1
  <2>3. CASE ~cleared
    <3>1. Contains(visited, c[1])
      BY <1>5, <2>1, <2>3
    <3> QED
      BY <1>7, <2>1, <3>1
  <2> QED
    BY <2>2, <2>3
<1>13. Holds(c)'
  BY <1>6, <1>9, <1>11, <1>12 DEF Holds, Stale, Deleted
<1>14. Abstract!Empty
  BY <1>6 DEF Abstract!Empty, Items
<1> QED
  BY <1>9, <1>10, <1>13, <1>14 DEF Inv, Refines, Abstract!Next

LEMMA InitInv == Init => Inv
<1> SUFFICES ASSUME Init PROVE Inv
  OBVIOUS
<1>1. PICK c : c = <<>>
  OBVIOUS
<1>2. c \in Seq(Nat) /\ Len(c) = 0 /\ 1..0 = {} /\ Len(node) = 0 /\ node \in Seq(Nodes)
  BY <1>1 DEF Init
<1>3. Linked(c, node, first, last) /\ count = Len(c)
  BY <1>2 DEF Init, Linked, Leads
<1>4. Holds(c)
  BY <1>3 DEF Init, Holds
<1> QED
  BY <1>2, <1>4 DEF Init, Inv, TypeOK, NULL

\* Every step keeps the invariant, and is one of the sequence or leaves it alone.
LEMMA NextStep ==
    ASSUME Inv, [Next]_vars
    PROVE  Inv' /\ Refines
<1>1. CASE UNCHANGED vars
  BY <1>1, ListKept DEF vars, Refines
<1>2. ASSUME NEW d \in Values, NEW atStart \in BOOLEAN, Add(d, atStart)
      PROVE  Inv' /\ Refines
  BY <1>2, AddStep
<1>3. CASE ExtractFirst
  BY <1>3, ExtractFirstStep
<1>4. CASE ExtractLast
  BY <1>4, ExtractLastStep
<1>5. ASSUME NEW d \in Values, Find(d) PROVE Inv' /\ Refines
  BY <1>5, FindStep
<1>6. ASSUME NEW d \in Values, NEW repeat \in BOOLEAN, RemoveEqual(d, repeat)
      PROVE  Inv' /\ Refines
  BY <1>6, RemoveStep
<1>7. ASSUME NEW n \in 0..MaxNodes, Index(n) PROVE Inv' /\ Refines
  BY <1>7, IndexStep, LinkedListAssumption
<1>8. CASE Clear
  BY <1>8, ClearStep
<1>9. CASE Stop
  BY <1>1, <1>9 DEF Stop
<1> QED
  BY <1>1, <1>2, <1>3, <1>4, <1>5, <1>6, <1>7, <1>8, <1>9 DEF Next

--------------------------------------------------------------------------------
(* The theorems.                                                            *)

\* The list is either a path of nodes linked both ways, or was cleared.
THEOREM InductiveInvariant == Spec => []Inv
<1>1. Inv /\ [Next]_vars => Inv'
  BY NextStep
<1> QED
  BY <1>1, InitInv, PTL DEF Spec

\* The links of List.hpp agree both ways, end at both ends, and count what Count counts.
THEOREM AlwaysWellLinked == Spec => []WellLinked
<1>1. Inv => WellLinked
  <2> SUFFICES ASSUME Inv, last # NULL
               PROVE  /\ Len(Chain) > 0 /\ Last(Chain) = last /\ count = Len(Chain)
                      /\ node[first].prev = NULL
                      /\ \A i \in 1..(Len(Chain) - 1) : node[Chain[i + 1]].prev = Chain[i]
                      /\ \A i \in 1..Len(Chain) : ~Deleted(Chain[i])
    BY DEF WellLinked
  <2>1. PICK c : Holds(c) /\ TypeOK
    BY DEF Inv
  <2>2. PICK m \in Nat : m = Len(c) /\ Chain = c /\ c \in Seq(Nat)
    BY <2>1, StateIs
  <2>3. ~cleared
    BY <2>1 DEF Holds, Stale
  <2>4. /\ Linked(c, node, first, last) /\ count = m
        /\ first = (IF m = 0 THEN NULL ELSE c[1]) /\ last = IF m = 0 THEN NULL ELSE c[m]
    BY <2>1, <2>2, <2>3, ListIs
  <2>5. /\ m > 0 /\ first = c[1] /\ last = c[m] /\ 1 \in 1..m
    BY <2>2, <2>4
  <2>6. \A i \in 1..m : /\ ~node[c[i]].deleted
                        /\ node[c[i]].prev = IF 1 < i THEN c[i - 1] ELSE NULL
    BY <2>2, <2>4 DEF Linked
  <2>7. node[first].prev = NULL
    BY <2>5, <2>6
  <2>8. ASSUME NEW i \in 1..(m - 1) PROVE node[c[i + 1]].prev = c[i]
    <3>1. i + 1 \in 1..m /\ 1 < i + 1 /\ (i + 1) - 1 = i
      BY <2>2
    <3> QED
      BY <2>6, <3>1
  <2>9. Last(Chain) = last
    BY <2>2, <2>5 DEF Last
  <2> QED
    BY <2>2, <2>4, <2>5, <2>6, <2>7, <2>8, <2>9 DEF Deleted
<1> QED
  BY <1>1, InductiveInvariant, PTL

\* In any order of calls, List is a sequence of values.
THEOREM ListIsASequence == Spec => ImplementsSequence
<1>1. Init => Abstract!Init
  BY DEF Init, Abstract!Init, Items
<1>2. Inv /\ [Next]_vars => [Abstract!Next]_<<Items, result>>
  BY NextStep DEF Refines
<1> QED
  BY <1>1, <1>2, InductiveInvariant, PTL DEF Spec, ImplementsSequence, Abstract!Spec

\* What a call that stays within the rules can assume of the loops it runs.
LEMMA LegalStep ==
    ASSUME Inv, [Next]_vars, Running, fault' # "none"
    PROVE  \/ cleared
           \/ count = 0
           \/ \E d \in Values : Contains(Items, d) /\ RemoveEqual(d, TRUE)
           \/ \E n \in count..MaxNodes : Index(n)
<1> SUFFICES ASSUME ~cleared, count # 0
             PROVE  \/ \E d \in Values : Contains(Items, d) /\ RemoveEqual(d, TRUE)
                    \/ \E n \in count..MaxNodes : Index(n)
  OBVIOUS
<1>1. PICK c : Holds(c) /\ TypeOK
  BY DEF Inv
<1>2. PICK m \in Nat : m = Len(c) /\ Chain = c
  BY <1>1, StateIs
<1>3. /\ Linked(c, node, first, last) /\ count = m /\ Len(Items) = m
      /\ \A i \in 1..m : Items[i] = node[c[i]].data
      /\ first = (IF m = 0 THEN NULL ELSE c[1]) /\ last = IF m = 0 THEN NULL ELSE c[m]
  BY <1>1, <1>2, ListIs
<1>4. /\ m > 0 /\ first = c[1] /\ last = c[m] /\ 1 \in 1..m /\ m \in 1..m
      /\ c[1] \in 1..Len(node) /\ c[m] \in 1..Len(node)
  <2>1. m > 0 /\ 1 \in 1..m /\ m \in 1..m
    BY <1>2, <1>3
  <2> QED
    BY <1>1, <1>2, <1>3, <2>1, StateIs
<1>5. first # NULL /\ last # NULL /\ ~Deleted(first)
  BY <1>2, <1>3, <1>4 DEF NULL, Linked, Deleted
<1>6. \A place \in Nat : place > 0 => ~FaultyUpTo(place)
  BY <1>1, FaultyIs
<1>7. fault = "none" /\ fault' # fault
  BY DEF Running
<1>8. ~UNCHANGED vars
  BY <1>7 DEF vars
<1>9. ASSUME NEW d \in Values, NEW atStart \in BOOLEAN, Add(d, atStart) PROVE FALSE
  BY <1>7, <1>9 DEF Add
<1>10. ~ExtractFirst
  BY <1>5, <1>7 DEF ExtractFirst
<1>11. ~ExtractLast
  BY <1>5, <1>7 DEF ExtractLast
<1>12. ASSUME NEW d \in Values
       PROVE  ~FaultyUpTo(PlaceOf(d)) /\ (PlaceOf(d) <= m => Contains(Items, d))
  <2>1. PICK p \in 1..(m + 1) : PlaceOf(d) = p /\ (p <= m => node[c[p]].data = d)
    BY <1>1, <1>2, PlaceIs
  <2>2. p \in Nat /\ p > 0 /\ (p <= m => p \in 1..m)
    BY <1>2, <2>1
  <2>3. ~FaultyUpTo(p)
    BY <1>6, <2>2
  <2> QED
    BY <1>3, <2>1, <2>2, <2>3 DEF Contains
<1>13. ASSUME NEW d \in Values, Find(d) PROVE FALSE
  BY <1>7, <1>12, <1>13 DEF Find
<1>14. ASSUME NEW d \in Values, NEW repeat \in BOOLEAN, RemoveEqual(d, repeat)
       PROVE  Contains(Items, d) /\ RemoveEqual(d, TRUE)
  <2>1. ~FaultyUpTo(PlaceOf(d))
    BY <1>12
  <2>2. ~(PlaceOf(d) > m)
    BY <1>2, <1>8, <1>14, <2>1 DEF RemoveEqual
  <2>3. repeat
    BY <1>2, <1>7, <1>14, <2>1, <2>2 DEF RemoveEqual
  <2>4. PlaceOf(d) <= m
    BY <1>1, <1>2, <2>2, PlaceIs
  <2> QED
    BY <1>12, <1>14, <2>3, <2>4
<1>15. ASSUME NEW n \in 0..MaxNodes, Index(n) PROVE n \in count..MaxNodes
  <2>1. n \in Nat /\ n + 1 \in Nat /\ n + 1 > 0
    BY LinkedListAssumption
  <2>2. ~FaultyUpTo(n + 1)
    BY <1>6, <2>1
  <2>3. n + 1 > m
    BY <1>2, <1>7, <1>15, <2>2 DEF Index
  <2> QED
    BY <1>2, <1>3, <2>1, <2>3, LinkedListAssumption
<1>16. ~Clear
  BY <1>7, ClearStep
<1>17. ~Stop
  BY <1>8 DEF Stop
<1> QED
  BY <1>8, <1>9, <1>10, <1>11, <1>13, <1>14, <1>15, <1>16, <1>17 DEF Next

\* A caller that keeps to the rules never reaches a deleted node or a null pointer.
THEOREM LegalCallsAreAlwaysSafe == Spec => LegalCallsAreSafe
<1>1. Inv /\ [Next]_vars =>
         [fault' # "none" /\ Running =>
             \/ cleared
             \/ count = 0
             \/ \E d \in Values : Contains(Items, d) /\ RemoveEqual(d, TRUE)
             \/ \E n \in count..MaxNodes : Index(n)]_vars
  BY LegalStep
<1> QED
  BY <1>1, InductiveInvariant, PTL DEF Spec, LegalCallsAreSafe
================================================================================
