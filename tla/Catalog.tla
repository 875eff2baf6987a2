-------------------------------- MODULE Catalog --------------------------------
(***************************************************************************)
(* A message catalog: the file that was mapped, what the loader makes of    *)
(* it, the search of a message and the choice of a plural form.             *)
(*                                                                         *)
(* A file is a record: short, magic, the two halves of its revision, its    *)
(* pairs of strings in order, its hash table as stored, its segments (the   *)
(* name of a directive and whether a null character ends it), its pairs of  *)
(* system dependent strings, and what the header entry says.  A string is a *)
(* sequence of characters, with the null character between plural forms; a  *)
(* system dependent string one of <<static characters, reference>>.         *)
(***************************************************************************)
EXTENDS PluralExpression, SystemDependent, FiniteSets, FiniteSetsExt, Bitwise

CONSTANTS
    Code,          \* the number of a character; that of the null character is 0
    HASHWORDBITS,  \* the width of a hash value; of words too, of which bytes are half
    Files,         \* the files there are
    Msgids,        \* the messages that are looked up
    Numbers        \* the numbers plural forms are chosen for

ASSUME CatalogAssumption ==
    /\ Code["NUL"] = 0 /\ HASHWORDBITS \in {12, 16, 20, 24}
    /\ Numbers \subseteq 0..(UnsignedLong - 1)

NUL == "NUL"

SEGMENTS_END == -1

VARIABLES
    file,     \* the file
    domain,   \* what was loaded
    found     \* the last result: message, number, form

vars == <<file, domain, found>>
--------------------------------------------------------------------------------
(* Bytes and strings.                                                       *)

SWAP(i) == LET half == 2 ^ (HASHWORDBITS \div 2) IN (i % half) * half + i \div half

W(flag, data) == IF flag THEN SWAP(data) ELSE data

\* What C reads from a place: the characters before the next null character.
CString(s) ==
    LET end == SelectInSeq(s, LAMBDA c : c = NUL)
    IN  IF end = 0 THEN s ELSE SubSeq(s, 1, end - 1)

strcmp(a, b) ==
    LET Byte(s, i) == IF i <= Len(s) THEN Code[s[i]] ELSE 0
        longer == Max({Len(a), Len(b)})
        differ == {i \in 1..longer : Byte(a, i) # Byte(b, i)}
    IN  IF differ = {} THEN 0 ELSE Byte(a, Min(differ)) - Byte(b, Min(differ))

\* One character more; the top four bits are folded into the second lowest four.
Hashed(hval, c) ==
    LET sum == (hval * 16 + Code[c]) % 2 ^ HASHWORDBITS
        g == sum \div 2 ^ (HASHWORDBITS - 4)
    IN  (sum ^^ (g * 16)) % 2 ^ (HASHWORDBITS - 4)

hash_string(s) == FoldLeft(Hashed, 0, CString(s))

\* The next place of the hash table that is tried.
NextPlace(idx, incr, size) == IF idx >= size - incr THEN idx - (size - incr) ELSE idx + incr

\* The places that are tried for a message, as many as the table has.
Places(msgid, size) ==
    LET hash == hash_string(msgid)
        place[k \in 0..(size - 1)] ==
            IF k = 0 THEN hash % size ELSE NextPlace(place[k - 1], 1 + (hash % (size - 2)), size)
    IN  [k \in 1..size |-> place[k - 1]]
--------------------------------------------------------------------------------
(* The loader.  No domain is a record with a kind only; so are its faults:  *)
(* writing beyond the allocated memory, calling abort because its two walks *)
(* over the system dependent strings disagree, and searching for ever.      *)

NoDomain(kind) == [kind |-> kind]

\* Whether the first static characters are all of a system dependent string.
OnlyStatic(string) == string[1][2] = SEGMENTS_END

\* The place where the walk over a string ends.
LastSegment(values, string) ==
    Min({i \in 1..Len(string) :
            \/ string[i][2] = SEGMENTS_END
            \/ string[i][2] >= Len(values)
            \/ values[string[i][2] + 1] = NULLVALUE})

\* How it ends: a reference that is no segment, one without a value, or the end.
Verdict(values, string) ==
    LET ref == string[LastSegment(values, string)][2]
    IN  IF ref = SEGMENTS_END THEN "valid" ELSE IF ref >= Len(values) THEN "invalid" ELSE "dropped"

PairVerdict(values, pair) ==
    IF Verdict(values, pair[1]) # "valid" THEN Verdict(values, pair[1])
    ELSE Verdict(values, pair[2])

\* The bytes the first walk adds for a segment and the value it refers to; a reference it stops
\* at adds none.
SegmentNeed(values, segment) ==
    Len(segment[1])
    + (IF segment[2] \in 0..(Len(values) - 1) /\ values[segment[2] + 1] # NULLVALUE
       THEN Len(values[segment[2] + 1]) ELSE 0)

\* The memory it counts for a string, up to where it ends: none if all of it is in the file.
Need(values, string) ==
    IF OnlyStatic(string) THEN 0
    ELSE FoldLeft(LAMBDA need, segment : need + SegmentNeed(values, segment), 0,
                  SubSeq(string, 1, LastSegment(values, string)))

MemoryNeed(values, pairs) ==
    FoldLeft(LAMBDA n, p : n + Need(values, p[1]) + Need(values, p[2]), 0, pairs)

\* The second walk decides again whether a string is kept, and tests only for values: the last
\* segment of a string is the one that refers to none.
Kept(values, string) ==
    \A i \in 1..(Len(string) - 1) : values[string[i][2] + 1] # NULLVALUE

Characters(values, string) ==
    FoldLeft(LAMBDA chars, segment :
                 chars \o segment[1]
                       \o (IF segment[2] = SEGMENTS_END THEN <<>> ELSE values[segment[2] + 1]),
             <<>>, string)

\* The strings put together, one after the other, and the memory they take.
Assembled(values, pairs) ==
    FoldLeft(LAMBDA done, p :
                 [ strings |-> Append(done.strings,
                                      <<Characters(values, p[1]), Characters(values, p[2])>>),
                   memory |-> done.memory
                              + (IF OnlyStatic(p[1]) THEN 0 ELSE Len(Characters(values, p[1])))
                              + (IF OnlyStatic(p[2]) THEN 0 ELSE Len(Characters(values, p[2]))) ],
             [strings |-> <<>>, memory |-> 0], pairs)

\* The hash table with the places of the strings put together.
Augmented(table, nstrings, strings) ==
    FoldLeft(LAMBDA words, i :
                 LET places == Places(strings[i][1], Len(words))
                     empty == {k \in 1..Len(words) : words[places[k] + 1] = 0}
                 IN  IF empty = {} THEN words
                     ELSE [words EXCEPT ![places[Min(empty)] + 1] = nstrings + i],
             table, [i \in 1..Len(strings) |-> i])

\* A table without an empty word: the loop over it ends no more.
FullBefore(table, count) == Cardinality({i \in 1..Len(table) : table[i] = 0}) < count

\* What follows "nplurals=" does not start with a digit.
NoNumber == -1

GERMANIC_PLURAL == <<"not_equal", <<"var">>, <<"num", 1>>>>

RECURSIVE Parsed(_, _)
Parsed(parser, text) ==
    IF parser.doing \in Returned THEN parser
    ELSE IF NeedsToken(parser)
    THEN LET scanned == yylex(text)
         IN  Parsed([parser EXCEPT !.yychar = [kind |-> scanned.kind, value |-> scanned.value]],
                    scanned.rest)
    ELSE Parsed(Step(parser), text)

\* What the parser made of an expression, if it accepted one.
ParsedPlural(d, parser, nplurals) ==
    IF parser.doing = "accepted" THEN [d EXCEPT !.plural = parser.res, !.nplurals = nplurals]
    ELSE d

\* The plural forms of a header: a number and an expression; or they stay one and many.
EXTRACT_PLURAL_EXPRESSION(d, header) ==
    IF header.hasPlural /\ header.nplurals # NoNumber
    THEN ParsedPlural(d, Parsed(Parser(YYMAXDEPTH), header.plural), header.nplurals)
    ELSE d

\* The static part, which is in the file, and no other strings.
Static(f) ==
    [ kind |-> "loaded", strings |-> f.strings, sysdep |-> <<>>, hash |-> f.hash,
      must_swap_hash_tab |-> f.magic = "swapped", plural |-> GERMANIC_PLURAL, nplurals |-> 2 ]

\* Faulty variant of CountedPairs: a translation without a value does not drop the pair.
CountedByOriginal(values, sysdep) ==
    SelectSeq(sysdep, LAMBDA p : Verdict(values, p[1]) = "valid")

\* The pairs the first walk counts, for which memory is allocated.
CountedPairs(values, sysdep) ==
    SelectSeq(sysdep, LAMBDA p : PairVerdict(values, p) = "valid")

\* The pairs the second walk writes into that memory.
KeptPairs(values, sysdep) ==
    SelectSeq(sysdep, LAMBDA p : Kept(values, p[1]) /\ Kept(values, p[2]))

\* Faulty variant of Extended: the new table is read like the one in the file.
ExtendedSwapped(d, counted, need, done, table) ==
    IF counted = 0 THEN d
    ELSE IF done.memory > need \/ Len(done.strings) > counted THEN NoDomain("overrun")
    ELSE IF Len(done.strings) # counted THEN NoDomain("abort")
    ELSE IF FullBefore(table, counted) THEN NoDomain("endless")
    ELSE [d EXCEPT !.sysdep = done.strings,
                   !.hash = Augmented(table, Len(d.strings), done.strings)]

\* The strings put together in the memory that was counted, if any were counted, and a hash
\* table with them.  The loader aborts when the two walks do not agree on their number.
Extended(d, counted, need, done, table) ==
    IF counted = 0 THEN d
    ELSE IF done.memory > need \/ Len(done.strings) > counted THEN NoDomain("overrun")
    ELSE IF Len(done.strings) # counted THEN NoDomain("abort")
    ELSE IF FullBefore(table, counted) THEN NoDomain("endless")
    ELSE [d EXCEPT !.sysdep = done.strings,
                   !.hash = Augmented(table, Len(d.strings), done.strings),
                   !.must_swap_hash_tab = FALSE]

\* The system dependent strings of a file: the second walk is made only if the first one
\* counted something.
WithSystemDependent(f, values) ==
    LET counted == CountedPairs(values, f.sysdep)
    IN  Extended(Static(f), Len(counted), MemoryNeed(values, counted),
                 Assembled(values, KeptPairs(values, f.sysdep)),
                 [i \in 1..Len(f.hash) |-> W(f.magic = "swapped", f.hash[i])])

\* The values of the segments.
Values(f) == [i \in 1..Len(f.segments) |-> get_sysdep_segment_value(f.segments[i].name)]

\* No catalog, or one of a revision this loader does not know.
Refused(f) ==
    f.short \/ f.magic \notin {"native", "swapped"} \/ f.revision[1] \notin {0, 1}

\* A minor revision above 0 needs a hash table of more than two words, segments that end, and
\* references to segments only.
Invalid(f) ==
    /\ f.revision[2] # 0
    /\ \/ Len(f.hash) <= 2
       \/ /\ f.sysdep # <<>>
          /\ \/ \E i \in 1..Len(f.segments) : ~f.segments[i].ended
             \/ \E i \in 1..Len(f.sysdep) : PairVerdict(Values(f), f.sysdep[i]) = "invalid"

\* The strings of the file, before the header entry is read.
Tables(f) ==
    IF Refused(f) \/ Invalid(f) THEN NoDomain("none")
    ELSE IF f.revision[2] = 0 THEN Static(f)
    ELSE WithSystemDependent(f, Values(f))
--------------------------------------------------------------------------------
(* The search.  The index of a string counts from 0.                        *)

Missing == -1
BeyondTable == -2
Endless == -3

\* Whether the string of an index is the message.
Matches(d, nstr, msgid) ==
    LET nstrings == Len(d.strings)
        orig == IF nstr < nstrings THEN d.strings[nstr + 1][1] ELSE d.sysdep[nstr - nstrings + 1][1]
    IN  /\ IF nstr < nstrings THEN Len(orig) >= Len(msgid) ELSE Len(orig) > Len(msgid)
        /\ strcmp(CString(msgid), CString(orig)) = 0

\* Through the hash table, up to an empty word.
LocateHashed(d, msgid) ==
    LET size == Len(d.hash)
        places == Places(msgid, size)
        nstr == [k \in 1..size |-> W(d.must_swap_hash_tab, d.hash[places[k] + 1]) - 1]
        strings == Len(d.strings) + Len(d.sysdep)
        stops == {k \in 1..size : nstr[k] = -1 \/ nstr[k] >= strings \/ Matches(d, nstr[k], msgid)}
    IN  IF stops = {} THEN Endless
        ELSE IF nstr[Min(stops)] >= strings THEN BeyondTable
        ELSE nstr[Min(stops)]

\* Without one, through the sorted strings.
RECURSIVE LocateSorted(_, _, _, _)
LocateSorted(d, msgid, bottom, top) ==
    LET act == (bottom + top) \div 2
        cmp_val == strcmp(CString(msgid), CString(d.strings[act + 1][1]))
    IN  IF bottom >= top THEN Missing
        ELSE IF cmp_val < 0 THEN LocateSorted(d, msgid, bottom, act)
        ELSE IF cmp_val > 0 THEN LocateSorted(d, msgid, act + 1, top)
        ELSE act

Locate(d, msgid) ==
    IF Len(d.hash) > 2 THEN LocateHashed(d, msgid)
    ELSE LocateSorted(d, msgid, 0, Len(d.strings))

\* The translation at an index and the bytes it has, the last null character included.
Translation(d, act) ==
    IF act < Len(d.strings)
    THEN [result |-> Append(d.strings[act + 1][2], NUL), len |-> Len(d.strings[act + 1][2]) + 1]
    ELSE LET trans == d.sysdep[act - Len(d.strings) + 1][2]
         IN  [result |-> trans, len |-> Len(trans)]

\* The string after an index of others, or the first when there are not so many.
RECURSIVE Skip(_, _, _)
Skip(translation, p, index) ==
    LET rest == SubSeq(translation.result, p + 1, translation.len)
        next == p + Len(CString(rest)) + 1
    IN  IF index = 0 THEN CString(rest)
        ELSE IF next >= translation.len THEN CString(translation.result)
        ELSE Skip(translation, next, index - 1)

\* Faulty variant of plural_lookup: as many forms as the header says, and one more.
plural_lookup_more(d, n, translation) ==
    LET index == plural_eval(d.plural, n)
    IN  IF index = Fault THEN <<"SIGFPE">>
        ELSE Skip(translation, 0, IF index > d.nplurals THEN 0 ELSE index)

plural_lookup(d, n, translation) ==
    LET index == plural_eval(d.plural, n)
    IN  IF index = Fault THEN <<"SIGFPE">>
        ELSE Skip(translation, 0, IF index >= d.nplurals THEN 0 ELSE index)
--------------------------------------------------------------------------------
(* The catalog is loaded when a message is first looked for.                *)

Init == file \in Files /\ domain = NoDomain("undecided") /\ found = <<>>

\* The header entry is the translation of the empty message.
WithPlural(d) ==
    IF d.kind # "loaded" \/ Locate(d, <<>>) < 0 THEN d
    ELSE EXTRACT_PLURAL_EXPRESSION(d, file.header)

\* _nl_load_domain.
Load ==
    /\ domain.kind = "undecided"
    /\ domain' = WithPlural(Tables(file))
    /\ UNCHANGED <<file, found>>

\* _nl_find_msg, and plural_lookup for a message with plural forms.  A search changes neither
\* the file nor the domain, so one is enough.
Find(msgid, n) ==
    /\ domain.kind = "loaded" /\ found = <<>>
    /\ LET act == Locate(domain, msgid)
       IN  found' = [ msgid |-> msgid, n |-> n, act |-> act,
                      form |-> CASE act < 0 -> <<>>
                                 [] act >= 0 -> plural_lookup(domain, n, Translation(domain, act)) ]
    /\ UNCHANGED <<file, domain>>

\* A catalog that could not be loaded has no messages.
Stop == (domain.kind = "none" \/ found # <<>>) /\ UNCHANGED vars

Next == Load \/ (\E msgid \in Msgids, n \in Numbers : Find(msgid, n)) \/ Stop

Spec == Init /\ [][Next]_vars
--------------------------------------------------------------------------------
(* Properties.                                                              *)

\* The pairs of a file whose directives this system has, in the order that decides between
\* equal ones, and the translation of a message among them.
Meant(f) ==
    LET values == Values(f)
        supported == SelectSeq(f.sysdep, LAMBDA p :
                         \A string \in {p[1], p[2]} : \A i \in 1..Len(string) :
                             string[i][2] = SEGMENTS_END \/ values[string[i][2] + 1] # NULLVALUE)
    IN  [i \in 1..Len(f.strings) |-> <<f.strings[i][1], Append(f.strings[i][2], NUL)>>]
        \o (IF f.revision[2] = 0 THEN <<>>
            ELSE [i \in 1..Len(supported) |-> <<Characters(values, supported[i][1]),
                                                Characters(values, supported[i][2])>>])

FormsOf(f, msgid) ==
    LET meant == Meant(f)
        i == SelectInSeq(meant, LAMBDA pair : CString(pair[1]) = CString(msgid))
    IN  IF i = 0 THEN <<>> ELSE meant[i][2]

\* A message has a translation exactly if the file has one whose directives the system knows:
\* neither the byte order of the file, nor collisions in the hash table, nor the strings put
\* into it in memory hide one, or find another in its place.
FindsWhatIsThere ==
    found # <<>> =>
        LET forms == FormsOf(file, found.msgid)
        IN  /\ (found.act >= 0) = (forms # <<>>)
            /\ found.act >= 0 => Translation(domain, found.act).result = forms

\* The n-th of the forms in a translation.
NthForm(forms, n) ==
    LET starts == {0} \cup {i \in 1..(Len(forms) - 1) : forms[i] = NUL}
        nth == CHOOSE s \in starts : Cardinality({t \in starts : t < s}) = n
    IN  IF n < Cardinality(starts) THEN CString(SubSeq(forms, nth + 1, Len(forms)))
        ELSE CString(forms)

\* The plural form is the one the header's expression says, and the first one when the header
\* or the translation does not have so many.
RightForm ==
    (found # <<>> /\ found.act >= 0 /\ found.form # <<"SIGFPE">>) =>
        LET forms == FormsOf(file, found.msgid)
            meant == file.header.means[found.n]
        IN  found.form = NthForm(forms, IF meant >= domain.nplurals THEN 0 ELSE meant)

\* Neither a search nor the table made in memory goes on for ever, no string is looked for
\* beyond the tables, and the walk that writes the system dependent strings keeps to what the
\* walk before it counted: not a byte and not a string more, and no fewer either, or it aborts.
StaysInTables ==
    /\ domain.kind \in {"undecided", "none", "loaded"}
    /\ found # <<>> => found.act \notin {BeyondTable, Endless}
================================================================================
