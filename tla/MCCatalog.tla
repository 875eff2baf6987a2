------------------------------- MODULE MCCatalog -------------------------------
(***************************************************************************)
(* An instance of Catalog: files as the tools write them, in both byte      *)
(* orders, with and without a hash table, with directives this system has   *)
(* and has not, and files that are no catalogs.                             *)
(***************************************************************************)
EXTENDS Catalog

SomeCode == ("NUL" :> 0) @@ ("%" :> 37) @@ ("a" :> 97) @@ ("b" :> 98) @@ ("d" :> 100)
            @@ ("l" :> 108) @@ ("X" :> 88) @@ ("\n" :> 10)

\* The header entries: the text of the plural expression, the number before it, and the form
\* it means for each number.
SomeHeaders ==
    { [hasPlural |-> TRUE, plural |-> <<"n", "!", "=", "1", ";">>, nplurals |-> 2,
       means |-> [n \in Numbers |-> IF n # 1 THEN 1 ELSE 0]],
      [hasPlural |-> TRUE, plural |-> <<"n">>, nplurals |-> 3, means |-> [n \in Numbers |-> n]],
      [hasPlural |-> TRUE, plural |-> <<"6", "/", "n">>, nplurals |-> 2,
       means |-> [n \in Numbers |-> IF n = 0 THEN 0 ELSE 6 \div n]],
      [hasPlural |-> TRUE, plural |-> <<"n", "-">>, nplurals |-> 5,
       means |-> [n \in Numbers |-> IF n # 1 THEN 1 ELSE 0]],
      [hasPlural |-> TRUE, plural |-> <<"n">>, nplurals |-> NoNumber,
       means |-> [n \in Numbers |-> IF n # 1 THEN 1 ELSE 0]],
      [hasPlural |-> FALSE, plural |-> <<>>, nplurals |-> 5,
       means |-> [n \in Numbers |-> IF n # 1 THEN 1 ELSE 0]] }

Germanic == CHOOSE h \in SomeHeaders : h.nplurals = 2 /\ h.means[0] = 1

\* The pairs of strings: the header entry comes first, since it is the smallest.
SomeStrings ==
    { <<>>,
      <<<<<<"b">>, <<"X">>>>>>,
      <<<<<<>>, <<"\n">>>>, <<<<"a", "NUL", "b">>, <<"X", "NUL", "b", "X">>>>>>,
      <<<<<<>>, <<"\n">>>>, <<<<"%", "l", "d">>, <<"a">>>>,
        <<<<"a">>, <<"a", "NUL", "b", "NUL", "d">>>>, <<<<"b">>, <<>>>>, <<<<"d">>, <<"X">>>>>> }

\* The directives: one this system has, one it has not, another that stands for the same.
SomeSegments ==
    << [name |-> <<"PRI", "d", "64">>, ended |-> TRUE],
       [name |-> <<"PRI", "d", "128">>, ended |-> TRUE],
       [name |-> <<"PRI", "d", "MAX">>, ended |-> TRUE],
       [name |-> <<"PRI", "d", "LEAST", "8">>, ended |-> TRUE],
       [name |-> <<"I">>, ended |-> TRUE] >>

End(chars) == <<Append(chars, "NUL"), SEGMENTS_END>>

Of64 == <<<<<<"%">>, 0>>, End(<<>>)>>
Of128 == <<<<<<"%">>, 1>>, End(<<>>)>>
OfMax == <<<<<<"%">>, 2>>, End(<<>>)>>
Of8 == <<<<<<"%">>, 3>>, End(<<"b">>)>>

SomeSysdep ==
    { <<>>,
      << <<Of64, <<<<<<"X">>, 0>>, <<<<"NUL", "b">>, 0>>, End(<<>>)>>>> >>,
      << <<OfMax, <<<<<<"b">>, 2>>, End(<<>>)>>>>, <<Of128, Of128>>,
         <<<<End(<<"a", "b">>)>>, <<End(<<"X">>)>>>>, <<Of8, <<<<<<>>, 4>>, End(<<"a">>)>>>>,
         <<Of64, <<<<<<"d">>, 0>>, End(<<>>)>>>> >>,
      << <<Of64, Of128>> >> }

Primes == {3, 5, 7, 11, 13, 17}

\* What msgfmt writes: the table has room for more strings than there are, and the strings
\* that depend on the system are not in it.
HashTable(strings, sysdep) ==
    LET wanted == ((Len(strings) + Len(sysdep)) * 4) \div 3
    IN  Augmented([i \in 1..Min({p \in Primes : p >= wanted}) |-> 0], 0, strings)

Stored(magic, table) == [i \in 1..Len(table) |-> W(magic = "swapped", table[i])]

Written(magic, strings, sysdep, header, hashed) ==
    [ short |-> FALSE, magic |-> magic, revision |-> <<0, IF sysdep = <<>> THEN 0 ELSE 1>>,
      strings |-> strings,
      hash |-> IF hashed THEN Stored(magic, HashTable(strings, sysdep)) ELSE <<>>,
      segments |-> SomeSegments, sysdep |-> sysdep,
      header |-> IF strings # <<>> /\ strings[1][1] = <<>> THEN header ELSE Germanic ]

SomeFiles ==
    LET whole == {Written(magic, strings, sysdep, header, TRUE) :
                     magic \in {"native", "swapped"}, strings \in SomeStrings,
                     sysdep \in SomeSysdep, header \in SomeHeaders}
        plain == {Written(magic, strings, <<>>, header, FALSE) :
                     magic \in {"native", "swapped"}, strings \in SomeStrings,
                     header \in SomeHeaders}
        some == CHOOSE f \in whole : Len(f.sysdep) = 5 /\ Len(f.strings) = 5
    IN  whole \cup plain
        \cup { [some EXCEPT !.short = TRUE], [some EXCEPT !.magic = "other"],
               [some EXCEPT !.revision = <<1, 3>>], [some EXCEPT !.revision = <<2, 0>>],
               [some EXCEPT !.hash = <<>>],
               [some EXCEPT !.segments[1].ended = FALSE],
               [some EXCEPT !.segments = SubSeq(@, 1, 4)],
               [some EXCEPT !.segments = SubSeq(@, 1, 1), !.sysdep = <<<<Of64, Of128>>>>] }

SomeMsgids == { <<"a">>, <<"b">>, <<"d">>, <<"X">>, <<"%", "l", "d">>, <<"%", "d", "b">>,
                <<"a", "b">>, <<"l">> }
================================================================================
