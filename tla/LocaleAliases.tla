------------------------------ MODULE LocaleAliases ----------------------------
(***************************************************************************)
(* Aliases of locale names.  They are read from files, one after another,   *)
(* when a name is not among those read so far.  A line of a file is the     *)
(* sequence of its words, each a name; a comment starts with the word "#".  *)
(***************************************************************************)
EXTENDS LocaleNames

Hash == <<"#">>

IsAlias(line) == line # <<>> /\ line[1] # Hash

\* alias_compare: case does not matter.
Lower(name) ==
    [i \in 1..Len(name) |-> IF name[i] \in DOMAIN Lowercase THEN Lowercase[name[i]] ELSE name[i]]

alias_compare(a, b) == Lower(a) = Lower(b)

\* read_alias_file.  The loop that skips the rest of a long line looks for the newline in a
\* buffer that the end of the alias has cut, so after an alias the next line is skipped.
read_alias_file(lines) ==
    FoldLeft(LAMBDA done, line :
                 IF done.skipping THEN [done EXCEPT !.skipping = FALSE]
                 ELSE [ skipping |-> IsAlias(line),
                        map |-> done.map \cup (IF IsAlias(line) /\ Len(line) > 1
                                               THEN {[alias |-> line[1], value |-> line[2]]}
                                               ELSE {}) ],
             [skipping |-> FALSE, map |-> {}], lines).map

\* _nl_expand_alias: what has been read, the files that have not, and the value of a name, if
\* it has one.  Another file is read until one adds an alias, then the search starts again.
RECURSIVE _nl_expand_alias(_, _, _)
_nl_expand_alias(map, unread, name) ==
    LET fitting == {item \in map : alias_compare(item.alias, name)}
    IN  IF fitting # {}
        THEN [map |-> map, unread |-> unread, value |-> (CHOOSE item \in fitting : TRUE).value]
        ELSE IF unread = <<>> THEN [map |-> map, unread |-> unread, value |-> <<>>]
        ELSE _nl_expand_alias(map \cup read_alias_file(unread[1]), Tail(unread), name)
================================================================================
