------------------------------ MODULE LocaleNames ------------------------------
(***************************************************************************)
(* Names of locales, the parts they are made of, and the names of the       *)
(* catalogs that may serve a locale, from the most specific one on.  A text *)
(* is a sequence of pieces: words, digits and the signs between them, as in *)
(* <<"de", "_", "AT", ".", "UTF", "-", "8">>.                               *)
(***************************************************************************)
EXTENDS Naturals, Sequences, FiniteSets, SequencesExt, FiniteSetsExt

CONSTANTS
    Lowercase,   \* the words of codesets, each with its form in lower case
    Digits       \* the pieces of codesets that are digits

ASSUME LocaleNamesAssumption ==
    /\ Digits \cap DOMAIN Lowercase = {}
    /\ \A word \in DOMAIN Lowercase : Lowercase[word] \in DOMAIN Lowercase

\* The bits of a mask, each with its number.
Weight == [revision |-> 1, sponsor |-> 2, special |-> 4, normalized_codeset |-> 8,
           codeset |-> 16, territory |-> 32, audience |-> 64, modifier |-> 128]

CEN_SPECIFIC == {"revision", "sponsor", "special", "audience"}
XPG_SPECIFIC == {"codeset", "normalized_codeset", "modifier"}

Number(mask) == MapThenSumSet(LAMBDA bit : Weight[bit], mask)

Normalized(codeset) ==
    LET kept == SelectSeq(codeset, LAMBDA p : p \in DOMAIN Lowercase \cup Digits)
        lower == [i \in 1..Len(kept) |-> IF kept[i] \in Digits THEN kept[i]
                                          ELSE Lowercase[kept[i]]]
    IN  IF ToSet(kept) \subseteq Digits THEN <<"iso">> \o lower ELSE lower
--------------------------------------------------------------------------------
(* _nl_explode_name.                                                        *)

\* Which sign ends a part of a name, and which part follows.  A text after "+" is the
\* audience, that after "@" the modifier, which has no end but that of the name.
Follows ==
    {<<"language", "_", "territory">>, <<"territory", ".", "codeset">>}
    \cup ({"language", "territory", "codeset"} \X {"@"} \X {"modifier"})
    \cup ({"language", "territory"} \X {"+"} \X {"audience"})
    \cup ({"audience"} \X {"+"} \X {"special"})
    \cup ({"language", "territory", "audience", "special"} \X {","} \X {"sponsor"})
    \cup ({"territory", "audience", "special", "sponsor"} \X {"_"} \X {"revision"})

\* A piece ends a part or belongs to it.
Taken(done, piece) ==
    LET next == {follows \in Follows : follows[1] = done.at /\ follows[2] = piece}
    IN  IF next = {} THEN [done EXCEPT !.text[done.at] = Append(@, piece)]
        ELSE LET part == (CHOOSE follows \in next : TRUE)[3]
             IN  [done EXCEPT !.at = part, !.seen = @ \cup {part}]

\* Nothing is split off a name that starts with a sign.
Pieces(name, text) ==
    IF name = <<>> \/ name[1] \in {"_", "@", "+", ","}
    THEN [seen |-> {}, text |-> [text EXCEPT !.language = name]]
    ELSE FoldLeft(Taken, [at |-> "language", seen |-> {}, text |-> text], name)

\* Audience and modifier are one part.  With a codeset or a modifier, empty parts do not count.
MaskOfParts(seen, text) ==
    (seen \cup (IF seen \cap {"audience", "modifier"} = {} THEN {} ELSE {"audience", "modifier"}))
    \ {part \in {"territory", "codeset", "modifier"} :
          text[part] = <<>> /\ seen \cap {"codeset", "modifier"} # {}}

NormalizedBit(codeset) ==
    IF codeset = <<>> \/ Normalized(codeset) = codeset THEN {} ELSE {"normalized_codeset"}

Exploded(split) ==
    [split.text EXCEPT !.modifier = @ \o split.text.audience,
                       !.normalized_codeset = Normalized(split.text.codeset),
                       !.mask = MaskOfParts(split.seen, split.text)
                                \cup NormalizedBit(split.text.codeset)]

\* The parts of a name, and the mask of those it has.
Explode(name) ==
    Exploded(Pieces(name, [part \in DOMAIN Weight \cup {"language", "mask"} |-> <<>>]))
--------------------------------------------------------------------------------
(* _nl_make_l10nflist.                                                      *)

\* The name of the catalog for the parts of a mask.  Audience and modifier are one part; it
\* follows "+" if the mask has the audience.
FileName(parts, mask) ==
    LET With(bit, text) == IF bit \in mask THEN text ELSE <<>>
    IN  parts.language
        \o With("territory", <<"_">> \o parts.territory)
        \o With("codeset", <<".">> \o parts.codeset)
        \o With("normalized_codeset", <<".">> \o parts.normalized_codeset)
        \o (IF {"audience", "modifier"} \cap mask = {} THEN <<>>
            ELSE <<(IF "audience" \in mask THEN "+" ELSE "@")>> \o parts.modifier)
        \o With("special", <<"+">> \o parts.special)
        \o (IF {"sponsor", "revision"} \cap mask = {} THEN <<>>
            ELSE <<",">> \o With("sponsor", parts.sponsor)
                 \o With("revision", <<"_">> \o parts.revision))

\* A mask with both forms of the codeset is never looked up itself.
Unreal(mask) == {"codeset", "normalized_codeset"} \subseteq mask

\* The masks of the successors: those below a mask that do not mix the syntaxes and have at
\* most one form of the codeset.
Below(mask) ==
    {m \in SUBSET mask : /\ m # mask
                         /\ m \cap CEN_SPECIFIC = {} \/ m \cap XPG_SPECIFIC = {}
                         /\ ~Unreal(m)}

\* A set of masks in order, each after as many as come before it.
Sorted(masks, Precedes(_, _)) ==
    [i \in 1..Cardinality(masks) |->
        CHOOSE m \in masks : Cardinality({k \in masks : Precedes(k, m)}) = i - 1]

\* cnt goes down from mask - 1 to 0.
InOrder(masks) == Sorted(masks, LAMBDA a, b : Number(a) > Number(b))
================================================================================
