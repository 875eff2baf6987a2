---------------------------- MODULE SystemDependent ----------------------------
(***************************************************************************)
(* The strings that depend on the system.  A message catalog may hold the   *)
(* macros of <inttypes.h> in a string by name; the loader puts in what they *)
(* stand for here.  A name is the sequence of its parts, such as            *)
(* <<"PRI", "d", "LEAST", "64">>, a value the sequence of its characters.   *)
(* The values are those for a system that does not define the macros.       *)
(***************************************************************************)
EXTENDS Naturals, Sequences

CONSTANTS SizeofLong, SizeofInt, SizeofPointer, SizeofUintmax   \* in bytes

ASSUME SystemDependentAssumption ==
    {SizeofLong, SizeofInt, SizeofPointer, SizeofUintmax} \subseteq {4, 8}

\* No value: the null pointer.
NULLVALUE == <<"NULL">>

Conversions == {"d", "i", "o", "u", "x", "X"}

Widths == {"8", "16", "32", "64"}

Long(isLong, conv) == IF isLong THEN <<"l", conv>> ELSE <<"l", "l", conv>>

\* PRId8 to PRIX64.
Exact(conv, width) == IF width = "64" THEN Long(SizeofLong = 8, conv) ELSE <<conv>>

\* PRIdLEAST8 to PRIXLEAST64.
Least(conv, width) == Exact(conv, width)

\* PRIdFAST8 to PRIXFAST64.
Fast(conv, width) == Exact(conv, width)

\* PRIdMAX to PRIXMAX.
Largest(conv) == Long(SizeofUintmax = SizeofLong, conv)

\* PRIdPTR to PRIXPTR.
Pointer(conv) ==
    IF SizeofPointer = SizeofLong THEN <<"l", conv>>
    ELSE IF SizeofPointer = SizeofInt THEN <<conv>>
    ELSE <<"l", "l", conv>>

\* The names of four kinds: each ends where its width or word ends.
IsExact(name) == Len(name) = 3 /\ name[3] \in Widths

IsLeast(name) == Len(name) = 4 /\ name[3] = "LEAST" /\ name[4] \in Widths

IsFast(name) == Len(name) = 4 /\ name[3] = "FAST" /\ name[4] \in Widths

IsWord(name, word) == Len(name) = 3 /\ name[3] = word

IsDirective(name) == Len(name) > 2 /\ name[1] = "PRI" /\ name[2] \in Conversions

\* The value of a segment; the flag is the one of the printf of glibc.
get_sysdep_segment_value(name) ==
    CASE IsDirective(name) /\ IsExact(name) -> Exact(name[2], name[3])
      [] IsDirective(name) /\ IsLeast(name) -> Least(name[2], name[4])
      [] IsDirective(name) /\ IsFast(name) -> Fast(name[2], name[4])
      [] IsDirective(name) /\ IsWord(name, "MAX") -> Largest(name[2])
      [] IsDirective(name) /\ IsWord(name, "PTR") -> Pointer(name[2])
      [] name = <<"I">> -> <<"I">>
      [] OTHER -> NULLVALUE
================================================================================
