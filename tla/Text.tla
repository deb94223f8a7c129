-------------------------------- MODULE Text --------------------------------
(***************************************************************************)
(* Texts as Rust's str has them, character by character: a digit is its    *)
(* value, and one character stands for each other kind that the hook tells *)
(* apart.                                                                  *)
(***************************************************************************)
EXTENDS Naturals, Sequences, SequencesExt

Digit == 0..9
Letter == 10
Accented == 11      \* of more than one byte
Blank == 12
Break == 13         \* the newline

Char == 0..Break
Space == {Blank, Break}

\* The elements of s that are in T, in their order: a SelectSeq, as a function, that
\* facts can be proved of.
Only(s, T) ==
  LET only[n \in 0..Len(s)] ==
        IF n = 0 THEN <<>>
        ELSE IF s[n] \in T THEN Append(only[n - 1], s[n]) ELSE only[n - 1]
  IN only[Len(s)]

Words(s) == Only(s, Char \ Space)

\* trim_start and trim_end, between the first and the last of what is no space.
Solid(s) == {i \in DOMAIN s : s[i] \notin Space}
TrimStart(s) ==
  IF Solid(s) = {} THEN <<>> ELSE
  SubSeq(s, CHOOSE i \in Solid(s) : \A j \in Solid(s) : i <= j, Len(s))
TrimEnd(s) ==
  IF Solid(s) = {} THEN <<>> ELSE
  SubSeq(s, 1, CHOOSE i \in Solid(s) : \A j \in Solid(s) : j <= i)
Trim(s) == TrimStart(TrimEnd(s))
=============================================================================
