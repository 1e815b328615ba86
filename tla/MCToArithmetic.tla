--------------------------- MODULE MCToArithmetic ---------------------------
(***************************************************************************)
(* Small instances of ToArithmetic: every text of up to MaxSize characters *)
(* of an alphabet that spells signs, dots, exponents, prefixes and digits, *)
(* and the words of the core schema.                                       *)
(***************************************************************************)
EXTENDS ToArithmetic

CONSTANTS Alphabet, MaxSize

WordTexts ==
  Infinities \cup NotANumbers
  \cup {<< s >> \o w : s \in Signs, w \in Infinities \cup NotANumbers}
  \cup { << "~" >>, << "n", "u", "l", "l" >>, << "t", "r", "u", "e" >>,
         << "F", "A", "L", "S", "E" >>, << "-", "0", ".", "0", "8", "e", "1" >>,
         << "1", "2", ".", "1", "e", "+", "1" >>,
         << "1", "e", "-", "3", "2" >> }

MCTexts ==
  {t \in WordTexts \cup UNION {[1 .. n -> Alphabet] : n \in 1 .. MaxSize} : IsScalar(t)}

=============================================================================
