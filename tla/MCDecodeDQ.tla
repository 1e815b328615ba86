----------------------------- MODULE MCDecodeDQ -----------------------------
(***************************************************************************)
(* Small instances of DecodeDQ: tokens of up to MaxUnits pieces, each a    *)
(* character, an escape of every kind, whole or not, or the start of one   *)
(* that takes its digits from the pieces after it.                         *)
(***************************************************************************)
EXTENDS DecodeDQ, FiniteSets

CONSTANT MaxPieces

B == Backslash

(* z a d, a two-byte character, its halves, and the escapes without digits. *)
Characters ==
  { << 122 >>, << 97 >>, << 100 >>, << 195, 169 >>, << 195 >>, << 169 >>,
    << B, 48 >>, << B, 110 >>, << B, 34 >>, << B, B >>, << B, 9 >>,
    << B, 78 >>, << B, 76 >>, << B, 113 >>, << B, 195 >> }

(* \x \u \U alone. *)
Openings == { << B, 120 >>, << B, 117 >>, << B, 85 >> }

(* The first and the last code points of each length, and their neighbours. *)
Edges ==
  { << B, 120, 55, 102 >>, << B, 120, 56, 48 >>, << B, 120, 70, 70 >>,
    << B, 117, 48, 55, 70, 70 >>, << B, 117, 48, 56, 48, 48 >>,
    << B, 117, 100, 55, 102, 102 >>, << B, 117, 68, 56, 48, 48 >>,
    << B, 117, 68, 70, 70, 70 >>, << B, 117, 69, 48, 48, 48 >>,
    << B, 117, 70, 70, 70, 70 >>, << B, 117, 68, 56, 48, 122 >>,
    << B, 85, 48, 48, 48, 48, 68, 66, 70, 70 >>,
    << B, 85, 48, 48, 48, 49, 48, 48, 48, 48 >>,
    << B, 85, 48, 48, 49, 48, 70, 70, 70, 70 >>,
    << B, 85, 48, 48, 49, 49, 48, 48, 48, 48 >>,
    << B, 85, 56, 48, 48, 48, 48, 48, 52, 49 >>,
    << B, 85, 48, 48, 48, 48, 48, 48, 52, 49 >> }

Pieces == Characters \cup Openings \cup Edges

Texts ==
  LET upTo[n \in 0 .. MaxPieces] ==
        IF n = 0 THEN {<< >>}
        ELSE upTo[n - 1] \cup {t \o p : t \in upTo[n - 1], p \in Pieces}
  IN  {<< Quote >> \o t \o << Quote >> : t \in upTo[MaxPieces]}

(* Where the lexer's regular expression starts a unit. *)
UnitsOf(text) ==
  LET from[p \in 1 .. Len(text) - 1] ==
        IF p = Len(text) - 1 THEN {p}
        ELSE {p} \cup from[p + (IF text[p + 1] = Backslash THEN 2 ELSE 1)]
  IN  from[1]

MCTokens == {[text |-> t, units |-> UnitsOf(t)] : t \in Texts}

=============================================================================
