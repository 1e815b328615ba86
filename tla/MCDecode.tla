------------------------------ MODULE MCDecode ------------------------------
(***************************************************************************)
(* The decoders of the two quoted scalars, on a token each: every small    *)
(* double-quoted token beside the empty single-quoted one, and every small *)
(* single-quoted token beside the empty double-quoted one.  The decoders   *)
(* share nothing.                                                          *)
(***************************************************************************)
EXTENDS MCDecodeDQ, DecodeSQ

CONSTANT MaxUnits

SqContent ==
  LET of[n \in 0 .. MaxUnits] ==
        IF n = 0 THEN {<< >>}
        ELSE of[n - 1] \cup {Append(s, c) : s \in of[n - 1], c \in SqChar}
  IN  of[MaxUnits]

(* The token that spells s, written with a loop over s and not over it. *)
Spelling(s) ==
  LET to[n \in 0 .. Len(s)] ==
        IF n = 0 THEN [text |-> << SqQuote >>, starts |-> << 1 >>]
        ELSE LET unit == IF s[n] = SqQuote THEN << SqQuote, SqQuote >> ELSE << s[n] >>
                 text == to[n - 1].text \o unit
             IN  [text |-> text, starts |-> Append(to[n - 1].starts, Len(text))]
  IN  [text |-> Append(to[Len(s)].text, SqQuote), starts |-> to[Len(s)].starts]

MCSqTokens == {Spelling(s) : s \in SqContent}

MCInit ==
  \/ SqInit /\ SqSize(sqToken) = 2 /\ Init
  \/ Init /\ Size(token) = 2 /\ SqInit

MCNext ==
  \/ Next /\ UNCHANGED sqVars
  \/ SqNext /\ UNCHANGED vars

MCSpec == MCInit /\ [][MCNext]_<< vars, sqVars >>

=============================================================================
