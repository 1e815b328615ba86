----------------------------- MODULE YamlTokens -----------------------------
(***************************************************************************)
(* What SCALAR, FSCALAR, DQ and SQ are to match at the start of a text, in *)
(* the words of YAML and not as regular expressions: the rules for plain   *)
(* and quoted scalars, which the grammar spells with no look ahead.        *)
(***************************************************************************)
EXTENDS YamlGrammar

-----------------------------------------------------------------------------
(* Plain scalars. *)

(* "`:` only when not followed by a space", nor at the end of the scalar. *)
ColonRule(w) ==
  \A k \in DOMAIN w : w[k] = ":" => k < Len(w) /\ w[k + 1] \notin Blanks

(* "`#` only when not preceded by one". *)
HashRule(w) == \A k \in DOMAIN w : w[k] = "#" => k > 1 /\ w[k - 1] \notin Blanks

(***************************************************************************)
(* A scalar starts with no indicator, except that : ? and - may when what  *)
(* follows belongs to the scalar (and - is not doubled).                   *)
(***************************************************************************)
StartRule(w) ==
  \/ w[1] \notin Indicators
  \/ /\ Len(w) > 1 /\ w[2] \notin Blanks
     /\ w[1] \in {":", "?", "-"}
     /\ ~ (w[1] = "-" /\ w[2] = "-")

PlainWord(w, out) ==
  /\ w # << >>
  /\ \A k \in DOMAIN w : w[k] \notin (Blanks \ {Space}) \cup out
  /\ w[1] # Space /\ w[Len(w)] # Space
  /\ StartRule(w) /\ ColonRule(w) /\ HashRule(w)

LongestPlain(text, out) ==
  LET lens == {n \in 1 .. Len(text) : PlainWord(SubSeq(text, 1, n), out)}
  IN  IF lens = {} THEN 0 ELSE CHOOSE n \in lens : \A m \in lens : m <= n

(* The regular expressions take anything after a first ? or -, a colon too. *)
ColonAfterIndicator(text) == Len(text) > 1 /\ text[1] \in {"?", "-"} /\ text[2] = ":"

-----------------------------------------------------------------------------
(* Quoted scalars. *)

(* Where the unit at p of a scalar quoted with q ends. *)
UnitEnd(text, p, q) ==
  IF text[p] = Back THEN (IF q = Quote THEN p + 2 ELSE p + 1)
  ELSE IF text[p] = "'" /\ q = "'" THEN p + 2
  ELSE p + 1

(* Where the scalar closes that has a unit or its last quote at p; 0: nowhere. *)
RECURSIVE ClosesAt(_, _, _)
ClosesAt(text, p, q) ==
  IF p > Len(text) \/ text[p] \in Breaks THEN 0
  ELSE IF text[p] = q /\ ~ (q = "'" /\ p < Len(text) /\ text[p + 1] = "'") THEN p
  ELSE IF UnitEnd(text, p, q) = p + 2 /\ p < Len(text) /\ text[p + 1] \in Breaks THEN 0
  ELSE ClosesAt(text, UnitEnd(text, p, q), q)

=============================================================================
