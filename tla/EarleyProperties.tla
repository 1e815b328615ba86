-------------------------- MODULE EarleyProperties --------------------------
(***************************************************************************)
(* What the chart promises, said with the spans that a grammar derives     *)
(* (Derivations) and with no items.                                        *)
(***************************************************************************)
EXTENDS Earley, Derivations

Read == [n \in DOMAIN toks |-> toks[n].sym]

InLanguage(w) == DerivesWord(Prods, Start, w)

(***************************************************************************)
(* An input is accepted exactly when it was read to its end as tokens that *)
(* the start symbol derives, whatever the grammar: with left recursion,    *)
(* hidden behind symbols that derive nothing or not, with ambiguity, and   *)
(* with nullable symbols that complete after an item has asked for them.   *)
(* A chart that is full when a token is scanned says parse as well, of     *)
(* whatever word: its overflow shows only after the next set is closed.    *)
(***************************************************************************)
AcceptsExactly ==
  /\ result = "accepted" => pos = Size /\ InLanguage(Read)
  /\ result = "parse" /\ ~ Full => pos = Size /\ ~ InLanguage(Read)

(***************************************************************************)
(* A set holds no more than the dotted positions from each set before it,  *)
(* so that the chart, of 2 * (dotted positions + 16) items for each set,   *)
(* has room for three tokens whatever the grammar.                         *)
(***************************************************************************)
ShortInputsFit == result = "overflow" => Len(toks) > 3

=============================================================================
