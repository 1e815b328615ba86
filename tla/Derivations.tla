----------------------------- MODULE Derivations -----------------------------
(***************************************************************************)
(* What the productions of a grammar derive of a word: the spans of each   *)
(* symbol, as the least solution of the productions.  There is no chart    *)
(* here, and no dot: the parser is compared with this.                     *)
(*                                                                         *)
(* A span << s, a, b >> says that the symbol s derives w[a + 1] .. w[b].   *)
(***************************************************************************)
EXTENDS Integers, Sequences, FiniteSets

(* Where the first k symbols of rhs can end that start at a. *)
EndsAfter(E, rhs, a, n) ==
  LET ends[k \in Nat] ==
        IF k = 0 THEN {a}
        ELSE LET before == ends[k - 1]
             IN  {b \in 0 .. n : \E m \in before : << rhs[k], m, b >> \in E}
  IN  ends

SpansOfProd(prod, E, n) ==
  UNION {{<< prod.lhs, a, b >> : b \in EndsAfter(E, prod.rhs, a, n)[Len(prod.rhs)]} : a \in 0 .. n}

(* The tokens, and what a production makes of the spans in E. *)
Grow(prods, w, E) ==
  {<< w[m], m - 1, m >> : m \in DOMAIN w}
    \cup UNION {SpansOfProd(prods[p], E, Len(w)) : p \in DOMAIN prods}

Rounds(prods, w) ==
  LET round[k \in Nat] == IF k = 0 THEN {} ELSE Grow(prods, w, round[k - 1])
  IN  round

(* There are no more spans than these, so that the rounds settle by then. *)
AllSpans(prods, w) ==
  ({prods[p].lhs : p \in DOMAIN prods} \cup {w[m] : m \in DOMAIN w}) \X (0 .. Len(w)) \X (0 .. Len(w))

Settles(prods, w, k) == Rounds(prods, w)[k + 1] = Rounds(prods, w)[k]

DerivedSpans(prods, w) ==
  Rounds(prods, w)[CHOOSE k \in 0 .. Cardinality(AllSpans(prods, w)) : Settles(prods, w, k)]

DerivesWord(prods, s, w) == << s, 0, Len(w) >> \in DerivedSpans(prods, w)

=============================================================================
