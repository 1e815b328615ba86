--------------------------- MODULE GrammarMeaning ---------------------------
(***************************************************************************)
(* What a context-free grammar means, with no parser: the words of each    *)
(* nonterminal up to a length, as the least solution of its productions.   *)
(* The parser is compared with this.                                       *)
(***************************************************************************)
EXTENDS Integers, Sequences

Nonterminals(g) == {g.prods[p].lhs : p \in DOMAIN g.prods}

(***************************************************************************)
(* A language is a set of pairs of a nonterminal and a word; a terminal is *)
(* its own word.  WordsOf: of a sequence of symbols, of up to n terminals. *)
(***************************************************************************)
SymbolWords(g, L, s) ==
  IF s \in Nonterminals(g) THEN {q[2] : q \in {r \in L : r[1] = s}} ELSE {<< s >>}

WordsOf(g, L, rhs, n) ==
  LET upTo[k \in 0 .. Len(rhs)] ==
        IF k = 0 THEN {<< >>}
        ELSE {w \in {u \o v : u \in upTo[k - 1], v \in SymbolWords(g, L, rhs[k])} :
                Len(w) <= n}
  IN  upTo[Len(rhs)]

Grown(g, L, n) ==
  {q \in L \cup UNION {{<< g.prods[p].lhs, w >> : w \in WordsOf(g, L, g.prods[p].rhs, n)} :
                         p \in DOMAIN g.prods} :
     Len(q[2]) <= n}

RECURSIVE Solved(_, _, _)
Solved(g, L, n) ==
  IF Grown(g, L, n) = L THEN L ELSE Solved(g, Grown(g, L, n), n)

(* The words of up to n terminals of every nonterminal. *)
Language(g, n) == Solved(g, {}, n)

IsPrefixOf(u, v) == Len(u) <= Len(v) /\ \A k \in DOMAIN u : u[k] = v[k]

(***************************************************************************)
(* A grammar is cyclic when a nonterminal derives itself alone: some word  *)
(* has infinitely many derivations.                                        *)
(***************************************************************************)
Empties(g) == {q[1] : q \in Language(g, 0)}

DerivesAlone(g) ==
  {<< A, B >> \in Nonterminals(g) \X Nonterminals(g) :
     \E p \in DOMAIN g.prods : \E k \in DOMAIN g.prods[p].rhs :
       /\ g.prods[p].lhs = A
       /\ g.prods[p].rhs[k] = B
       /\ \A m \in DOMAIN g.prods[p].rhs \ {k} : g.prods[p].rhs[m] \in Empties(g)}

RECURSIVE Closure(_)
Closure(R) ==
  LET T == {<< a, c >> \in {q[1] : q \in R} \X {q[2] : q \in R} :
              \E b \in {q[2] : q \in R} : << a, b >> \in R /\ << b, c >> \in R}
  IN  IF T \subseteq R THEN R ELSE Closure(R \cup T)

Cyclic(g) == \E A \in Nonterminals(g) : << A, A >> \in Closure(DerivesAlone(g))

=============================================================================
