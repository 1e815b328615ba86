--------------------------- MODULE GrammarTables ---------------------------
(***************************************************************************)
(* grammar_tables::finish of ctlark (src/single-header/ctyaml.hpp): how    *)
(* the body of a rule is lowered to productions, and how the pattern of a  *)
(* terminal becomes an automaton.  Both are recursions over the nodes of   *)
(* the grammar's syntax tree that append to tables.                        *)
(*                                                                         *)
(* A leaf is a symbol in the body of a rule (a literal is the keyword      *)
(* terminal it is interned as), a class of characters or the dot in a      *)
(* pattern (a literal is the sequence of its characters).                  *)
(***************************************************************************)
EXTENDS Integers, Sequences, TLC

CONSTANTS
  Alphabet,  (* of the texts *)
  OtherCase, (* of each of its letters, the letter in the other case *)
  LineFeed   (* which the dot does not match *)

Leaf(x)        == [op |-> "leaf", sym |-> x]
Class(cs)      == [op |-> "class", chars |-> cs, negated |-> FALSE]
NotIn(cs)      == [op |-> "class", chars |-> cs, negated |-> TRUE]
Chr(c)         == Class({c})
Dot            == [op |-> "any"]
NoCase(e)      == [op |-> "ci", of |-> << e >>]
DotAll(e)      == [op |-> "dotall", of |-> << e >>]
Cat(es)        == [op |-> "seq", of |-> es]
Alt(es)        == [op |-> "alt", of |-> es]
Star(e)        == [op |-> "star", of |-> << e >>]
Plus(e)        == [op |-> "plus", of |-> << e >>]
Opt(e)         == [op |-> "opt", of |-> << e >>]
Rep(e, lo, hi) == [op |-> "rep", of |-> << e >>, lo |-> lo, hi |-> hi]

(* The upper count of a repetition that is open. *)
NoLimit == -1

-----------------------------------------------------------------------------
(***************************************************************************)
(* lower_into.  The state: the productions so far, the helpers made so     *)
(* far, and the buffer of the right-hand side being lowered.  A helper     *)
(* gets its number before what is inside it is lowered, and its            *)
(* productions after.                                                      *)
(***************************************************************************)
Production(lhs, rhs, alias) == [lhs |-> lhs, rhs |-> rhs, alias |-> alias]

Helper(n) == "__h" \o ToString(n)

AddProd(st, lhs, rhs) == [st EXCEPT !.prods = Append(@, Production(lhs, rhs, "none"))]

AddProds(st, lhs, rhss) ==
  [st EXCEPT !.prods = @ \o [k \in DOMAIN rhss |-> Production(lhs, rhss[k], "none")]]

(* The productions of helper h, from the symbols of its body. *)
StarProds(h, one) == << << h >> \o one, << >> >>
PlusProds(h, one) == << << h >> \o one, one >>
OptProds(h, one)  == << one, << >> >>

(* Mutant: the buffer is not emptied. *)
FreshKept(st) == st

Fresh(st) == [st EXCEPT !.buf = << >>]

RECURSIVE LowerInto(_, _), LowerEach(_, _, _), LowerAlternatives(_, _, _, _)

LowerEach(es, i, st) ==
  IF i > Len(es) THEN st ELSE LowerEach(es, i + 1, LowerInto(es[i], st))

(* Each alternative of an inner alternation is a production of helper h. *)
LowerAlternatives(es, i, h, st) ==
  IF i > Len(es) THEN st
  ELSE LET t == LowerInto(es[i], Fresh(st))
       IN  LowerAlternatives(es, i + 1, h, AddProd(t, h, t.buf))

Times(s, n) ==
  LET of[k \in 0 .. n] == IF k = 0 THEN << >> ELSE of[k - 1] \o s IN of[n]

LowerInto(e, st) ==
  IF e.op = "seq" THEN LowerEach(e.of, 1, st)
  ELSE IF e.op = "leaf" THEN [st EXCEPT !.buf = Append(@, e.sym)]
  ELSE IF e.op = "rep" THEN
    (* The body is lowered once, and a helper made only if there is a choice. *)
    LET inner == LowerInto(e.of[1], Fresh(st))
        one   == inner.buf
        h     == Helper(inner.helpers)
        made  == [inner EXCEPT !.helpers = @ + 1]
        fixed == st.buf \o Times(one, e.lo)
    IN  IF e.hi < 0
          THEN [AddProds(made, h, StarProds(h, one)) EXCEPT !.buf = Append(fixed, h)]
        ELSE IF e.hi > e.lo
          THEN [AddProds(made, h, OptProds(h, one)) EXCEPT
                  !.buf = fixed \o Times(<< h >>, e.hi - e.lo)]
        ELSE [inner EXCEPT !.buf = fixed]
  ELSE
    LET h     == Helper(st.helpers)
        made  == [st EXCEPT !.helpers = @ + 1]
        inner == LowerInto(e.of[1], Fresh(made))
        one   == inner.buf
        done  ==
          CASE e.op = "alt"  -> LowerAlternatives(e.of, 1, h, made)
            [] e.op = "star" -> AddProds(inner, h, StarProds(h, one))
            [] e.op = "plus" -> AddProds(inner, h, PlusProds(h, one))
            [] e.op = "opt"  -> AddProds(inner, h, OptProds(h, one))
    IN  [done EXCEPT !.buf = Append(st.buf, h)]

(***************************************************************************)
(* The alternatives of all rules, in order of definition: the helpers of   *)
(* one come before its own production.  (The state is the element of a set *)
(* so that TLC computes it before it goes on.)                             *)
(***************************************************************************)
LowerOne(alt, st) ==
  LET t == LowerInto(alt.body, Fresh(st))
  IN  [t EXCEPT !.prods = Append(@, Production(alt.rule, t.buf, alt.alias))]

RECURSIVE LowerAll(_, _, _)
LowerAll(alts, i, st) ==
  IF i > Len(alts) THEN st
  ELSE CHOOSE r \in {LowerAll(alts, i + 1, t) : t \in {LowerOne(alts[i], st)}} : TRUE

Lowered(alts) == LowerAll(alts, 1, [prods |-> << >>, helpers |-> 0, buf |-> << >>])

Helpers(st) == {Helper(n) : n \in 0 .. st.helpers - 1}

(* The flags of a helper. *)
Spliced == [splice |-> TRUE, inlined |-> FALSE, bang |-> FALSE, cond |-> FALSE]

(***************************************************************************)
(* finish, and what the parser asks the tables for.  A grammar g has its   *)
(* alternatives, each with its rule and alias; the flags of its rules; its *)
(* terminals, each with its pattern; and of these the ignored, the         *)
(* keywords, those whose names begin with an underscore and the            *)
(* priorities.                                                             *)
(***************************************************************************)
TablesOf(g) ==
  LET st == Lowered(g.alternatives)
  IN  [prods     |-> st.prods,
       start     |-> "start",
       terminals |-> [n \in DOMAIN g.terminals |-> g.terminals[n].sym],
       ignored   |-> g.ignored,
       keywords  |-> g.keywords,
       filtered  |-> g.keywords \cup g.underscored,
       prio      |-> g.prio,
       rules     |-> [A \in DOMAIN g.rules \cup Helpers(st) |->
                        IF A \in Helpers(st) THEN Spliced ELSE g.rules[A]]]

-----------------------------------------------------------------------------
(***************************************************************************)
(* emit_nfa.  The automaton grows by states, numbered from 0, and edges,   *)
(* on a set of characters or on nothing; a fragment has a way in and a way *)
(* out.  Whether case matters and whether the dot matches line feeds is    *)
(* handed down.                                                            *)
(***************************************************************************)
NoNfa   == [states |-> 0, edges |-> {}]
NoFlags == [ci |-> FALSE, dot |-> FALSE]

Edge(a, b, on) == [from |-> a, to |-> b, on |-> on, eps |-> FALSE]
Eps(a, b)      == [Edge(a, b, {}) EXCEPT !.eps = TRUE]

More(m, n)     == [m EXCEPT !.states = @ + n]
Link(m, es)    == [m EXCEPT !.edges = @ \cup es]
Frag(m, a, b)  == [nfa |-> m, in |-> a, out |-> b]

CiClose(mask) == mask \cup {OtherCase[c] : c \in mask \cap DOMAIN OtherCase}

(* Mutant: the class is closed under case after it is complemented. *)
ClassMaskOfRest(e, ci) ==
  LET rest == IF e.negated THEN Alphabet \ e.chars ELSE e.chars
  IN  IF ci THEN CiClose(rest) ELSE rest

(* The members are closed under case; the complement is of the closed set. *)
ClassMask(e, ci) ==
  LET members == IF ci THEN CiClose(e.chars) ELSE e.chars
  IN  IF e.negated THEN Alphabet \ members ELSE members

Mask(e, fl) ==
  IF e.op = "class" THEN ClassMask(e, fl.ci)
  ELSE IF fl.dot THEN Alphabet ELSE Alphabet \ {LineFeed}

(* Into the body or past it, and from its end back or out. *)
StarEdges(a, g) == {Eps(a, g.in), Eps(a, a + 1), Eps(g.out, g.in), Eps(g.out, a + 1)}

OptEdges(a, g) == {Eps(a, g.in), Eps(a, a + 1), Eps(g.out, a + 1)}

RECURSIVE
  Emit(_, _, _),
  EmitEach(_, _, _, _),
  EmitAlternatives(_, _, _, _, _, _),
  EmitTimes(_, _, _, _, _)

(* One after the other, on from the way out of f. *)
EmitEach(es, i, fl, f) ==
  IF i > Len(es) THEN f
  ELSE LET g == Emit(es[i], fl, f.nfa)
       IN  EmitEach(es, i + 1, fl, Frag(Link(g.nfa, {Eps(f.out, g.in)}), f.in, g.out))

EmitAlternatives(es, i, fl, a, b, m) ==
  IF i > Len(es) THEN m
  ELSE LET g == Emit(es[i], fl, m)
       IN  EmitAlternatives(es, i + 1, fl, a, b,
             Link(g.nfa, {Eps(a, g.in), Eps(g.out, b)}))

(* n copies in a row, on from the way out of f; all may be optional. *)
EmitTimes(e, n, optional, fl, f) ==
  IF n = 0 THEN f
  ELSE LET a == f.nfa.states
           g == Emit(e, fl, IF optional THEN More(f.nfa, 2) ELSE f.nfa)
       IN  EmitTimes(e, n - 1, optional, fl,
             IF optional
               THEN Frag(Link(g.nfa, OptEdges(a, g) \cup {Eps(f.out, a)}), f.in, a + 1)
               ELSE Frag(Link(g.nfa, {Eps(f.out, g.in)}), f.in, g.out))

Emit(e, fl, m) ==
  LET a == m.states IN
  CASE e.op = "seq" -> EmitEach(e.of, 1, fl, Frag(More(m, 1), a, a))
    [] e.op = "alt" -> Frag(EmitAlternatives(e.of, 1, fl, a, a + 1, More(m, 2)), a, a + 1)
    [] e.op = "star" ->
         LET g == Emit(e.of[1], fl, More(m, 2)) IN Frag(Link(g.nfa, StarEdges(a, g)), a, a + 1)
    [] e.op = "plus" ->
         LET g == Emit(e.of[1], fl, m) IN Frag(Link(g.nfa, {Eps(g.out, g.in)}), g.in, g.out)
    [] e.op = "opt" ->
         LET g == Emit(e.of[1], fl, More(m, 2)) IN Frag(Link(g.nfa, OptEdges(a, g)), a, a + 1)
    [] e.op = "rep" ->
         LET f == EmitTimes(e.of[1], e.lo, FALSE, fl, Frag(More(m, 1), a, a))
             b == f.nfa.states
             g == Emit(e.of[1], fl, More(f.nfa, 2))
         IN  IF e.hi < 0
               THEN Frag(Link(g.nfa, StarEdges(b, g) \cup {Eps(f.out, b)}), f.in, b + 1)
               ELSE EmitTimes(e.of[1], e.hi - e.lo, TRUE, fl, f)
    [] e.op = "ci"     -> Emit(e.of[1], [fl EXCEPT !.ci = TRUE], m)
    [] e.op = "dotall" -> Emit(e.of[1], [fl EXCEPT !.dot = TRUE], m)
    [] e.op \in {"any", "class"} ->
         Frag(Link(More(m, 2), {Edge(a, a + 1, Mask(e, fl))}), a, a + 1)

(* build_term_nfa *)
BuildNfa(pattern) == Emit(pattern, NoFlags, NoNfa)

-----------------------------------------------------------------------------
(***************************************************************************)
(* The simulation in run_pipeline, of one terminal's automaton: an edge    *)
(* with no characters is followed at once.                                 *)
(***************************************************************************)
RECURSIVE EpsClosure(_, _)
EpsClosure(f, S) ==
  LET T == S \cup {e.to : e \in {d \in f.nfa.edges : d.eps /\ d.from \in S}}
  IN  IF T = S THEN S ELSE EpsClosure(f, T)

Moves(f, S, c) == {e.to : e \in {d \in f.nfa.edges : ~ d.eps /\ d.from \in S /\ c \in d.on}}

Best(best, len) == len

(* On from len characters after position p, alive in the states S. *)
RECURSIVE AcceptLen(_, _, _, _, _, _)
AcceptLen(f, in, p, S, len, best) ==
  LET C    == EpsClosure(f, S)
      now  == IF len > 0 /\ f.out \in C THEN Best(best, len) ELSE best
      next == IF p + len < Len(in) THEN Moves(f, C, in[p + len + 1]) ELSE {}
  IN  IF next = {} THEN now ELSE AcceptLen(f, in, p, next, len + 1, now)

(* 0 if the terminal does not match at position p. *)
LongestMatch(f, in, p) == AcceptLen(f, in, p, {f.in}, 0, 0)

=============================================================================
