----------------------------- MODULE MCGrammars -----------------------------
(***************************************************************************)
(* Every grammar of up to MaxProds productions over the nonterminals S and *)
(* A and one terminal, in every order of its productions, with every input *)
(* of its terminal up to MaxSize: left, right and hidden recursion,        *)
(* cycles, ambiguity, symbols that derive nothing and nullable symbols.    *)
(***************************************************************************)
EXTENDS ParserProperties

CONSTANTS MaxProds, MaxRhs, MaxSize

Symbols == {"S", "A", "a"}

Bodies == UNION {[1 .. n -> Symbols] : n \in 0 .. MaxRhs}

Productions == {[lhs |-> l, rhs |-> r] : l \in {"S", "A"}, r \in Bodies}

(* The alias shows in the tree which production was chosen. *)
Aliases == << "p1", "p2", "p3", "p4" >>

Grammar(ps) ==
  [prods     |-> [p \in DOMAIN ps |-> [lhs |-> ps[p].lhs, rhs |-> ps[p].rhs, alias |-> Aliases[p]]],
   start     |-> "S",
   terminals |-> << "a" >>,
   ignored   |-> {}, keywords |-> {}, filtered |-> {},
   prio      |-> [t \in {"a"} |-> 0],
   rules     |-> [A \in {"S", "A"} |->
                    [splice |-> FALSE, inlined |-> FALSE, bang |-> FALSE, cond |-> FALSE]]]

(* Distinct productions; both nonterminals are defined. *)
Defined(ps) ==
  /\ \A p, q \in DOMAIN ps : ps[p] = ps[q] => p = q
  /\ ps[1].lhs = "S"
  /\ \E p \in DOMAIN ps : ps[p].lhs = "A"

Grammars ==
  {Grammar(ps) : ps \in {f \in UNION {[1 .. n -> Productions] : n \in 2 .. MaxProds} : Defined(f)}}

Inputs == UNION {[1 .. n -> {"a"}] : n \in 0 .. MaxSize}

As(n) == [k \in 1 .. n |-> "a"]

(***************************************************************************)
(* Crowded charts: a rule of n nullable symbols, each the rule itself, has *)
(* an item for each of its positions from each set before, and they outrun *)
(* a capacity that grows with the input only linearly.                     *)
(***************************************************************************)
Crowd(n, bodies) ==
  Grammar([p \in 1 .. Len(bodies) + 1 |->
             [lhs |-> "S", rhs |-> IF p = 1 THEN [k \in 1 .. n |-> "S"] ELSE bodies[p - 1]]])

(* The chart is full while a set is closed; while a token is scanned. *)
FullInClosing   == [grammar |-> Crowd(14, << As(1), As(0) >>), input |-> As(9)]
FullInScan      == [grammar |-> Crowd(15, << As(1), As(0), As(2) >>), input |-> As(12)]

GrammarJobs == [grammar : Grammars, input : Inputs] \cup {FullInClosing, FullInScan}

=============================================================================
