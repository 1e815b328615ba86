-------------------------- MODULE ParserProperties --------------------------
(***************************************************************************)
(* What the lexer and the tree builder promise, said with the words of a   *)
(* grammar (GrammarMeaning) and with no items.                             *)
(***************************************************************************)
EXTENDS TreeBuilder, EarleyProperties, GrammarMeaning

LOCAL INSTANCE SequencesExt

CONSTANT Slack(_) (* of a job: the terminals that complete a word, when it can be completed *)

(* Every nonterminal derives a word; terminal t can follow n tokens. *)
Productive(L) == \A A \in Nonterminals(job.grammar) : \E q \in L : q[1] = A

Viable(L, n, t) ==
  \E q \in L : q[1] = Start /\ IsPrefixOf(Append(SubSeq(Read, 1, n), t), q[2])

(***************************************************************************)
(* The terminals that an item of a closed set waits for are those with     *)
(* which the tokens go on to a word of the language: the lexer, which      *)
(* looks for no others, misses no token and offers none that leads         *)
(* nowhere, and this is what the diagnosis calls expected.                 *)
(***************************************************************************)
ExpectedIsViable ==
  pc = "lex" =>
    \A L \in {Language(job.grammar, Len(toks) + 1 + Slack(job))} :
      Productive(L) => \A t \in Terminals : Expected(t) <=> Viable(L, Len(toks), t)

(***************************************************************************)
(* The derivation that the language allows for the tokens a .. b when the  *)
(* first alternative is taken, and then the longest splits.                *)
(***************************************************************************)
Meant(L, A, a, b) ==
  LET g == job.grammar
      span(x, y) == SubSeq(Read, x + 1, y)
      yields(s, x, y) == span(x, y) \in SymbolWords(g, L, s)
      cuts(p) ==
        LET n == Len(g.prods[p].rhs)
        IN  {c \in [0 .. n -> a .. b] :
               /\ c[0] = a /\ c[n] = b
               /\ \A k \in 1 .. n :
                    c[k - 1] <= c[k] /\ yields(g.prods[p].rhs[k], c[k - 1], c[k])}
      p == CHOOSE q \in ProdsOf(A) :
             cuts(q) # {} /\ \A r \in ProdsOf(A) : cuts(r) # {} => q <= r
      longer(c, d) ==
        \E k \in DOMAIN c : c[k] > d[k] /\ \A m \in 0 .. k - 1 : c[m] = d[m]
  IN  << p, CHOOSE c \in cuts(p) : \A d \in cuts(p) : c = d \/ longer(c, d) >>

(***************************************************************************)
(* That derivation in the shape of the grammar's trees: the nodes that a   *)
(* symbol over a .. b leaves in its parent, which keeps filtered tokens or *)
(* does not.  Nothing is left of what is nested too deep.                  *)
(***************************************************************************)
RECURSIVE Shaped(_, _, _, _, _, _)
Shaped(L, A, a, b, keepAll, depth) ==
  IF depth > MaxDepth THEN << >>
  ELSE LET m    == Meant(L, A, a, b)
           rhs  == RhsOf(m[1])
           flag == Rule(A)
           keep == IF flag.splice THEN keepAll ELSE flag.bang
           of(k) == IF ~ IsTerm(rhs[k]) THEN Shaped(L, rhs[k], m[2][k - 1], m[2][k], keep, depth + 1)
                    ELSE IF keep \/ rhs[k] \notin job.grammar.filtered THEN << TokenNode(m[2][k]) >>
                    ELSE << >>
           kids == FlattenSeq([k \in DOMAIN rhs |-> of(k)])
       IN  IF flag.splice \/ flag.inlined THEN kids
           ELSE IF flag.cond /\ Len(kids) = 1 /\ Prods[m[1]].alias = NoAlias THEN kids
           ELSE << TreeNode(NameOf(m[1]), kids) >>

(***************************************************************************)
(* What is accepted has a tree, unless the grammar is cyclic, and it is    *)
(* the derivation that the code says ambiguity is resolved to, the first   *)
(* listed alternative and then the longest splits, with helpers and _rules *)
(* spliced, a ?rule with one child replaced by it unless it has an alias,  *)
(* and filtered tokens left out unless a ! of the rule that a helper       *)
(* belongs to keeps them.                                                  *)
(***************************************************************************)
ResolvesAsListed ==
  /\ fail # "pending" => Built \/ (fail = "depth" /\ Cyclic(job.grammar))
  /\ Built =>
       \A L \in {Language(job.grammar, Len(toks))} :
         \A top \in {Shaped(L, Start, 0, Len(toks), FALSE, 0)} :
           root = IF Len(top) = 1 THEN top[1] ELSE TreeNode(Start, top)

(***************************************************************************)
(* Each token is the longest match at its place of a terminal that can     *)
(* come there at all, or of one to ignore, and a lexical error means that  *)
(* there is no such match.  What lies between two tokens is ignored.       *)
(***************************************************************************)
Fits(L, n, t) == Viable(L, n, t) \/ Ignored(t)

RECURSIVE IsIgnored(_, _)
IsIgnored(a, b) ==
  a = b \/ \E t \in job.grammar.ignored :
              LET n == Longest(job, t, a) IN n > 0 /\ a + n <= b /\ IsIgnored(a + n, b)

LexesLongest ==
  pc = "done" =>
    \A L \in {Language(job.grammar, Len(toks) + 1 + Slack(job))} :
      Productive(L) =>
        /\ \A n \in DOMAIN toks, t \in Terminals :
             Fits(L, n - 1, t) => Longest(job, t, toks[n].off) <= toks[n].len
        /\ \A n \in DOMAIN toks :
             IsIgnored(IF n = 1 THEN 0 ELSE TokenEnd(n - 1), toks[n].off)
        /\ result = "lex" =>
             \A t \in Terminals : Fits(L, Len(toks), t) => Longest(job, t, pos) = 0

(* Every parse ends: the sets close though each item may ask for more. *)
AlwaysEnds == <>(pc = "done")

=============================================================================
