----------------------------- MODULE MCCompile -----------------------------
(***************************************************************************)
(* Every expression of up to two operators over two leaves, as the body of *)
(* a rule and as the pattern of a terminal, against what the operators     *)
(* mean as sets of words; and the terminals of the grammar for scalars,    *)
(* on every text up to a length of a character of each kind that they tell *)
(* apart.                                                                  *)
(***************************************************************************)
EXTENDS YamlTokens, GrammarMeaning

CONSTANTS
  MaxWord,            (* the length of the words of an expression *)
  MaxPlain, MaxQuoted (* the length of the texts with scalars *)

VARIABLES
  body,     (* the body of a rule, whose leaves are symbols *)
  terminal, (* whose pattern it is, or none *)
  pattern,  (* the same expression as a pattern *)
  grammar,  (* the productions *)
  nfa       (* the automaton *)

vars == << body, terminal, pattern, grammar, nfa >>

Nothing == [none |-> TRUE]

-----------------------------------------------------------------------------
(* The words of an expression, of up to n leaves. *)

Letters == {"a", "A", "\n"}

UpTo(n, ws) == {w \in ws : Len(w) <= n}

Joined(n, us, vs) == UpTo(n, {u \o v : u \in us, v \in vs})

PowerOf(ws, k, n) ==
  LET of[j \in 0 .. k] == IF j = 0 THEN {<< >>} ELSE Joined(n, of[j - 1], ws) IN of[k]

(* Words longer than n need no more than n rounds that are not empty. *)
Rounds(ws, lo, hi, n) == UNION {PowerOf(ws, k, n) : k \in lo .. hi}

Same(c, d, ci) == c = d \/ (ci /\ c \in DOMAIN OtherCase /\ OtherCase[c] = d)

CharMatches(e, ci, dot, c) ==
  IF e.op = "any" THEN dot \/ c # LineFeed
  ELSE e.negated # (\E d \in e.chars : Same(c, d, ci))

RECURSIVE Meaning(_, _, _, _)
Meaning(e, ci, dot, n) ==
  CASE e.op = "leaf" -> {<< e.sym >>}
    [] e.op \in {"any", "class"} ->
         {<< c >> : c \in {d \in Letters : CharMatches(e, ci, dot, d)}}
    [] e.op = "ci"     -> Meaning(e.of[1], TRUE, dot, n)
    [] e.op = "dotall" -> Meaning(e.of[1], ci, TRUE, n)
    [] e.op = "alt"    -> UNION {Meaning(e.of[k], ci, dot, n) : k \in DOMAIN e.of}
    [] e.op = "seq"    ->
         LET of[k \in 0 .. Len(e.of)] ==
               IF k = 0 THEN {<< >>} ELSE Joined(n, of[k - 1], Meaning(e.of[k], ci, dot, n))
         IN  of[Len(e.of)]
    [] e.op = "star"   -> Rounds(Meaning(e.of[1], ci, dot, n), 0, n, n)
    [] e.op = "plus"   -> Rounds(Meaning(e.of[1], ci, dot, n), 1, n + 1, n)
    [] e.op = "opt"    -> Rounds(Meaning(e.of[1], ci, dot, n), 0, 1, n)
    [] e.op = "rep"    ->
         Rounds(Meaning(e.of[1], ci, dot, n), e.lo, IF e.hi < 0 THEN e.lo + n ELSE e.hi, n)

Words(e) == Meaning(e, FALSE, FALSE, MaxWord)

(* An expression that goes round a body which may be empty. *)
RECURSIVE LoopsOnNothing(_)
LoopsOnNothing(e) ==
  "of" \in DOMAIN e /\
    \/ \E k \in DOMAIN e.of : LoopsOnNothing(e.of[k])
    \/ /\ e.op \in {"star", "plus"} \/ (e.op = "rep" /\ e.hi < 0)
       /\ << >> \in Meaning(e.of[1], FALSE, FALSE, 0)

-----------------------------------------------------------------------------
(* The expressions. *)

Repeated(es) ==
  UNION {{Star(e), Plus(e), Opt(e),
          Rep(e, 0, 0), Rep(e, 1, 2), Rep(e, 0, 2), Rep(e, 2, 2), Rep(e, 1, NoLimit)} : e \in es}

Paired(ds, es) ==
  {Cat(<< d, e >>) : d \in ds, e \in es} \cup {Alt(<< d, e >>) : d \in ds, e \in es}

Built(leaves) ==
  LET one == Repeated(leaves) \cup Paired(leaves, leaves) \cup {Cat(<< >>)}
  IN  leaves \cup one \cup Repeated(one) \cup Paired(one, leaves) \cup Paired(leaves, one)

Bodies == Built({Leaf("a"), Leaf("b")})

(* The pattern of a body: a letter, and its case or the line feed too. *)
RECURSIVE AsPattern(_, _)
AsPattern(e, leaf) ==
  IF e.op = "leaf" THEN leaf[e.sym]
  ELSE [e EXCEPT !.of = [k \in DOMAIN e.of |-> AsPattern(e.of[k], leaf)]]

Leaves == {
  [a |-> Chr("a"), b |-> Dot],
  [a |-> NoCase(Chr("a")), b |-> NotIn({"a"})],
  [a |-> NoCase(NotIn({"a"})), b |-> DotAll(Dot)],
  [a |-> NoCase(Class({"a", "\n"})), b |-> Cat(<< Chr("a"), Chr("A") >>)]}

TextsOf(cs, max) == UNION {[1 .. n -> cs] : n \in 0 .. max}

(* For plain scalars, with one flow indicator and one other; for quoted ones. *)
PlainChars  == {"x", " ", ":", "#", "-", "?", ",", "&", "\n"}
QuotedChars == {"x", "\"", "'", "\\", "\n"}

MCAlphabet  == Letters \cup PlainChars \cup QuotedChars
MCOtherCase == [c \in {"a", "A"} |-> IF c = "a" THEN "A" ELSE "a"]
MCLineFeed  == "\n"

Texts       == TextsOf(Letters, MaxWord)
PlainTexts  == TextsOf(PlainChars, MaxPlain)
QuotedTexts == TextsOf(QuotedChars, MaxQuoted)

-----------------------------------------------------------------------------
Init ==
  /\ \/ /\ body \in Bodies
        /\ terminal = "none"
        /\ \E leaf \in Leaves : pattern = AsPattern(body, leaf)
     \/ /\ terminal \in {"SCALAR", "FSCALAR", "DQ", "SQ"}
        /\ body = Leaf(terminal)
        /\ \E n \in DOMAIN TerminalTable :
             TerminalTable[n].sym = terminal /\ pattern = TerminalTable[n].pattern
  /\ grammar = Nothing
  /\ nfa = Nothing

Lower ==
  /\ grammar = Nothing
  /\ grammar' = Lowered(<< [rule |-> "S", body |-> body, alias |-> "none"] >>)
  /\ UNCHANGED << body, terminal, pattern, nfa >>

Automate ==
  /\ grammar # Nothing
  /\ nfa = Nothing
  /\ nfa' = BuildNfa(pattern)
  /\ UNCHANGED << body, terminal, pattern, grammar >>

Finished == nfa # Nothing /\ UNCHANGED vars

Next == Lower \/ Automate \/ Finished

Spec == Init /\ [][Next]_vars

-----------------------------------------------------------------------------
(***************************************************************************)
(* The productions that a rule's body is lowered to derive exactly the     *)
(* words of the body, with its loops, options, groups and counts, and they *)
(* make a cyclic grammar, which the tree builder may give up on, only for  *)
(* a loop around a body that may be empty.                                 *)
(***************************************************************************)
LoweringKeepsWords ==
  grammar # Nothing =>
    /\ {q[2] : q \in {r \in Language(grammar, MaxWord) : r[1] = "S"}} = Words(body)
    /\ Cyclic(grammar) <=> LoopsOnNothing(body)

(***************************************************************************)
(* The automaton of a pattern finds, at every place of every text, the     *)
(* longest match that is not empty, however the fragments are nested, and  *)
(* with cases and complements as the pattern says.                         *)
(***************************************************************************)
MatchesLongest ==
  nfa # Nothing /\ terminal = "none" =>
    \A W \in {Words(pattern)} : \A t \in Texts : \A p \in 0 .. Len(t) :
      LET lens == {k \in 1 .. Len(t) - p : SubSeq(t, p + 1, p + k) \in W}
          n    == LongestMatch(nfa, t, p)
      IN  IF lens = {} THEN n = 0 ELSE n \in lens /\ \A k \in lens : k <= n

Finds(t, text, n) == terminal = t => LongestMatch(nfa, text, 0) = n

(***************************************************************************)
(* A plain token is the longest text that the rules for plain scalars      *)
(* allow, in a flow collection with none of its indicators: `key: value`   *)
(* splits and `key:value` does not, a comment needs a space, and the       *)
(* spaces after a scalar are not part of it.                               *)
(***************************************************************************)
PlainIsLongest ==
  nfa # Nothing /\ terminal \in {"SCALAR", "FSCALAR"} =>
    \A text \in PlainTexts :
      ~ ColonAfterIndicator(text) =>
        /\ Finds("SCALAR", text, LongestPlain(text, {}))
        /\ Finds("FSCALAR", text, LongestPlain(text, FlowIndicators))

(***************************************************************************)
(* A quoted token goes from its quote to the first one that closes it, not *)
(* one that is escaped or doubled, on the same line: the texts for which   *)
(* the decoders stay within their buffers.                                 *)
(***************************************************************************)
QuotedCloses ==
  nfa # Nothing /\ terminal \in {"DQ", "SQ"} =>
    \A text \in QuotedTexts \ {<< >>} :
      /\ Finds("DQ", text, IF text[1] = Quote THEN ClosesAt(text, 2, Quote) ELSE 0)
      /\ text[1] = "'" /\ ClosesAt(text, 2, "'") > 0 => Finds("SQ", text, ClosesAt(text, 2, "'"))
      /\ text[1] # "'" => Finds("SQ", text, 0)

=============================================================================
