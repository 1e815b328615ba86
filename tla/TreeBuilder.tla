---------------------------- MODULE TreeBuilder ----------------------------
(***************************************************************************)
(* The tree_builder of ctlark and the rest of run_parse: from a chart that *)
(* accepts, one derivation, in the shape the grammar gives its trees.      *)
(* Helpers and _rules splice, a ?rule with one child is that child, an     *)
(* alias renames, and the tokens of filtered terminals are left out unless *)
(* a !rule keeps them.                                                     *)
(*                                                                         *)
(* Beside what Earley uses of it, a grammar has the flags of its rules,    *)
(* the aliases of its productions and its filtered terminals.  A child is  *)
(* a record here and an index in the code.                                 *)
(***************************************************************************)
EXTENDS Earley

CONSTANTS
  MaxDepth, (* max_depth, of the recursion *)
  MaxKids,  (* max_kids, the children of one node while it is built *)
  NoAlias   (* the alias of a production that has none *)

VARIABLES
  root, (* the tree *)
  fail  (* what the builder fails with; pending before it has run *)

treeVars == << vars, root, fail >>

TokenNode(n)   == [token |-> toks[n].sym, off |-> toks[n].off, len |-> toks[n].len]
TreeNode(a, k) == [name |-> a, kids |-> k]
NoTree         == TreeNode("no tree", << >>)

NodeCap == 8 * (Size + 2) + 128 (* and child_cap *)

Rule(A)    == job.grammar.rules[A]
IsTerm(s)  == s \in Terminals
RhsOf(p)   == Prods[p].rhs
ProdsOf(A) == {p \in DOMAIN Prods : Prods[p].lhs = A}

CompletedOver(p, s, e) ==
  \E n \in DOMAIN sets[e + 1] :
    LET it == sets[e + 1][n]
    IN  it.prod = p /\ it.origin = s /\ Complete(it)

Derivable(A, s, e) == \E p \in ProdsOf(A) : CompletedOver(p, s, e)

-----------------------------------------------------------------------------
(* find_splits: where the symbols of a production start, and the end. *)

NoSplits   == [status |-> "none"]
TooDeep(n) == [status |-> "depth", place |-> n]
Splits(x)  == [status |-> "found", at |-> x]

From(at, r) == IF r.status = "found" THEN Splits(<< at >> \o r.at) ELSE r

Attempt(n, r) == [at |-> n, splits |-> r]

(* Mutant: the shortest end is tried first. *)
FirstEndShortest(tried) ==
  LET hits == {t \in tried : t.splits # NoSplits}
  IN  IF hits = {} THEN NoSplits
      ELSE (CHOOSE t \in hits : \A u \in hits : t.at <= u.at).splits

(***************************************************************************)
(* Candidate ends, longest first.  A failure for depth sticks, whatever    *)
(* the ends after it would give.                                           *)
(***************************************************************************)
FirstEnd(tried) ==
  LET hits == {t \in tried : t.splits # NoSplits}
  IN  IF hits = {} THEN NoSplits
      ELSE (CHOOSE t \in hits : \A u \in hits : u.at <= t.at).splits

RECURSIVE FindSplits(_, _, _, _, _)
FindSplits(p, e, i, at, depth) ==
  IF depth > MaxDepth THEN TooDeep(at)
  ELSE IF i > Len(RhsOf(p)) THEN (IF at = e THEN Splits(<< at >>) ELSE NoSplits)
  ELSE IF IsTerm(RhsOf(p)[i])
    THEN IF at < e /\ toks[at + 1].sym = RhsOf(p)[i]
           THEN From(at, FindSplits(p, e, i + 1, at + 1, depth + 1))
           ELSE NoSplits
  ELSE From(at, FirstEnd({Attempt(q, FindSplits(p, e, i + 1, q, depth + 1)) :
                            q \in {r \in at .. e : Derivable(RhsOf(p)[i], at, r)}}))

-----------------------------------------------------------------------------
(* derive.  The state it works on: the failure and the token it is at, the *)
(* children so far, and how many nodes and children are in the pools.      *)

Begun == [fail |-> "none", place |-> -1, kids |-> << >>, nodes |-> 0, children |-> 0]

Failed(st, e)      == [st EXCEPT !.fail = e]
FailedAt(st, e, n) == [st EXCEPT !.fail = e, !.place = n]

AddKid(st, kid) ==
  IF Len(st.kids) >= MaxKids THEN Failed(st, "overflow")
  ELSE [st EXCEPT !.kids = Append(st.kids, kid)]

AddToken(st, n) ==
  IF Len(st.kids) >= MaxKids \/ st.nodes >= NodeCap THEN Failed(st, "overflow")
  ELSE [st EXCEPT !.kids = Append(st.kids, TokenNode(n)), !.nodes = st.nodes + 1]

(* commit_children, add_node: a tree of the children of st. *)
AddTree(st, name, kids) ==
  IF st.children + Len(st.kids) > NodeCap \/ st.nodes >= NodeCap
    THEN Failed(st, "overflow")
    ELSE AddKid([st EXCEPT !.kids = kids, !.nodes = st.nodes + 1,
                           !.children = st.children + Len(st.kids)],
                TreeNode(name, st.kids))

NameOf(p) == IF Prods[p].alias = NoAlias THEN Prods[p].lhs ELSE Prods[p].alias

(* A ?rule with a single child collapses to it, unless it has an alias. *)
Collapses(p, st) ==
  Rule(Prods[p].lhs).cond /\ Len(st.kids) = 1 /\ Prods[p].alias = NoAlias

(* A ! holds for the helpers of a rule too. *)
Keeps(A, keepAll) == IF Rule(A).splice THEN keepAll ELSE Rule(A).bang

Kept(s, keep) == s \notin job.grammar.filtered \/ keep

RECURSIVE Derive(_, _, _, _, _, _), DeriveRhs(_, _, _, _, _, _)

(* The first completed production, in definition order, over s .. e. *)
Derive(A, s, e, keepAll, st, depth) ==
  IF st.fail # "none" THEN st
  ELSE IF depth > MaxDepth THEN FailedAt(st, "depth", s)
  ELSE
    LET tried   == {Attempt(p, FindSplits(p, e, 1, s, depth)) :
                      p \in {q \in ProdsOf(A) : CompletedOver(q, s, e)}}
        hits    == {t \in tried : t.splits # NoSplits}
        chosen  == CHOOSE t \in hits : \A u \in hits : t.at <= u.at
        spliced == Rule(A).splice \/ Rule(A).inlined
        inner   == DeriveRhs(chosen.at, chosen.splits.at, 1, Keeps(A, keepAll),
                             IF spliced THEN st ELSE [st EXCEPT !.kids = << >>], depth)
    IN  IF hits = {} THEN FailedAt(st, "parse", s)
        ELSE IF chosen.splits.status = "depth" THEN FailedAt(st, "depth", chosen.splits.place)
        ELSE IF inner.fail # "none" \/ spliced THEN inner
        ELSE IF Collapses(chosen.at, inner)
          THEN AddKid([inner EXCEPT !.kids = st.kids], inner.kids[1])
        ELSE AddTree(inner, NameOf(chosen.at), st.kids)

DeriveRhs(p, splits, i, keep, st, depth) ==
  IF i > Len(RhsOf(p)) \/ st.fail # "none" THEN st
  ELSE
    LET s == RhsOf(p)[i]
    IN  DeriveRhs(p, splits, i + 1, keep,
          IF IsTerm(s)
            THEN IF Kept(s, keep) THEN AddToken(st, splits[i] + 1) ELSE st
            ELSE Derive(s, splits[i], splits[i + 1], keep, st, depth + 1),
          depth)

(* A start that leaves one node is that node; anything else is wrapped. *)
Derived ==
  LET top == Derive(Start, 0, Len(toks), FALSE, Begun, 0)
  IN  IF top.fail # "none" \/ Len(top.kids) = 1 THEN top
      ELSE AddTree(top, Start, << >>)

(***************************************************************************)
(* err_pos and the expected terminals, where a parse failed: at the place  *)
(* of the lexer, at the token the builder was at, or not known, which is 0.*)
(***************************************************************************)
TokOff(n) == IF n < Len(toks) THEN toks[n + 1].off ELSE Size

ErrPos ==
  IF result \in {"lex", "parse"} THEN pos
  ELSE IF result = "accepted" /\ Derived.place >= 0 THEN TokOff(Derived.place)
  ELSE 0

Recorded ==
  IF result \in {"lex", "parse"} THEN SelectSeq(job.grammar.terminals, Expected) ELSE << >>

-----------------------------------------------------------------------------
TreeInit == Init /\ root = NoTree /\ fail = "pending"

Parse == Step /\ UNCHANGED << root, fail >>

Build ==
  /\ pc = "done"
  /\ result = "accepted"
  /\ fail = "pending"
  /\ fail' = Derived.fail
  /\ root' = IF Derived.fail = "none" THEN Derived.kids[1] ELSE NoTree
  /\ UNCHANGED vars

Built == fail = "none"

TreeDone ==
  /\ pc = "done"
  /\ result = "accepted" => fail # "pending"
  /\ UNCHANGED treeVars

TreeNext == Parse \/ Build \/ TreeDone

TreeSpec == TreeInit /\ [][TreeNext]_treeVars

(* Constant evaluation that has begun goes on. *)
FairTreeSpec == TreeSpec /\ WF_treeVars(Parse)

=============================================================================
