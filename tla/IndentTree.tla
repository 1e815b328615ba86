----------------------------- MODULE IndentTree -----------------------------
(***************************************************************************)
(* What the block binder promises, stated without its recursive descent:   *)
(* the document is the tree that the COLUMNS of its nodes describe.        *)
(*                                                                         *)
(* Every node of every line has a column.  A node belongs to the nearest   *)
(* earlier node that encloses it: one at a smaller column, or, for a dash, *)
(* a key at its own column (YAML's one deliberate irregularity).  A line   *)
(* list is a document when every node has a legal place in that tree, no   *)
(* mapping repeats a key and every scalar decoded; the document is then    *)
(* read off the tree.  The state machine at the end decides in one step.   *)
(***************************************************************************)
EXTENDS Lines

CONSTANT Docs (* the line lists the binder may be given, as in BlockBinder *)

(* The column just past the first n dashes of line l. *)
Columns(l) ==
  LET past[n \in 0 .. Len(l.dashes)] ==
        IF n = 0 THEN l.indent ELSE past[n - 1] + l.dashes[n]
  IN  past

Column(l, n) == Columns(l)[n]

(* The nodes of one line, left to right: its dashes, then its leaf. *)
LineNodes(l) ==
  LET n == Len(l.dashes)
      dashes == [i \in 1 .. n |-> [kind |-> "dash", col |-> Column(l, i - 1)]]
      leaf == [kind |-> l.leaf.kind, col |-> Column(l, n), leaf |-> l.leaf]
  IN  IF l.leaf.kind = "none" THEN dashes ELSE Append(dashes, leaf)

(* The nodes of the last n lines of ls. *)
NodesOfLast(ls) ==
  LET last[n \in 0 .. Len(ls)] ==
        IF n = 0 THEN << >> ELSE LineNodes(ls[Len(ls) + 1 - n]) \o last[n - 1]
  IN  last

Nodes(ls) == NodesOfLast(ls)[Len(ls)]

IsEntry(n) == n.kind \in {"pair", "member"}

(* Node a, standing before node b, would have b inside it. *)
Encloses(a, b) ==
  \/ a.col < b.col
  \/ a.col = b.col /\ IsEntry(a) /\ b.kind = "dash"

(* The nearest enclosing node before node k, 0 for the document itself. *)
Parent(ns, k) ==
  LET before == {j \in 1 .. k - 1 : Encloses(ns[j], ns[k])}
  IN  IF before = {} THEN 0 ELSE CHOOSE j \in before : \A i \in before : j >= i

(* What of the first n nodes stands directly inside node p, in order. *)
ChildrenUpTo(ns, p) ==
  LET kids[n \in Nat] ==
        IF n = 0 THEN << >>
        ELSE IF Parent(ns, n) = p THEN Append(kids[n - 1], n)
        ELSE kids[n - 1]
  IN  kids

Children(ns, p) == ChildrenUpTo(ns, p)[Len(ns)]

(***************************************************************************)
(* Only a dash and a key without a value of its own have room for a block. *)
(***************************************************************************)
HasRoom(ns, p) == p = 0 \/ ns[p].kind \in {"dash", "pair"}

(***************************************************************************)
(* The nodes of one block stand at one column, and are the items of one    *)
(* sequence, the entries of one mapping, or one value.                     *)
(***************************************************************************)
IsBlock(ns, cs) ==
  /\ \A i, j \in DOMAIN cs : ns[cs[i]].col = ns[cs[j]].col
  /\ \/ \A i \in DOMAIN cs : ns[cs[i]].kind = "dash"
     \/ \A i \in DOMAIN cs : IsEntry(ns[cs[i]])
     \/ Len(cs) = 1

(* Every node has a legal place in the tree of the columns. *)
WellIndented(ns) ==
  /\ \A k \in DOMAIN ns : HasRoom(ns, Parent(ns, k))
  /\ \A p \in 0 .. Len(ns) : IsBlock(ns, Children(ns, p))

(* Key k is in two entries of one block. *)
Repeated(ns, k) ==
  \E i, j \in DOMAIN ns :
    /\ i < j /\ IsEntry(ns[i]) /\ IsEntry(ns[j])
    /\ Parent(ns, i) = Parent(ns, j) /\ ns[i].col = ns[j].col
    /\ ns[i].leaf.key = k /\ ns[j].leaf.key = k

(* The scalars and the key of a leaf decoded, and its flow value is good. *)
LeafOk(n) ==
  /\ n.kind \in {"pair", "member"}  => n.leaf.keyOk
  /\ n.kind \in {"member", "value"} => n.leaf.valOk

Valid(ls) ==
  LET ns == Nodes(ls)
  IN  /\ WellIndented(ns)
      /\ \A k \in Keys : ~ Repeated(ns, k)
      /\ \A k \in DOMAIN ns : LeafOk(ns[k])

(***************************************************************************)
(* The document of a valid line list.  A node only contains later nodes,   *)
(* so the value of node k is defined from those of k + 1 .. Len(ns); that  *)
(* of node 0 is the whole document.                                        *)
(***************************************************************************)
BlockOf(ns, cs, val) ==
  IF cs = << >>                    THEN Null
  ELSE IF ns[cs[1]].kind = "dash"  THEN Sequence([i \in DOMAIN cs |-> val[cs[i]]])
  ELSE IF IsEntry(ns[cs[1]])
       THEN Mapping([i \in DOMAIN cs |->
                       Member(ns[cs[i]].leaf.key, val[cs[i]])])
  ELSE val[cs[1]]

Values(ns) ==
  LET val[k \in 0 .. Len(ns)] ==
        IF k # 0 /\ ns[k].kind \in {"member", "value"} THEN ns[k].leaf.val
        ELSE BlockOf(ns, Children(ns, k), val)
  IN  val

TreeOf(ls) == Values(Nodes(ls))[0]

Verdict(ls) == IF Valid(ls) THEN Accepted(TreeOf(ls)) ELSE Rejected

-----------------------------------------------------------------------------
VARIABLES
  lines,    (* the line list, fixed *)
  outcome   (* Pending, then the verdict *)

Init == lines \in Docs /\ outcome = Pending

Decide ==
  /\ outcome = Pending
  /\ outcome' = Verdict(lines)
  /\ UNCHANGED lines

Spec == Init /\ [][Decide]_<<lines, outcome>>

=============================================================================
