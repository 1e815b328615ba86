------------------------------- MODULE Lines -------------------------------
(***************************************************************************)
(* The data the block binder of include/ctyaml/bind.hpp works on: the      *)
(* lines ln<Indent, Content> that the gather pass makes of a parse tree,   *)
(* and the document types (types.hpp) the binder builds from them.         *)
(*                                                                         *)
(* A content node is a `pair`, a `seqitem` or a single-line value.  A      *)
(* seqitem holds a DASH token, of which only the width is read, and        *)
(* possibly another node, so the nodes of one line form a run of dashes    *)
(* that ends in a leaf: a line carries the widths of its dashes and its    *)
(* leaf.  Scalars and flow collections are bound on their own line         *)
(* (bind_value); a leaf carries what that gave, the bound type in Vals and *)
(* the ok flag.                                                            *)
(***************************************************************************)
EXTENDS Naturals, Sequences

CONSTANTS
  Keys,   (* mapping keys, by content: equal content is equal type         *)
  Vals,   (* the document types bind_value makes of single-line values     *)
  NoKey   (* what a loop that waits for no value of a key remembers        *)

ASSUME KeysAssumption == NoKey \notin Keys

(***************************************************************************)
(* Leaves.  "pair" is `key:` with nothing after it, "member" is            *)
(* `key: value`, "none" is the missing content of a dash alone.  keyOk and *)
(* valOk are bind_key::ok and bind_value::ok.                              *)
(***************************************************************************)
Leaf ==
       [kind : {"none"}]
  \cup [kind : {"pair"},   key : Keys, keyOk : BOOLEAN]
  \cup [kind : {"member"}, key : Keys, keyOk : BOOLEAN,
        val : Vals, valOk : BOOLEAN]
  \cup [kind : {"value"},  val : Vals, valOk : BOOLEAN]

(***************************************************************************)
(* A line always has content.  The width of a DASH token counts the dash   *)
(* and the spaces kept after it; the anonymous "-" token, which can only   *)
(* end a line, leaves no DASH in the tree and is given width 1.            *)
(***************************************************************************)
Line ==
  {l \in [indent : Nat, dashes : Seq(Nat \ {0}), leaf : Leaf] :
     l.leaf.kind = "none" => l.dashes # << >>}

(* node_is_seqitem and node_is_pair of the content of line l. *)
NodeIsSeqitem(l) == l.dashes # << >>
NodeIsPair(l)    == l.dashes = << >> /\ l.leaf.kind \in {"pair", "member"}

(* Whether the seqitem l holds a node after its dash. *)
HasInner(l) == Len(l.dashes) > 1 \/ l.leaf.kind # "none"

(* Mutant: the spaces after the dash are not counted. *)
SyntheticNarrow(l) ==
  [indent |-> l.indent + 1, dashes |-> Tail(l.dashes), leaf |-> l.leaf]

(***************************************************************************)
(* The synthetic line `- content` re-enters the binder as: the inner node, *)
(* indented past the dash by the width the DASH token kept.                *)
(***************************************************************************)
Synthetic(l) ==
  [indent |-> l.indent + Head(l.dashes), dashes |-> Tail(l.dashes), leaf |-> l.leaf]

(* Document types. *)
Null         == [kind |-> "null"]
Sequence(is) == [kind |-> "sequence", items |-> is]
Mapping(ms)  == [kind |-> "mapping", members |-> ms]
Member(k, v) == [key |-> k, value |-> v]

(* No two members have the same key. *)
MembersUnique(ms) ==
  \A i, j \in 1 .. Len(ms) : ms[i].key = ms[j].key => i = j

(* What is_valid and parse answer: accepted with a document, or rejected. *)
Pending     == [verdict |-> "pending"]
Rejected    == [verdict |-> "rejected"]
Accepted(t) == [verdict |-> "accepted", document |-> t]

=============================================================================
