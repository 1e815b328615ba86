----------------------------- MODULE FlowBinder -----------------------------
(***************************************************************************)
(* bind_key, resolve_plain, bind_value and bind_fpair of bind.hpp: the     *)
(* document types of single-line values, and what of a parse tree the      *)
(* gather pass and the block binder look at.  A node of the tree is that   *)
(* of TreeBuilder; its tokens are cut from the source: the input, and what *)
(* its double-quoted tokens decode to, by their places.                    *)
(*                                                                         *)
(* A quoted token is decoded to what it means: the loops are in DecodeDQ   *)
(* and DecodeSQ, and the runs of these show that they write that.  What is *)
(* decoded of a token that fails is left open: bind_error reports the      *)
(* escape before anything that depends on it.                              *)
(***************************************************************************)
EXTENDS Serialize, Lines

LOCAL INSTANCE SequencesExt

TextOf(in, tok) == SubSeq(in.text, tok.off + 1, tok.off + tok.len)

(* The type and the ok flag of what is bound. *)
Bound(t, ok) == [type |-> t, ok |-> ok]

-----------------------------------------------------------------------------
(* Quoted tokens. *)

DqUnits(raw) ==
  LET from[p \in 1 .. Len(raw) - 1] ==
        IF p = Len(raw) - 1 THEN {p}
        ELSE {p} \cup from[p + (IF raw[p + 1] = "\\" THEN 2 ELSE 1)]
  IN  from[1]

DqToken(raw) == [text |-> [n \in DOMAIN raw |-> Code(raw[n])], units |-> DqUnits(raw)]

(* The decoder before its first step. *)
Dq(t) ==
  INSTANCE DecodeDQ WITH Tokens <- {t}, token <- t, i <- 1, out <- << >>, ok <- TRUE,
                         digits <- 0, k <- 0, cp <- 0, pc <- "scan"

DqOk(raw) ==
  \A p \in DqUnits(raw) :
    p < Len(raw) - 1 /\ raw[p + 1] = "\\" => ~ Dq(DqToken(raw))!BadEscapeAt(p)

(* What it means, of ASCII. *)
DecodeDq(raw) ==
  IF DqOk(raw)
    THEN LET m == Dq(DqToken(raw))!Meant
         IN  Bound(Text([n \in DOMAIN m |-> CharOf(m[n])]), TRUE)
    ELSE Bound(Text(<< >>), FALSE)

DecodeSq(raw) ==
  LET end == Len(raw) - 1
      from[p \in 1 .. end] ==
        IF p = end THEN << >>
        ELSE << raw[p + 1] >> \o from[p + (IF raw[p + 1] = "'" THEN 2 ELSE 1)]
  IN  Bound(Text(from[1]), TRUE)

(* The source of an input and its tokens. *)
Source(text, toks) ==
  LET in == [text |-> text]
      of(n) == DecodeDq(TextOf(in, toks[n]))
      dqs == {n \in DOMAIN toks : toks[n].sym = "DQ"}
  IN  [text |-> text,
       dq   |-> [off \in {toks[n].off : n \in dqs} |->
                   of(CHOOSE n \in dqs : toks[n].off = off)]]

-----------------------------------------------------------------------------
(* Keys are strings however they are spelled. *)

BindKey(in, tok) ==
  CASE tok.token \in {"SCALAR", "FSCALAR"} -> Bound(Text(TextOf(in, tok)), TRUE)
    [] tok.token = "DQ" -> in.dq[tok.off]
    [] tok.token = "SQ" -> DecodeSq(TextOf(in, tok))

ResolvePlain(w) ==
  CASE Scalar!Resolve(w) = "null"    -> Null
    [] Scalar!Resolve(w) = "boolean" -> Boolean(Scalar!PlainTrue(w))
    [] Scalar!Resolve(w) = "number"  -> Number(w)
    [] Scalar!Resolve(w) = "string"  -> Text(w)

RECURSIVE BindValue(_, _), BindFpair(_, _)

BindValue(in, node) ==
  CASE node.name = "plain"   -> Bound(ResolvePlain(TextOf(in, node.kids[1])), TRUE)
    [] node.name = "dquoted" -> in.dq[node.kids[1].off]
    [] node.name = "squoted" -> DecodeSq(TextOf(in, node.kids[1]))
    [] node.name = "flowseq" ->
         LET vs == [n \in DOMAIN node.kids |-> BindValue(in, node.kids[n])]
         IN  Bound(Sequence([n \in DOMAIN vs |-> vs[n].type]), \A n \in DOMAIN vs : vs[n].ok)
    [] node.name = "flowmap" ->
         LET ps == [n \in DOMAIN node.kids |-> BindFpair(in, node.kids[n])]
             ms == [n \in DOMAIN ps |-> ps[n].type]
         IN  Bound(Mapping(ms), (\A n \in DOMAIN ps : ps[n].ok) /\ MembersUnique(ms))

(* A key without a value is given a null. *)
BindFpair(in, node) ==
  LET key == BindKey(in, node.kids[1])
      val == IF Len(node.kids) = 1 THEN Bound(Null, TRUE) ELSE BindValue(in, node.kids[2])
  IN  Bound(Member(key.type.text, val.type), key.ok /\ val.ok)

-----------------------------------------------------------------------------
(* The segments of tree<start, Segs...>, as Document has them. *)

IsToken(node) == "token" \in DOMAIN node

(* scan_node: a double-quoted token under the node that fails to decode. *)
RECURSIVE BadEscapeIn(_, _)
BadEscapeIn(in, node) ==
  IF IsToken(node) THEN node.token = "DQ" /\ ~ in.dq[node.off].ok
  ELSE \E n \in DOMAIN node.kids : BadEscapeIn(in, node.kids[n])

LeafOf(in, node) ==
  IF node.name # "pair"
    THEN LET v == BindValue(in, node) IN [kind |-> "value", val |-> v.type, valOk |-> v.ok]
    ELSE LET key == BindKey(in, node.kids[1])
         IN  IF Len(node.kids) = 1
               THEN [kind |-> "pair", key |-> key.type.text, keyOk |-> key.ok]
               ELSE LET v == BindValue(in, node.kids[2])
                    IN  [kind |-> "member", key |-> key.type.text, keyOk |-> key.ok,
                         val |-> v.type, valOk |-> v.ok]

(* What follows the key of a pair; of anything else, all of it. *)
ValueOf(node) == IF node.name = "pair" THEN Tail(node.kids) ELSE << node >>

(* Mutant: the width of the dash token is not kept. *)
DashWidthOne(kids) == 1

(* The literal "-" is filtered from the tree, a DASH is not. *)
DashWidth(kids) == IF kids = << >> THEN 1 ELSE kids[1].len

(* The dashes of a line, and the node after the last, if there is one. *)
RECURSIVE Unwrapped(_)
Unwrapped(node) ==
  IF node.name # "seqitem" THEN [dashes |-> << >>, inner |-> << node >>]
  ELSE LET rest == IF Len(node.kids) < 2 THEN [dashes |-> << >>, inner |-> << >>]
                   ELSE Unwrapped(node.kids[2])
       IN  [rest EXCEPT !.dashes = << DashWidth(node.kids) >> \o @]

(* How far a place is from the line break before it. *)
Column(in, off) ==
  off - (CHOOSE n \in 0 .. off :
           /\ n = 0 \/ in.text[n] = "\n"
           /\ \A m \in n + 1 .. off : in.text[m] # "\n")

(* What gather reads off an NL token. *)
NlSegment(in, node) ==
  LET w == TextOf(in, node)
  IN  [nl |-> TRUE, cr |-> w[1] = "\r",
       spaces |-> Len(SelectSeq(w, LAMBDA c : c = " "))]

(* A content node, whose first token is at a place of the input. *)
ContentSegment(in, node, at) ==
  LET u == Unwrapped(node)
      leaf == IF u.inner = << >> THEN [kind |-> "none"] ELSE LeafOf(in, u.inner[1])
  IN  [nl     |-> FALSE,
       column |-> Column(in, at),
       dashes |-> u.dashes,
       leaf   |-> leaf,
       dots   |-> node.name = "plain" /\ TextOf(in, node.kids[1]) = DocumentEnd,
       escVal |-> u.inner # << >> /\
                  \E n \in DOMAIN ValueOf(u.inner[1]) : BadEscapeIn(in, ValueOf(u.inner[1])[n])]

=============================================================================
