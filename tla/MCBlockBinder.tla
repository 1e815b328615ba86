--------------------------- MODULE MCBlockBinder ---------------------------
(***************************************************************************)
(* Small instances of the block binder: every document of a few lines at a *)
(* few indents, with contents among a few.  The first line of a text is at *)
(* indent 0 when it has content; a blank first line lets any indent come   *)
(* first.                                                                  *)
(***************************************************************************)
EXTENDS BlockRefinement

CONSTANTS k1, k2, v1, v2 (* two keys and two scalar documents *)

MCKeys == {k1, k2}
MCVals == {v1, v2}

Content(dashes, leaf) == [dashes |-> dashes, leaf |-> leaf]

None           == [kind |-> "none"]
Pair(k, ok)    == [kind |-> "pair", key |-> k, keyOk |-> ok]
Entry(k, v)    == [kind |-> "member", key |-> k, keyOk |-> TRUE,
                   val |-> v, valOk |-> TRUE]
Value(v, ok)   == [kind |-> "value", val |-> v, valOk |-> ok]

LinesOf(indents, contents) ==
  {[indent |-> i, dashes |-> c.dashes, leaf |-> c.leaf] :
     i \in indents, c \in contents}

UpTo3(ls) ==
  {ds \in [1 .. 0 -> ls] \cup [1 .. 1 -> ls] \cup [1 .. 2 -> ls] \cup [1 .. 3 -> ls] :
     ds # << >> => ds[1].indent \in {0, 2}}
Five(ls) == {ds \in [1 .. 5 -> ls] : ds[1].indent = 0}

(* Every kind of content, two keys to collide, failed scalars, dashes of   *)
(* two widths and a compact chain of them.                                 *)
WideContents ==
  { Content(<< >>, Pair(k1, TRUE)),
    Content(<< >>, Pair(k2, FALSE)),
    Content(<< >>, Entry(k1, v1)),
    Content(<< >>, Entry(k2, v2)),
    Content(<< >>, Value(v1, TRUE)),
    Content(<< >>, Value(v2, FALSE)),
    Content(<< 1 >>, None),
    Content(<< 2, 1 >>, None),
    Content(<< 2 >>, Pair(k1, TRUE)),
    Content(<< 2 >>, Entry(k2, v1)),
    Content(<< 3 >>, Value(v1, TRUE)),
    Content(<< 2, 2 >>, Entry(k1, v2)) }

WideDocs == UpTo3(LinesOf({0, 1, 2, 4}, WideContents))

(* Longer documents of what opens, continues and closes blocks. *)
DeepContents ==
  { Content(<< >>, Pair(k1, TRUE)),
    Content(<< >>, Entry(k2, v1)),
    Content(<< 1 >>, None),
    Content(<< 2 >>, Pair(k2, TRUE)) }

DeepDocs == Five(LinesOf({0, 1, 2}, DeepContents))

MCDocs == WideDocs \cup DeepDocs

=============================================================================
