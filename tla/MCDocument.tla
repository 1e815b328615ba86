----------------------------- MODULE MCDocument -----------------------------
(***************************************************************************)
(* Small instances of Document: texts of up to three lines with content.   *)
(* The first line may be blank or start with `---`; the others come after  *)
(* \n or \r\n, and after blank lines of another indent.                    *)
(***************************************************************************)
EXTENDS Document, TLC

CONSTANTS k1, k2, v1

MCKeys == {k1, k2}

Plain   == [kind |-> "string", text |-> v1]
Broken  == [kind |-> "string", text |-> ""]
FlowMap == Mapping(<< Member(k1, Plain), Member(k1, Plain) >>)
FlowSeq == Sequence(<< FlowMap >>)
MCVals  == {Plain, Broken, FlowMap, FlowSeq}

(* Content of a leaf, standing at column n. *)
At(n, c) == [nl |-> FALSE, column |-> n] @@ c

Content(dashes, leaf, dots, esc) ==
  [dashes |-> dashes, leaf |-> leaf, dots |-> dots, escVal |-> esc]

Pair(k)         == [kind |-> "pair", key |-> k, keyOk |-> TRUE]
Entry(k, v, ok) == [kind |-> "member", key |-> k, keyOk |-> TRUE,
                    val |-> v, valOk |-> ok]
Value(v)        == [kind |-> "value", val |-> v, valOk |-> TRUE]

ContentKinds ==
  { Content(<< >>, Pair(k1), FALSE, FALSE),
    Content(<< >>, Entry(k1, Plain, TRUE), FALSE, FALSE),
    Content(<< >>, Entry(k2, FlowSeq, FALSE), FALSE, FALSE),
    Content(<< >>, Entry(k2, Broken, FALSE), FALSE, TRUE),
    Content(<< >>, Value(Plain), TRUE, FALSE),
    Content(<< 2 >>, Pair(k1), FALSE, FALSE),
    Content(<< 2 >>, Entry(k2, Plain, TRUE), FALSE, FALSE),
    Content(<< >>, [kind |-> "pair", key |-> k2, keyOk |-> FALSE], FALSE, FALSE) }

FirstLines ==
  {<< >>} \cup {<< At(0, c) >> : c \in ContentKinds}
          \cup {<< At(4, c) >> : c \in ContentKinds}

Nl(cr, n) == [nl |-> TRUE, cr |-> cr, spaces |-> n]

Indents == {0, 1, 2}

OtherLines ==
  {<< Nl(n = 1, n), At(n, c) >> : n \in Indents, c \in ContentKinds} \cup
  {<< Nl(FALSE, 2), Nl(TRUE, 0), At(0, c) >> : c \in ContentKinds}

MCTexts ==
  FirstLines \cup
  {f \o a : f \in FirstLines, a \in OtherLines} \cup
  {f \o a \o b : f \in FirstLines, a \in OtherLines, b \in OtherLines}

=============================================================================
