------------------------------ MODULE MCViews -------------------------------
(***************************************************************************)
(* Documents to look into and to serialize: collections of up to MaxItems  *)
(* of a few scalars, among them null and the string that is spelled as it, *)
(* and of collections; mappings with members whose keys differ, as the     *)
(* binder sees to.  And, at the top, the strings of up to MaxString        *)
(* characters, of one of each kind that plain_safe, the escapes or the     *)
(* terminals tell apart, and each character of ASCII at the start, inside  *)
(* and at the end of one, and the spellings of numbers.                    *)
(***************************************************************************)
EXTENDS Views, ReadBack, FiniteSets

CONSTANTS MaxItems, MaxString

UpTo(n, S) == UNION {[1 .. k -> S] : k \in 0 .. n}

Kinds == {"x", "~", "1", ".", "e", "-", " ", ":", "#", ",", "]", "\"", "'", "\\", "\n", "esc", "del"}

Around == {<< c >> : c \in Chars} \cup {<< c, "x" >> : c \in Chars}
            \cup {<< "x", c >> : c \in Chars} \cup {<< "x", " ", c >> : c \in Chars}

Words ==
  { << "n", "u", "l", "l" >>, << "T", "r", "u", "e" >>, << "f", "a", "l", "s", "e" >>,
    << ".", "i", "n", "f" >>, << "-", ".", "I", "n", "f" >>, << ".", "N", "a", "N" >>,
    << "0", "x", "f" >>, << "0", "o", "7" >>, << "0", "x", "g" >>,
    << "+", "1", "e", "-", "1" >> }

Strings == UpTo(MaxString, Kinds) \cup Around \cup Words

Spellings == {w \in Strings \ {<< >>} : Scalar!Resolve(w) = "number"}

Scalars ==
  { Text(<< "n", "u", "l", "l" >>), Text(<< ",", "esc" >>), Number(<< "1" >>), Boolean(TRUE), Boolean(FALSE), Null }

Keys == {<< "a" >>, << ":" >>}

Collections(ds) ==
  {[kind |-> "sequence", items |-> is] : is \in UpTo(MaxItems, ds)}
    \cup {[kind |-> "mapping", members |-> ms] :
            ms \in {ms \in UpTo(MaxItems, [key : Keys, value : ds]) :
                      \A n, m \in DOMAIN ms : n # m => ms[n].key # ms[m].key}}

Inner == Collections({Number(<< "1" >>), Null})

(* Inner is among the collections of scalars. *)
AllDocs ==
  Scalars \cup Collections(Scalars) \cup Collections(Inner)
    \cup {Text(w) : w \in Strings} \cup {Number(w) : w \in Spellings}

(* The same set; TLC looks members up faster in a set it has counted. *)
MCDocs == CHOOSE S \in {AllDocs} : Cardinality(S) > 0

MCAsked == Keys \cup {<< >>}

-----------------------------------------------------------------------------
(***************************************************************************)
(* A scalar is read back as the value it was written from.                 *)
(***************************************************************************)
ScalarsReadBack ==
  pc = "idle" =>
    /\ target.kind = "string" => StringReadsBack(target.text, Content(target))
    /\ target.kind = "number" => NumberReadsBack(target.text, Content(target))

=============================================================================
