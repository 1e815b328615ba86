------------------------------ MODULE ReadBack ------------------------------
(***************************************************************************)
(* The reader of what the serializer writes for a scalar: the scalar       *)
(* terminals of the grammar, and the decoding of what they match.          *)
(***************************************************************************)
EXTENDS Serialize

Yaml == INSTANCE YamlGrammar WITH Alphabet <- Chars, OtherCase <- << >>, LineFeed <- "\n"

(***************************************************************************)
(* What may come after a scalar in what is written; at the top, nothing    *)
(* does.                                                                   *)
(***************************************************************************)
Followers == { << >>, << ",", " ", "x" >>, << "]" >>, << "}" >>, << ":", " ", "x" >> }

Automata == UNION {{[sym |-> a.sym, nfa |-> a.nfa] : a \in A} : A \in {Yaml!Automata}}

(* A token of the terminal begins with w and ends with it, whatever follows. *)
IsToken(terminal, w, followers) ==
  LET nfa == (CHOOSE a \in Automata : a.sym = terminal).nfa
  IN  \A f \in followers : Yaml!LongestMatch(nfa, w \o f, 0) = Len(w)

ReadPlain(w) == IsToken("SCALAR", w, {<< >>}) /\ IsToken("FSCALAR", w, Followers)

(* The strings that a double-quoted token is read as, one unit at a time. *)
UnitValue(u) ==
  IF Len(u) = 1 THEN u[1]
  ELSE IF u[2] = "u"
    THEN LET digit(c) == (CHOOSE n \in 1 .. 16 : Scalar!LowerHex[n] = c) - 1
         IN  CharOf(16 * digit(u[5]) + digit(u[6]))
  ELSE (CHOOSE e \in ShortEscapes : e[2] = u[2])[1]

UnitSize(w, p) == IF w[p] # "\\" THEN 1 ELSE IF w[p + 1] = "u" THEN 6 ELSE 2

Decoded(w) ==
  LET from[p \in 2 .. Len(w)] ==
        IF p = Len(w) THEN << >>
        ELSE LET n == UnitSize(w, p)
             IN  << UnitValue(SubSeq(w, p, p + n - 1)) >> \o from[p + n]
  IN  from[2]

(***************************************************************************)
(* A string written plain is one token and all of it, by itself and among  *)
(* the members of a flow collection, that resolves to a string and is not  *)
(* the document-end marker; quoted, the token ends at its own quote, and   *)
(* decodes to it.                                                          *)
(***************************************************************************)
StringReadsBack(text, written) ==
  IF written # << >> /\ written[1] = "\""
    THEN IsToken("DQ", written, Followers) /\ Decoded(written) = text
    ELSE /\ ReadPlain(written)
         /\ written = text
         /\ Scalar!Resolve(written) = "string"
         /\ written # << ".", ".", "." >>

(* A number keeps its spelling and is one token too. *)
NumberReadsBack(text, written) == written = text /\ ReadPlain(written)

=============================================================================
