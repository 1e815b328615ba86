----------------------------- MODULE Serialize ------------------------------
(***************************************************************************)
(* serialize.hpp: a document value is rendered to flow-style YAML by two   *)
(* recursions over it, one that measures and one that writes.              *)
(*                                                                         *)
(* Documents are the types of Lines, and the scalars: a string or a number *)
(* carries its text.                                                       *)
(***************************************************************************)
EXTENDS Characters

LOCAL INSTANCE SequencesExt

CONSTANT MaxNesting (* how deep collections are nested in one another *)

ASSUME NestingAssumption == MaxNesting \in Nat

Scalar == INSTANCE PlainScalar

Text(w)      == [kind |-> "string", text |-> w]
Number(w)    == [kind |-> "number", text |-> w]
Boolean(b)   == [kind |-> "boolean", value |-> b]

AnyScalar ==
  [kind : {"string", "number"}, text : Seq(Chars)]
    \cup [kind : {"boolean"}, value : BOOLEAN] \cup [kind : {"null"}]

(* The documents with collections nested up to n deep. *)
Nested[n \in Nat] ==
  IF n = 0 THEN AnyScalar
  ELSE LET inner == Nested[n - 1]
       IN  AnyScalar \cup [kind : {"sequence"}, items : Seq(inner)]
             \cup [kind : {"mapping"}, members : Seq([key : Seq(Chars), value : inner])]

-----------------------------------------------------------------------------
(* plain_safe *)

FirstForbidden ==
  {",", "[", "]", "{", "}", "#", "&", "*", "!", "|", ">", "'", "\"", "%", "@", "grave",
   "-", "?", ":"}

(* Flow indicators, and those whose meaning depends on a space beside them. *)
Forbidden == {",", "[", "]", "{", "}", ":", "#"}

DocumentEnd == << ".", ".", "." >>

(* Mutant: a decimal fraction is let through. *)
ReadsAsStringNoFloat(w) ==
  /\ ~ Scalar!PlainNull(w) /\ ~ Scalar!PlainTrue(w) /\ ~ Scalar!PlainFalse(w)
  /\ ~ Scalar!PlainInt(w)
  /\ w # DocumentEnd

(* The reader would not resolve it into something else. *)
ReadsAsString(w) == Scalar!Resolve(w) = "string" /\ w # DocumentEnd

(* Mutant: only the first character is looked at. *)
TrimmedLeft(w) == w[1] # " "

Trimmed(w) == w[1] # " " /\ w[Len(w)] # " "

PlainSafe(w) ==
  /\ w # << >>
  /\ ReadsAsString(w)
  /\ Trimmed(w)
  /\ w[1] \notin FirstForbidden
  /\ \A n \in DOMAIN w : ~ IsControl(w[n]) /\ w[n] # "del" /\ w[n] \notin Forbidden

-----------------------------------------------------------------------------
(* Escapes. *)

NeedsEscape(c) == c \in {"\"", "\\"} \/ IsControl(c)

(* The letters of the escapes of two characters. *)
ShortEscapes ==
  { << "\"", "\"" >>, << "\\", "\\" >>, << "nul", "0" >>, << "bel", "a" >>,
    << "bs", "b" >>, << "\t", "t" >>, << "\n", "n" >>, << "vt", "v" >>,
    << "\f", "f" >>, << "\r", "r" >>, << "esc", "e" >> }

ShortEscaped == {e[1] : e \in ShortEscapes}

EscapedSize(c) ==
  IF ~ NeedsEscape(c) THEN 1 ELSE IF c \in ShortEscaped THEN 2 ELSE 6

Hex(n) == Scalar!LowerHex[n + 1]

Escaped(c) ==
  IF ~ NeedsEscape(c) THEN << c >>
  ELSE IF c \in ShortEscaped
    THEN << "\\", (CHOOSE e \in ShortEscapes : e[1] = c)[2] >>
    ELSE << "\\", "u", "0", "0", Hex(Code(c) \div 16), Hex(Code(c) % 16) >>

-----------------------------------------------------------------------------
(* The size pass. *)

Total(ns) ==
  LET sum[k \in 0 .. Len(ns)] == IF k = 0 THEN 0 ELSE sum[k - 1] + ns[k]
  IN  sum[Len(ns)]

(* Mutant: one for each element. *)
SeparatorsEach(n) == 2 * n

(* The ", " between n elements. *)
Separators(n) == IF n > 1 THEN (n - 1) * 2 ELSE 0

SizeOfString(w) ==
  IF PlainSafe(w) THEN Len(w) ELSE 2 + Total([n \in DOMAIN w |-> EscapedSize(w[n])])

SizeOfScalar(d) ==
  CASE d.kind = "string"  -> SizeOfString(d.text)
    [] d.kind = "number"  -> Len(d.text)
    [] d.kind = "boolean" -> IF d.value THEN 4 ELSE 5
    [] d.kind = "null"    -> 4

(* Given the sizes of its elements. *)
SizeOf(d, sizes) ==
  CASE d.kind = "sequence" ->
         2 + Total([n \in DOMAIN d.items |-> sizes[d.items[n]]]) + Separators(Len(d.items))
    [] d.kind = "mapping" ->
         2 + Total([n \in DOMAIN d.members |->
                      SizeOfString(d.members[n].key) + 2 + sizes[d.members[n].value]])
           + Separators(Len(d.members))
    [] OTHER -> SizeOfScalar(d)

SerializedSize ==
  LET sizes[n \in Nat] ==
        IF n = 0 THEN [d \in AnyScalar |-> SizeOfScalar(d)]
        ELSE LET inner == sizes[n - 1] IN [d \in Nested[n] |-> SizeOf(d, inner)]
  IN  sizes

(* The write pass. *)

Joined(ws) ==
  FlattenSeq(
    [n \in DOMAIN ws |-> IF n > 1 THEN << ",", " " >> \o ws[n] ELSE ws[n]])

SpelledString(w) ==
  IF PlainSafe(w) THEN w
  ELSE << "\"" >> \o FlattenSeq([n \in DOMAIN w |-> Escaped(w[n])]) \o << "\"" >>

SpelledScalar(d) ==
  CASE d.kind = "string"  -> SpelledString(d.text)
    [] d.kind = "number"  -> d.text
    [] d.kind = "boolean" ->
         IF d.value THEN << "t", "r", "u", "e" >> ELSE << "f", "a", "l", "s", "e" >>
    [] d.kind = "null"    -> << "n", "u", "l", "l" >>

(* Given what is written of its elements. *)
Spelled(d, spelled) ==
  CASE d.kind = "sequence" ->
         << "[" >> \o Joined([n \in DOMAIN d.items |-> spelled[d.items[n]]]) \o << "]" >>
    [] d.kind = "mapping" ->
         << "{" >> \o Joined([n \in DOMAIN d.members |->
                                SpelledString(d.members[n].key) \o << ":", " " >>
                                  \o spelled[d.members[n].value]]) \o << "}" >>
    [] OTHER -> SpelledScalar(d)

Serialized ==
  LET spelled[n \in Nat] ==
        IF n = 0 THEN [d \in AnyScalar |-> SpelledScalar(d)]
        ELSE LET inner == spelled[n - 1] IN [d \in Nested[n] |-> Spelled(d, inner)]
  IN  spelled

(* serialized_storage: the length of the array, and what compute fills it with. *)
Length(d)  == SerializedSize[MaxNesting][d]
Content(d) == Serialized[MaxNesting][d]

=============================================================================
