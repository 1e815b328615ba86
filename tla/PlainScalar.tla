---------------------------- MODULE PlainScalar ----------------------------
(***************************************************************************)
(* How the binder resolves the text of a plain scalar (bind.hpp,           *)
(* plain_null .. resolve_plain), number::is_integer of types.hpp, and the  *)
(* core schema of YAML 1.2 that both are for.                              *)
(*                                                                         *)
(* A text is a nonempty sequence of characters, each a string of length    *)
(* one.  Positions count from 0 as in the code.                            *)
(***************************************************************************)
EXTENDS Integers, Sequences

Size(v)  == Len(v)
At(v, p) == v[p + 1]

Signs  == {"+", "-"}
Octals == {"0", "1", "2", "3", "4", "5", "6", "7"}
Digits == Octals \cup {"8", "9"}
LowerHex == << "0", "1", "2", "3", "4", "5", "6", "7", "8", "9",
               "a", "b", "c", "d", "e", "f" >>
UpperHex == << "0", "1", "2", "3", "4", "5", "6", "7", "8", "9",
               "A", "B", "C", "D", "E", "F" >>

(* bind_ishex *)
HexDigits == {LowerHex[n] : n \in 1 .. 16} \cup {UpperHex[n] : n \in 1 .. 16}

(* for (i = p; i < v.size() && v[i] is in S; ++i), where it stops *)
Run(v, p, S) ==
  CHOOSE q \in p .. Size(v) :
    /\ \A r \in p .. q - 1 : At(v, r) \in S
    /\ q < Size(v) => At(v, q) \notin S

-----------------------------------------------------------------------------
(* Resolution. *)

PlainNull(v) ==
  v \in { << "~" >>, << "n", "u", "l", "l" >>, << "N", "u", "l", "l" >>,
          << "N", "U", "L", "L" >> }

PlainTrue(v) ==
  v \in { << "t", "r", "u", "e" >>, << "T", "r", "u", "e" >>,
          << "T", "R", "U", "E" >> }

PlainFalse(v) ==
  v \in { << "f", "a", "l", "s", "e" >>, << "F", "a", "l", "s", "e" >>,
          << "F", "A", "L", "S", "E" >> }

(* 0x or 0o, and something after it. *)
Prefixed(v, c) == Size(v) > 2 /\ At(v, 0) = "0" /\ At(v, 1) = c

SignSize(v) == IF At(v, 0) \in Signs THEN 1 ELSE 0

PlainInt(v) ==
  IF Prefixed(v, "x") THEN Run(v, 2, HexDigits) = Size(v)
  ELSE IF Prefixed(v, "o") THEN Run(v, 2, Octals) = Size(v)
  ELSE SignSize(v) < Size(v) /\ Run(v, SignSize(v), Digits) = Size(v)

Infinities ==
  { << ".", "i", "n", "f" >>, << ".", "I", "n", "f" >>, << ".", "I", "N", "F" >> }

NotANumbers ==
  { << ".", "n", "a", "n" >>, << ".", "N", "a", "N" >>, << ".", "N", "A", "N" >> }

(* What the scan of plain_float finds: where each part of v ends. *)
WholeEnd(v) == Run(v, SignSize(v), Digits)
HasDot(v)   == WholeEnd(v) < Size(v) /\ At(v, WholeEnd(v)) = "."
FracEnd(v)  == IF HasDot(v) THEN Run(v, WholeEnd(v) + 1, Digits) ELSE WholeEnd(v)
HasDigit(v) == WholeEnd(v) > SignSize(v) \/ FracEnd(v) > WholeEnd(v) + 1
HasExp(v)   == FracEnd(v) < Size(v) /\ At(v, FracEnd(v)) \in {"e", "E"}
ExpFrom(v)  ==
  IF FracEnd(v) + 1 < Size(v) /\ At(v, FracEnd(v) + 1) \in Signs
    THEN FracEnd(v) + 2 ELSE FracEnd(v) + 1

(* Mutant: no digit is asked for. *)
DecimalFloatNoDigit(v) ==
  /\ HasDot(v) \/ HasExp(v)
  /\ IF HasExp(v) THEN ExpFrom(v) < Size(v) /\ Run(v, ExpFrom(v), Digits) = Size(v)
     ELSE FracEnd(v) = Size(v)

DecimalFloat(v) ==
  /\ HasDigit(v)
  /\ HasDot(v) \/ HasExp(v)
  /\ IF HasExp(v) THEN ExpFrom(v) < Size(v) /\ Run(v, ExpFrom(v), Digits) = Size(v)
     ELSE FracEnd(v) = Size(v)

PlainFloat(v) ==
  \/ SubSeq(v, SignSize(v) + 1, Size(v)) \in Infinities
  \/ v \in NotANumbers
  \/ DecimalFloat(v)

Resolve(v) ==
  IF PlainNull(v) THEN "null"
  ELSE IF PlainTrue(v) \/ PlainFalse(v) THEN "boolean"
  ELSE IF PlainInt(v) \/ PlainFloat(v) THEN "number"
  ELSE "string"

(* number::is_integer *)
IsInteger(v) ==
  \/ Prefixed(v, "x") \/ Prefixed(v, "o")
  \/ \A n \in 1 .. Size(v) : v[n] \notin {".", "e", "E"}

-----------------------------------------------------------------------------
(***************************************************************************)
(* The core schema, as the regular expressions of YAML 1.2, section        *)
(* 10.3.2: a text is cut into parts in every way, and each part is a word. *)
(***************************************************************************)
Part(v, a, b) == SubSeq(v, a + 1, b)
AllIn(w, S)   == \A n \in 1 .. Len(w) : w[n] \in S
SomeIn(w, S)  == w # << >> /\ AllIn(w, S)
OptSign(w)    == Len(w) <= 1 /\ AllIn(w, Signs)

(* [-+]? [0-9]+ *)
CoreInt10(v) ==
  \E a \in 0 .. Len(v) : OptSign(Part(v, 0, a)) /\ SomeIn(Part(v, a, Len(v)), Digits)

(* 0o [0-7]+ and 0x [0-9a-fA-F]+ *)
CoreIntBase(v) ==
  /\ Len(v) > 2
  /\ \/ Part(v, 0, 2) = << "0", "o" >> /\ AllIn(Part(v, 2, Len(v)), Octals)
     \/ Part(v, 0, 2) = << "0", "x" >> /\ AllIn(Part(v, 2, Len(v)), HexDigits)

CoreInt(v) == CoreInt10(v) \/ CoreIntBase(v)

(* ( \. [0-9]+ | [0-9]+ ( \. [0-9]* )? ) *)
CoreMantissa(w) ==
  \/ SomeIn(w, Digits)
  \/ \E a \in 1 .. Len(w) :
       /\ w[a] = "."
       /\ AllIn(Part(w, 0, a - 1), Digits) /\ AllIn(Part(w, a, Len(w)), Digits)
       /\ Len(w) > 1

(* ( [eE] [-+]? [0-9]+ )? *)
CoreExponent(w) ==
  \/ w = << >>
  \/ w[1] \in {"e", "E"} /\ CoreInt10(Part(w, 1, Len(w)))

CoreFloat(v) ==
  \/ \E a \in {0, 1} :
       OptSign(Part(v, 0, a)) /\ Part(v, a, Len(v)) \in Infinities
  \/ v \in NotANumbers
  \/ \E a \in {0, 1}, b \in 0 .. Len(v) :
       /\ OptSign(Part(v, 0, a))
       /\ CoreMantissa(Part(v, a, b))
       /\ CoreExponent(Part(v, b, Len(v)))

CoreNumber(v) == CoreInt(v) \/ CoreFloat(v)

=============================================================================
