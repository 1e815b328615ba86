---------------------------- MODULE ToArithmetic ----------------------------
(***************************************************************************)
(* number::to<T> of include/ctyaml/types.hpp for an integral T: the loops  *)
(* of detail::to_arithmetic over the text of a scalar that resolve_plain   *)
(* has made a number.                                                      *)
(*                                                                         *)
(* Integers have widths: LongBits is that of long long and of unsigned     *)
(* long long, IntBits that of int.  T is any integral type of the widths   *)
(* in TargetWidths: the loops are the same for all of them, and the cast   *)
(* to T is made of what they leave.  Unsigned arithmetic wraps.  Signed    *)
(* arithmetic that overflows is undefined: it is no constant expression,   *)
(* and in a build it is left to the machine, which wraps; constant         *)
(* remembers that it has happened.                                         *)
(***************************************************************************)
EXTENDS PlainScalar

CONSTANTS
  Texts,             (* the texts of plain scalars *)
  LongBits, IntBits, (* of long long, of int *)
  TargetWidths       (* of the types to convert to *)

(* The token SCALAR: a dash in front is followed by no other, nor by nothing. *)
IsScalar(t) == t # << >> /\ (t[1] = "-" => Len(t) > 1 /\ t[2] # "-")

ASSUME TextsAssumption == \A t \in Texts : t \in Seq(STRING) /\ IsScalar(t)
ASSUME BitsAssumption ==
  /\ LongBits \in Nat /\ IntBits \in 2 .. LongBits
  /\ \A b \in TargetWidths : b \in 2 .. LongBits

VARIABLES
  text,       (* the spelling, fixed *)
  kind,       (* what resolve_plain made of it *)
  i,          (* the position in it *)
  negative, base,
  mantissa,   (* unsigned long long *)
  expNegative, expValue, exponent10, (* int *)
  value,      (* long long *)
  constant,   (* no signed overflow so far *)
  pc

vars == << text, kind, i, negative, base, mantissa, expNegative, expValue,
           exponent10, value, constant, pc >>

(* 2 to the power of n *)
TwoTo[n \in Nat] == IF n = 0 THEN 1 ELSE 2 * TwoTo[n - 1]

HighBound(bits) == TwoTo[bits - 1] - 1
LowBound(bits)  == - TwoTo[bits - 1]
Signed(bits)    == LowBound(bits) .. HighBound(bits)

(* n taken to that many bits, two's complement. *)
Wrap(n, bits) ==
  LET m == n % TwoTo[bits] IN IF m > HighBound(bits) THEN m - TwoTo[bits] ELSE m

Unsigned(n) == n % TwoTo[LongBits]

(* x becomes n, computed in a signed type of that many bits. *)
Computed(n, bits, x) ==
  /\ x = Wrap(n, bits)
  /\ constant' = (constant /\ n \in Signed(bits))

(* static_cast<T> *)
Cast(n, T) == IF T.signed THEN Wrap(n, T.bits) ELSE n % TwoTo[T.bits]

HexVal(c) == CHOOSE n \in 0 .. 15 : LowerHex[n + 1] = c \/ UpperHex[n + 1] = c

Here     == At(text, i)
More     == i < Size(text)
MoreIn(S) == More /\ Here \in S

Init ==
  /\ text \in Texts
  /\ kind = "unresolved"
  /\ i = 0
  /\ negative = FALSE /\ base = 10
  /\ mantissa = 0
  /\ expNegative = FALSE /\ expValue = 0 /\ exponent10 = 0
  /\ value = 0
  /\ constant = TRUE
  /\ pc = "resolve"

-----------------------------------------------------------------------------
(* resolve_plain::pick; only a number has to<T>. *)
Pick ==
  /\ pc = "resolve"
  /\ kind' = Resolve(text)
  /\ pc' = IF kind' = "number" THEN "sign" ELSE "other"
  /\ UNCHANGED << text, i, negative, base, mantissa, expNegative, expValue,
                  exponent10, value, constant >>

Sign ==
  /\ pc = "sign"
  /\ negative' = (At(text, 0) = "-")
  /\ i' = SignSize(text)
  /\ pc' = "prefix"
  /\ UNCHANGED << text, kind, base, mantissa, expNegative, expValue,
                  exponent10, value, constant >>

(* .inf and .nan: a dot that no digit follows. *)
AtSpecial == MoreIn({"."}) /\ i + 1 < Size(text) /\ At(text, i + 1) \notin Digits

Special ==
  /\ pc = "prefix"
  /\ AtSpecial
  /\ pc' = "done"
  /\ UNCHANGED << text, kind, i, negative, base, mantissa, expNegative,
                  expValue, exponent10, value, constant >>

AtBase == MoreIn({"0"}) /\ i + 1 < Size(text) /\ At(text, i + 1) \in {"x", "o"}

Based ==
  /\ pc = "prefix"
  /\ ~ AtSpecial
  /\ AtBase
  /\ base' = IF At(text, i + 1) = "x" THEN 16 ELSE 8
  /\ i' = i + 2
  /\ pc' = "based"
  /\ UNCHANGED << text, kind, negative, mantissa, expNegative, expValue,
                  exponent10, value, constant >>

Decimal ==
  /\ pc = "prefix"
  /\ ~ AtSpecial
  /\ ~ AtBase
  /\ pc' = "whole"
  /\ UNCHANGED << text, kind, i, negative, base, mantissa, expNegative,
                  expValue, exponent10, value, constant >>

(* One more digit of the mantissa, which wraps. *)
Shifted == Unsigned(mantissa * base + HexVal(Here))

BasedDigit ==
  /\ pc = "based"
  /\ More
  /\ mantissa' = Shifted
  /\ i' = i + 1
  /\ UNCHANGED << text, kind, negative, base, expNegative, expValue,
                  exponent10, value, constant, pc >>

(***************************************************************************)
(* The sign is not looked at: only an unsigned spelling has a base.  The   *)
(* mantissa is cast to T at once, which comes to the same as by way of     *)
(* long long, no narrower than T.                                          *)
(***************************************************************************)
BasedEnd ==
  /\ pc = "based"
  /\ ~ More
  /\ value' = Wrap(mantissa, LongBits)
  /\ pc' = "done"
  /\ UNCHANGED << text, kind, i, negative, base, mantissa, expNegative,
                  expValue, exponent10, constant >>

WholeDigit ==
  /\ pc = "whole"
  /\ MoreIn(Digits)
  /\ mantissa' = Shifted
  /\ i' = i + 1
  /\ UNCHANGED << text, kind, negative, base, expNegative, expValue,
                  exponent10, value, constant, pc >>

WholeDone ==
  /\ pc = "whole"
  /\ ~ MoreIn(Digits)
  /\ IF MoreIn({"."}) THEN i' = i + 1 /\ pc' = "fraction"
                      ELSE i' = i /\ pc' = "exponent"
  /\ UNCHANGED << text, kind, negative, base, mantissa, expNegative,
                  expValue, exponent10, value, constant >>

(* Mutant: the fraction does not shift the exponent. *)
FractionDigitUnshifted ==
  /\ pc = "fraction"
  /\ MoreIn(Digits)
  /\ mantissa' = Shifted
  /\ i' = i + 1
  /\ UNCHANGED << text, kind, negative, base, expNegative, expValue,
                  exponent10, value, constant, pc >>

FractionDigit ==
  /\ pc = "fraction"
  /\ MoreIn(Digits)
  /\ mantissa' = Shifted
  /\ Computed(exponent10 - 1, IntBits, exponent10')
  /\ i' = i + 1
  /\ UNCHANGED << text, kind, negative, base, expNegative, expValue, value, pc >>

FractionDone ==
  /\ pc = "fraction"
  /\ ~ MoreIn(Digits)
  /\ pc' = "exponent"
  /\ UNCHANGED << text, kind, i, negative, base, mantissa, expNegative,
                  expValue, exponent10, value, constant >>

(* Mutant: the sign of the exponent is not skipped. *)
ExponentSignStays ==
  /\ pc = "exponent"
  /\ MoreIn({"e", "E"})
  /\ expNegative' = (At(text, i + 1) = "-")
  /\ i' = i + 1
  /\ pc' = "digits"
  /\ UNCHANGED << text, kind, negative, base, mantissa, expValue, exponent10,
                  value, constant >>

(* The character after e is read without a look at the size. *)
ExponentSign ==
  /\ pc = "exponent"
  /\ MoreIn({"e", "E"})
  /\ expNegative' = (At(text, i + 1) = "-")
  /\ i' = IF At(text, i + 1) \in Signs THEN i + 2 ELSE i + 1
  /\ pc' = "digits"
  /\ UNCHANGED << text, kind, negative, base, mantissa, expValue, exponent10,
                  value, constant >>

ExponentDigit ==
  /\ pc = "digits"
  /\ More
  /\ Computed(expValue * 10 + HexVal(Here), IntBits, expValue')
  /\ i' = i + 1
  /\ UNCHANGED << text, kind, negative, base, mantissa, expNegative,
                  exponent10, value, pc >>

(* exponent10 is complete, and the mantissa becomes signed. *)
ToSigned ==
  /\ \/ pc = "exponent" /\ ~ MoreIn({"e", "E"}) /\ UNCHANGED << exponent10, constant >>
     \/ /\ pc = "digits" /\ ~ More
        /\ Computed(exponent10 + (IF expNegative THEN - expValue ELSE expValue),
                    IntBits, exponent10')
  /\ value' = Wrap(mantissa, LongBits)
  /\ pc' = "scale"
  /\ UNCHANGED << text, kind, i, negative, base, mantissa, expNegative, expValue >>

ScaleUp ==
  /\ pc = "scale"
  /\ exponent10 > 0
  /\ Computed(value * 10, LongBits, value')
  /\ exponent10' = exponent10 - 1
  /\ UNCHANGED << text, kind, i, negative, base, mantissa, expNegative,
                  expValue, pc >>

(* Division truncates towards zero. *)
Tenth(n) == IF n < 0 THEN - ((- n) \div 10) ELSE n \div 10

(* Mutant: the loop does not count. *)
ScaleDownForever ==
  /\ pc = "scale"
  /\ exponent10 < 0
  /\ value' = Tenth(value)
  /\ UNCHANGED << text, kind, i, negative, base, mantissa, expNegative,
                  expValue, exponent10, constant, pc >>

ScaleDown ==
  /\ pc = "scale"
  /\ exponent10 < 0
  /\ value' = Tenth(value)
  /\ exponent10' = exponent10 + 1
  /\ UNCHANGED << text, kind, i, negative, base, mantissa, expNegative,
                  expValue, constant, pc >>

(* The sign; the cast is Cast. *)
Finish ==
  /\ pc = "scale"
  /\ exponent10 = 0
  /\ LET n == IF negative THEN - value ELSE value
     IN  /\ value' = Wrap(n, LongBits)
         /\ constant' = (constant /\ n \in Signed(LongBits))
  /\ pc' = "done"
  /\ UNCHANGED << text, kind, i, negative, base, mantissa, expNegative,
                  expValue, exponent10 >>

Terminated == pc \in {"done", "other"} /\ UNCHANGED vars

Next ==
  \/ Pick \/ Sign \/ Special
  \/ Based \/ BasedDigit \/ BasedEnd
  \/ Decimal \/ WholeDigit \/ WholeDone \/ FractionDigit \/ FractionDone
  \/ ExponentSign \/ ExponentDigit
  \/ ToSigned \/ ScaleUp \/ ScaleDown \/ Finish
  \/ Terminated

Spec == Init /\ [][Next]_vars

(* An evaluation that has begun goes on. *)
FairSpec == Spec /\ WF_vars(Next)

-----------------------------------------------------------------------------
(***************************************************************************)
(* Properties.                                                             *)
(***************************************************************************)

(***************************************************************************)
(* A plain scalar is a number exactly when the core schema says so, and    *)
(* is_integer tells the integers of the schema from its floats.            *)
(***************************************************************************)
KindIsCoreSchema ==
  /\ kind = "number" => CoreNumber(text) /\ (IsInteger(text) <=> CoreInt(text))
  /\ kind = "string" => ~ CoreNumber(text)

(***************************************************************************)
(* to_arithmetic trusts plain_int and plain_float: it reads the character  *)
(* after an e, and takes what is left for digits, without a check.  The    *)
(* two scans agree, so both are always there.                              *)
(***************************************************************************)
ReadsInText ==
  /\ pc = "exponent" /\ MoreIn({"e", "E"}) => i + 1 < Size(text)
  /\ pc = "digits" /\ More => Here \in Digits
  /\ pc = "based" /\ More => Here \in HexDigits
  /\ pc = "scale" => i = Size(text)

(***************************************************************************)
(* The number the spelling denotes, read off the text without its loops:   *)
(* its digits without the dot, and the power of ten they are scaled by.    *)
(***************************************************************************)
TenTo[n \in Nat] == IF n = 0 THEN 1 ELSE 10 * TenTo[n - 1]

(* The number that the characters of w which are digits, those in S, spell. *)
DigitsValue(w, S, b) ==
  LET upTo[n \in 0 .. Len(w)] ==
        IF n = 0 THEN 0
        ELSE IF w[n] \in S THEN upTo[n - 1] * b + HexVal(w[n])
        ELSE upTo[n - 1]
  IN  upTo[Len(w)]

ExpAt(v)  == Run(v, 0, Digits \cup Signs \cup {"."})
DotAt(v)  == Run(v, 0, Digits \cup Signs)
Whole(v)  == DigitsValue(Part(v, 0, ExpAt(v)), Digits, 10)
Places(v) == IF DotAt(v) < ExpAt(v) THEN ExpAt(v) - DotAt(v) - 1 ELSE 0

Exponent(v) == DigitsValue(Part(v, ExpAt(v) + 1, Size(v)), Digits, 10)
Power(v)    ==
  IF ExpAt(v) + 1 < Size(v) /\ At(v, ExpAt(v) + 1) = "-" THEN - Exponent(v) ELSE Exponent(v)

(***************************************************************************)
(* n * 10^e, its fraction truncated, for the digits n of v: no type holds  *)
(* a number with as many zeros as it has bits, and nothing is left of one  *)
(* that loses more digits than v has characters.                           *)
(***************************************************************************)
ScaledBy(v, n, e) ==
  IF n = 0 \/ - e > Size(v) THEN 0
  ELSE IF e >= LongBits THEN TwoTo[LongBits]
  ELSE IF e >= 0 THEN n * TenTo[e]
  ELSE n \div TenTo[- e]

BasedValue(v) ==
  DigitsValue(Part(v, 2, Size(v)), HexDigits, IF v[2] = "x" THEN 16 ELSE 8)

(* The integer a cast of the number gives, without its sign, and with it. *)
Magnitude(v) ==
  IF CoreIntBase(v) THEN BasedValue(v) ELSE ScaledBy(v, Whole(v), Power(v) - Places(v))

Denoted(v) == IF v[1] = "-" THEN - Magnitude(v) ELSE Magnitude(v)

IsFinite(v) ==
  \A a \in {0, 1} : Part(v, a, Size(v)) \notin Infinities \cup NotANumbers

Targets     == [bits : TargetWidths, signed : BOOLEAN]
ValuesOf(T) == IF T.signed THEN Signed(T.bits) ELSE 0 .. TwoTo[T.bits] - 1

Converts(T) == constant /\ Cast(value, T) = Denoted(text)

(* T can hold the number. *)
Fits(v, T) == IsFinite(v) /\ Denoted(v) \in ValuesOf(T)

(***************************************************************************)
(* The spelling is within what the types of the loops hold: the mantissa   *)
(* and what becomes of it in long long, and in int the exponent without    *)
(* its sign, the places after the dot, below zero, and their sum.          *)
(***************************************************************************)
Holds(v, T) ==
  \/ CoreIntBase(v)
  \/ /\ {Whole(v), Magnitude(v)} \subseteq Signed(LongBits)
     /\ {Exponent(v), - Places(v), Power(v) - Places(v)} \subseteq Signed(IntBits)
  \/ CoreInt10(v) /\ ~ T.signed

(***************************************************************************)
(* A number converts to the integer it denotes, its fraction truncated,    *)
(* when T can hold that and long long can hold all of its digits; and each *)
(* integer of an unsigned T does, although it passes through long long.    *)
(***************************************************************************)
ConvertsWithinWidth ==
  pc = "done" => \A T \in Targets : Fits(text, T) /\ Holds(text, T) => Converts(T)

(***************************************************************************)
(* The README says that to<T>() converts, with integral conversions        *)
(* truncating fractions like a cast would: whatever the digits, when T can *)
(* hold the integer that is left.                                          *)
(***************************************************************************)
FractionsTruncate ==
  pc = "done" /\ DotAt(text) < Size(text) /\ Power(text) = 0
    => \A T \in Targets : Fits(text, T) => Converts(T)

(***************************************************************************)
(* The same for an integer: every integer of T converts from its decimal   *)
(* spelling, as a constant expression.                                     *)
(***************************************************************************)
IntegersConvert ==
  pc = "done" /\ CoreInt10(text) => \A T \in Targets : Fits(text, T) => Converts(T)

(* Every conversion comes to an end. *)
AlwaysConverts == <>(pc \in {"done", "other"})

=============================================================================
