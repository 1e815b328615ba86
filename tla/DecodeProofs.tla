---------------------------- MODULE DecodeProofs ----------------------------
(***************************************************************************)
(* Theorems about the decoders of the two quoted scalars, for every token  *)
(* the lexer may deliver.  decode_dq reads inside the token, writes inside *)
(* the buffer, refuses what it should, writes the UTF-8 of what the token  *)
(* means, and ends; decode_sq stays on the units of its token and writes   *)
(* the first character of each.                                            *)
(***************************************************************************)
EXTENDS DecodeDQ, DecodeSQ, Induction, TLAPS

-----------------------------------------------------------------------------
(* decode_dq *)

(***************************************************************************)
(* What TypeOK, ReadsInside and BufferFits rest on: the loop stands where  *)
(* a unit of the token starts, and so does the next digit of an escape,    *)
(* since a hex digit is a unit by itself.                                  *)
(***************************************************************************)
AtUnits ==
  /\ i \in token.units
  /\ pc = "hex" =>
       /\ digits \in {2, 4, 8}
       /\ i + 2 + digits <= end
       /\ k \in token.units
       /\ i + 2 <= k /\ k <= i + 2 + digits

IInv == TypeOK /\ AtUnits /\ 2 * Len(out) <= 3 * (i - 1)

-----------------------------------------------------------------------------
(* Tokens. *)

LEMMA TokenUnits ==
  ASSUME NEW t, IsToken(t), NEW p \in t.units
  PROVE  /\ Size(t) \in Nat /\ Size(t) >= 2
         /\ p \in Nat /\ 1 <= p /\ p <= Size(t) - 1
         /\ At(t, p) \in Byte
         /\ p < Size(t) - 1 /\ At(t, p) = Backslash =>
              p + 1 < Size(t) - 1 /\ p + 1 \notin t.units /\ p + 2 \in t.units
         /\ p < Size(t) - 1 /\ At(t, p) # Backslash => p + 1 \in t.units
<1>1. Size(t) \in Nat /\ Size(t) >= 2
  BY DEF IsToken, Size
<1>2. p \in Nat /\ 1 <= p /\ p <= Size(t) - 1
  BY <1>1 DEF IsToken
<1>3. At(t, p) \in Byte
  BY <1>1, <1>2 DEF IsToken, At, Size
<1> QED
  BY <1>1, <1>2, <1>3 DEF IsToken, UnitAt

-----------------------------------------------------------------------------
(* Bytes. *)

LEMMA Low6Byte ==
  ASSUME NEW n \in Nat
  PROVE  Low6(n) \in Byte
BY DEF Low6, Byte

(* A code point is written in at most four bytes, three up to U+FFFF. *)
LEMMA Utf8Bytes ==
  ASSUME NEW n \in Nat, n <= MaxCodePoint
  PROVE  /\ Utf8(n) \in Seq(Byte)
         /\ Len(Utf8(n)) <= 4
         /\ n <= 65535 => Len(Utf8(n)) <= 3
<1>1. Low6(n) \in Byte /\ Low6(n \div 64) \in Byte /\ Low6(n \div 4096) \in Byte
  <2>1. n \div 64 \in Nat /\ n \div 4096 \in Nat
    OBVIOUS
  <2> QED BY <2>1, Low6Byte
<1>2. CASE n < 128
  <2>1. Utf8(n) = << n >>
    BY <1>2 DEF Utf8
  <2>2. n \in Byte
    BY <1>2 DEF Byte
  <2> QED BY <2>1, <2>2
<1>3. CASE 128 <= n /\ n <= 2047
  <2>1. Utf8(n) = << 192 + (n \div 64), Low6(n) >>
    BY <1>3 DEF Utf8
  <2>2. 192 + (n \div 64) \in Byte
    BY <1>3 DEF Byte
  <2> QED BY <1>1, <2>1, <2>2
<1>4. CASE 2048 <= n /\ n <= 65535
  <2>1. Utf8(n) = << 224 + (n \div 4096), Low6(n \div 64), Low6(n) >>
    BY <1>4, SMTT(30) DEF Utf8
  <2>2. 224 + (n \div 4096) \in Byte
    BY <1>4 DEF Byte
  <2> QED BY <1>1, <2>1, <2>2
<1>5. CASE n > 65535
  <2>1. Utf8(n) = << 240 + (n \div 262144), Low6(n \div 4096),
                     Low6(n \div 64), Low6(n) >>
    BY <1>5 DEF Utf8
  <2>2. 240 + (n \div 262144) \in Byte
    BY <1>5 DEF Byte, MaxCodePoint
  <2> QED BY <1>1, <1>5, <2>1, <2>2
<1> QED BY <1>2, <1>3, <1>4, <1>5, SMTT(30)

LEMMA EscapeBytes == \A e \in Escapes : e[2] \in Byte
BY DEF Escapes, Byte

LEMMA NamedPoints == \A e \in Named : e[2] \in Nat /\ e[2] <= 65535
BY DEF Named

LEMMA SpelledDigits == \A e \in Spelled : e[2] \in {2, 4, 8}
BY DEF Spelled

LEMMA HexDigitValue ==
  ASSUME NEW c \in Byte, IsHex(c), NEW n \in Nat
  PROVE  c # Backslash /\ Shift(n, c) \in Nat
BY DEF IsHex, HexVal, Shift, Backslash, Byte

-----------------------------------------------------------------------------
(* Writing bs, m characters further on, where another unit starts. *)
LEMMA PutKeeps ==
  ASSUME IInv, NEW bs \in Seq(Byte), NEW p \in token.units,
         2 * Len(bs) <= 3 * (p - i), Put(bs, p)
  PROVE  IInv'
<1>1. i \in Nat /\ p \in Nat
  BY TokenUnits DEF IInv, TypeOK, AtUnits
<1>2. out' \in Seq(Byte) /\ Len(out') = Len(out) + Len(bs)
  BY DEF Put, IInv, TypeOK
<1>3. Len(out) \in Nat /\ Len(bs) \in Nat
  BY DEF IInv, TypeOK
<1>4. 2 * Len(out') <= 3 * (i' - 1)
  BY <1>1, <1>2, <1>3 DEF Put, IInv
<1>5. TypeOK'
  BY <1>1, <1>2 DEF Put, IInv, TypeOK
<1>6. AtUnits'
  BY DEF Put, IInv, TypeOK, AtUnits
<1> QED BY <1>4, <1>5, <1>6 DEF IInv

LEMMA FailKeeps ==
  ASSUME IInv, Fail
  PROVE  IInv'
BY DEF Fail, IInv, TypeOK, AtUnits, end

LEMMA InitIInv == Init => IInv
<1> SUFFICES ASSUME Init PROVE IInv
  OBVIOUS
<1>1. IsToken(token)
  BY TokensAssumption DEF Init
<1>2. out \in Seq(Byte) /\ Len(out) = 0
  BY DEF Init
<1>3. 1 \in token.units
  BY <1>1 DEF IsToken
<1> QED BY <1>1, <1>2, <1>3 DEF Init, IInv, TypeOK, AtUnits

LEMMA NextIInv == IInv /\ [Next]_vars => IInv'
<1> SUFFICES ASSUME IInv, [Next]_vars PROVE IInv'
  OBVIOUS
<1> DEFINE HereFacts ==
  /\ end \in Nat /\ i \in Nat /\ 1 <= i /\ i <= end
  /\ raw(i) \in Byte
  /\ i < end /\ raw(i) = Backslash => i + 1 < end /\ i + 2 \in token.units
  /\ i < end /\ raw(i) # Backslash => i + 1 \in token.units
<1>0. HereFacts
  BY TokenUnits DEF IInv, TypeOK, AtUnits, end, raw
<1>1. CASE UNCHANGED vars
  BY <1>1 DEF vars, IInv, TypeOK, AtUnits, end
<1>2. CASE Finish
  BY <1>2 DEF Finish, IInv, TypeOK, AtUnits, end
<1>3. CASE PlainChar
  <2>1. << raw(i) >> \in Seq(Byte) /\ Len(<< raw(i) >>) = 1
    BY <1>0
  <2>2. i + 1 \in token.units
    BY <1>0, <1>3 DEF PlainChar
  <2>3. 2 * Len(<< raw(i) >>) <= 3 * ((i + 1) - i)
    BY <1>0, <2>1
  <2> QED BY <1>3, <2>1, <2>2, <2>3, PutKeeps DEF PlainChar
<1>4. CASE SimpleEscape
  <2>1. PICK e \in Escapes : Put(<< e[2] >>, i + 2)
    BY <1>4 DEF SimpleEscape
  <2>2. << e[2] >> \in Seq(Byte) /\ Len(<< e[2] >>) = 1
    BY EscapeBytes
  <2>3. i + 2 \in token.units
    BY <1>0, <1>4 DEF SimpleEscape, AtEscape
  <2>4. 2 * Len(<< e[2] >>) <= 3 * ((i + 2) - i)
    BY <1>0, <2>2
  <2> QED BY <2>1, <2>2, <2>3, <2>4, PutKeeps
<1>5. CASE NamedEscape
  <2>1. PICK e \in Named : Put(Utf8(e[2]), i + 2)
    BY <1>5 DEF NamedEscape
  <2>2. e[2] \in Nat /\ e[2] <= 65535 /\ e[2] <= MaxCodePoint
    BY NamedPoints DEF MaxCodePoint
  <2>3. Utf8(e[2]) \in Seq(Byte) /\ Len(Utf8(e[2])) <= 3 /\ Len(Utf8(e[2])) \in Nat
    BY <2>2, Utf8Bytes
  <2>4. i + 2 \in token.units
    BY <1>0, <1>5 DEF NamedEscape, AtEscape
  <2>5. 2 * Len(Utf8(e[2])) <= 3 * ((i + 2) - i)
    BY <1>0, <2>3
  <2> QED BY <2>1, <2>3, <2>4, <2>5, PutKeeps
<1>6. CASE UnknownEscape
  BY <1>6, FailKeeps DEF UnknownEscape
<1>7. CASE TruncatedEscape
  BY <1>7, FailKeeps DEF TruncatedEscape
<1>8. CASE HexEscape
  <2>1. i + 2 \in token.units
    BY <1>0, <1>8 DEF HexEscape, AtEscape
  <2>2. digits' \in {2, 4, 8} /\ i + 2 + digits' <= end
    BY <1>8, SpelledDigits DEF HexEscape
  <2> QED
    BY <1>0, <1>8, <2>1, <2>2 DEF HexEscape, IInv, TypeOK, AtUnits, end
<1>9. CASE HexDigit
  <2>1. /\ k \in token.units /\ k \in Nat /\ k < end
        /\ digits \in {2, 4, 8} /\ i + 2 + digits <= end
        /\ i + 2 <= k /\ k < i + 2 + digits
    BY <1>0, <1>9, TokenUnits DEF HexDigit, IInv, TypeOK, AtUnits
  <2>2. raw(k) \in Byte
    BY <2>1, TokenUnits DEF raw, IInv, TypeOK
  <2>3. raw(k) # Backslash /\ Shift(cp, raw(k)) \in Nat
    BY <1>9, <2>2, HexDigitValue DEF HexDigit, IInv, TypeOK
  <2>4. k + 1 \in token.units
    BY <2>1, <2>3, TokenUnits DEF raw, end, IInv, TypeOK
  <2> QED
    BY <1>0, <1>9, <2>1, <2>3, <2>4 DEF HexDigit, IInv, TypeOK, AtUnits, end
<1>10. CASE NotHexDigit
  BY <1>10, FailKeeps DEF NotHexDigit
<1>11. CASE PutCodePoint
  <2>1. digits \in {2, 4, 8} /\ i + 2 + digits \in token.units
    BY <1>11 DEF PutCodePoint, IInv, AtUnits
  <2>2. cp \in Nat /\ cp <= MaxCodePoint
    BY <1>11 DEF PutCodePoint, Refused, MaxCodePoint, IInv, TypeOK
  <2>3. Utf8(cp) \in Seq(Byte) /\ Len(Utf8(cp)) <= 4 /\ Len(Utf8(cp)) \in Nat
    BY <2>2, Utf8Bytes
  <2>4. 2 * Len(Utf8(cp)) <= 3 * ((i + 2 + digits) - i)
    BY <1>0, <2>1, <2>3
  <2> QED BY <1>11, <2>1, <2>3, <2>4, PutKeeps DEF PutCodePoint
<1>12. CASE RefuseCodePoint
  BY <1>12, FailKeeps DEF RefuseCodePoint
<1>13. CASE Terminated
  BY <1>1, <1>13 DEF Terminated
<1> QED
  BY <1>1, <1>2, <1>3, <1>4, <1>5, <1>6, <1>7, <1>8, <1>9, <1>10, <1>11,
     <1>12, <1>13 DEF Next

LEMMA Inductive == Spec => []IInv
BY InitIInv, NextIInv, PTL DEF Spec

-----------------------------------------------------------------------------
(* The types hold, bytes in particular: nothing written overflows a char. *)
THEOREM BytesOnly == Spec => []TypeOK
<1>1. IInv => TypeOK
  BY DEF IInv
<1> QED BY <1>1, Inductive, PTL

(* Every read is of a character between the quotes. *)
THEOREM ReadsAreInside == Spec => []ReadsInside
<1>1. IInv => ReadsInside
  <2> SUFFICES ASSUME IInv PROVE ReadsInside
    OBVIOUS
  <2>1. /\ end \in Nat /\ i \in Nat /\ i <= end
        /\ i < end /\ raw(i) = Backslash => i + 1 < end
    BY TokenUnits DEF IInv, TypeOK, AtUnits, end, raw
  <2> QED BY <2>1 DEF ReadsInside, AtEscape, IInv, AtUnits
<1> QED BY <1>1, Inductive, PTL

(* buf[Text::size() * 2 + 1] is large enough for every token. *)
THEOREM BufferIsEnough == Spec => []BufferFits
<1>1. IInv => BufferFits
  <2> SUFFICES ASSUME IInv PROVE BufferFits
    OBVIOUS
  <2>1. /\ Size(token) \in Nat /\ Size(token) >= 2
        /\ i \in Nat /\ i <= Size(token) - 1
    BY TokenUnits DEF IInv, TypeOK, AtUnits
  <2>2. Len(out) \in Nat
    BY DEF IInv, TypeOK
  <2> QED BY <2>1, <2>2 DEF BufferFits, IInv
<1> QED BY <1>1, Inductive, PTL

(* Both: no access of the decoder is out of bounds, for every token. *)
THEOREM AlwaysInBounds == Spec => []StaysInBounds
<1>1. ReadsInside /\ BufferFits => StaysInBounds
  BY DEF StaysInBounds
<1> QED BY <1>1, ReadsAreInside, BufferIsEnough, PTL

(* The decoder never stands still. *)
LEMMA NextAdvances == IInv /\ [Next]_vars => [Advances]_vars
<1> SUFFICES ASSUME IInv, Next PROVE Advances \/ UNCHANGED vars
  OBVIOUS
<1>1. i \in Nat /\ k \in Nat /\ digits \in {0, 2, 4, 8}
  BY DEF IInv, TypeOK
<1>2. CASE PlainChar \/ SimpleEscape \/ NamedEscape
  <2>1. i' = i + 1 \/ i' = i + 2
    BY <1>2 DEF PlainChar, SimpleEscape, NamedEscape, Put
  <2> QED BY <1>1, <2>1 DEF Advances
<1>3. CASE PutCodePoint
  <2>1. i' = i + 2 + digits
    BY <1>3 DEF PutCodePoint, Put
  <2> QED BY <1>1, <2>1 DEF Advances
<1>4. CASE Finish
  BY <1>4 DEF Finish, Advances
<1>5. CASE UnknownEscape \/ TruncatedEscape \/ NotHexDigit \/ RefuseCodePoint
  <2>1. pc # "done" /\ pc' = "done"
    BY <1>5 DEF UnknownEscape, TruncatedEscape, NotHexDigit, RefuseCodePoint,
       AtEscape, Fail
  <2> QED BY <2>1 DEF Advances
<1>6. CASE HexEscape
  BY <1>6 DEF HexEscape, AtEscape, Advances
<1>7. CASE HexDigit
  <2>1. i' = i /\ pc = "hex" /\ pc' = "hex" /\ k' = k + 1
    BY <1>7 DEF HexDigit
  <2> QED BY <1>1, <2>1 DEF Advances
<1> QED
  BY <1>2, <1>3, <1>4, <1>5, <1>6, <1>7 DEF Next, Terminated

(* Every step advances in the token, or in the digits of an escape. *)
THEOREM AlwaysAdvances == Spec => StepsAdvance
BY Inductive, NextAdvances, PTL DEF Spec, StepsAdvance

-----------------------------------------------------------------------------
(* The number that the first j digits of an escape spell. *)

Spelt1(p) == Digit(p, 1)
Spelt2(p) == 16 * Spelt1(p) + Digit(p, 2)
Spelt3(p) == 16 * Spelt2(p) + Digit(p, 3)
Spelt4(p) == 16 * Spelt3(p) + Digit(p, 4)
Spelt5(p) == 16 * Spelt4(p) + Digit(p, 5)
Spelt6(p) == 16 * Spelt5(p) + Digit(p, 6)
Spelt7(p) == 16 * Spelt6(p) + Digit(p, 7)
Spelt8(p) == 16 * Spelt7(p) + Digit(p, 8)

Spelt(p, j) ==
  IF j = 0 THEN 0
  ELSE IF j = 1 THEN Spelt1(p)
  ELSE IF j = 2 THEN Spelt2(p)
  ELSE IF j = 3 THEN Spelt3(p)
  ELSE IF j = 4 THEN Spelt4(p)
  ELSE IF j = 5 THEN Spelt5(p)
  ELSE IF j = 6 THEN Spelt6(p)
  ELSE IF j = 7 THEN Spelt7(p)
  ELSE Spelt8(p)

LEMMA SpeltNext ==
  ASSUME NEW p, NEW j \in 0 .. 7, Digit(p, j + 1) \in 0 .. 15
  PROVE  Spelt(p, j + 1) = 16 * Spelt(p, j) + Digit(p, j + 1)
<1>1. CASE j = 0
  BY <1>1 DEF Spelt, Spelt1
<1>2. CASE j = 1
  <2>1. j + 1 = 2
    BY <1>2
  <2> QED
    BY <1>2, <2>1 DEF Spelt, Spelt2
<1>3. CASE j = 2
  <2>1. j + 1 = 3
    BY <1>3
  <2> QED
    BY <1>3, <2>1 DEF Spelt, Spelt3
<1>4. CASE j = 3
  <2>1. j + 1 = 4
    BY <1>4
  <2> QED
    BY <1>4, <2>1 DEF Spelt, Spelt4
<1>5. CASE j = 4
  <2>1. j + 1 = 5
    BY <1>5
  <2> QED
    BY <1>5, <2>1 DEF Spelt, Spelt5
<1>6. CASE j = 5
  <2>1. j + 1 = 6
    BY <1>6
  <2> QED
    BY <1>6, <2>1 DEF Spelt, Spelt6
<1>7. CASE j = 6
  <2>1. j + 1 = 7
    BY <1>7
  <2> QED
    BY <1>7, <2>1 DEF Spelt, Spelt7
<1>8. CASE j = 7
  <2>1. j + 1 = 8
    BY <1>8
  <2> QED
    BY <1>8, <2>1 DEF Spelt, Spelt8
<1> QED
  BY <1>1, <1>2, <1>3, <1>4, <1>5, <1>6, <1>7, <1>8

LEMMA DigitsIs ==
  ASSUME NEW p, NEW n, << raw(p + 1), n >> \in Spelled
  PROVE  Digits(p) = n /\ n \in {2, 4, 8}
<1>1. n \in {2, 4, 8}
  BY SpelledDigits
<1>2. \A m \in {2, 4, 8} : << raw(p + 1), m >> \in Spelled => m = n
  BY DEF Spelled
<1> QED
  BY <1>1, <1>2 DEF Digits

LEMMA TwoDigits ==
  ASSUME NEW a \in 0 .. 15, NEW b \in 0 .. 15
  PROVE  16 * a + b \in 0 .. 255 /\ (16 * a + b = 0 <=> a = 0 /\ b = 0)
OBVIOUS

(* put_code_point refuses what the digits say is no code point. *)
LEMMA RefusedIsNone ==
  ASSUME NEW p, NEW n \in {2, 4, 8}, Digits(p) = n,
         \A j \in 1 .. n : Digit(p, j) \in 0 .. 15
  PROVE  Refused(Spelt(p, n)) <=> NoSuchCodePoint(p)
<1>1. CASE n = 2
  <2>1. Digit(p, 1) \in 0 .. 15 /\ Digit(p, 2) \in 0 .. 15
    BY <1>1
  <2>2. Spelt(p, n) = 16 * Digit(p, 1) + Digit(p, 2)
    BY <1>1 DEF Spelt, Spelt2, Spelt1
  <2>3. PICK d1 \in 0 .. 15, d2 \in 0 .. 15 : d1 = Digit(p, 1) /\ d2 = Digit(p, 2)
    BY <2>1
  <2>4. ~ Refused(Spelt(p, n))
    <3>1. ~ Refused(16 * d1 + d2)
      BY DEF Refused, MaxCodePoint
    <3> QED
      BY <2>2, <2>3, <3>1
  <2> QED
    BY <1>1, <2>4 DEF NoSuchCodePoint
<1>2. CASE n = 4
  <2>1. /\ Digit(p, 1) \in 0 .. 15 /\ Digit(p, 2) \in 0 .. 15 /\ Digit(p, 3) \in 0 .. 15
        /\ Digit(p, 4) \in 0 .. 15
    BY <1>2
  <2>2. AllZero(p, 1 .. (n - 4))
    BY <1>2 DEF AllZero
  <2>3. NoSuchCodePoint(p) <=> Digit(p, 1) = 13 /\ Digit(p, 2) >= 8
    BY <1>2, <2>2 DEF NoSuchCodePoint
  <2>4. Spelt(p, n) = 16 * (16 * (16 * Digit(p, 1) + Digit(p, 2)) + Digit(p, 3))
                        + Digit(p, 4)
    BY <1>2 DEF Spelt, Spelt4, Spelt3, Spelt2, Spelt1
  <2>5. (55296 <= Spelt(p, n) /\ Spelt(p, n) <= 57343) \/ Spelt(p, n) > 1114111
          <=> Digit(p, 1) = 13 /\ Digit(p, 2) >= 8
    <3>1. PICK d1 \in 0 .. 15, d2 \in 0 .. 15, d3 \in 0 .. 15, d4 \in 0 .. 15 :
            /\ d1 = Digit(p, 1) /\ d2 = Digit(p, 2)
            /\ d3 = Digit(p, 3) /\ d4 = Digit(p, 4)
      BY <2>1
    <3> DEFINE m == 16 * (16 * (16 * d1 + d2) + d3) + d4
    <3>2. (55296 <= m /\ m <= 57343) \/ m > 1114111 <=> d1 = 13 /\ d2 >= 8
      BY SMTT(30)
    <3>3. Spelt(p, n) = m
      BY <2>4, <3>1
    <3> HIDE DEF m
    <3> QED
      BY <3>1, <3>2, <3>3, SMTT(30)
  <2> QED
    BY <2>3, <2>5 DEF Refused, MaxCodePoint
<1>3. CASE n = 8
  <2> DEFINE h == 16 * Digit(p, 1) + Digit(p, 2)
             l == 16 * Digit(p, 7) + Digit(p, 8)
  <2>1. /\ Digit(p, 1) \in 0 .. 15 /\ Digit(p, 2) \in 0 .. 15 /\ Digit(p, 3) \in 0 .. 15
        /\ Digit(p, 4) \in 0 .. 15 /\ Digit(p, 5) \in 0 .. 15 /\ Digit(p, 6) \in 0 .. 15
        /\ Digit(p, 7) \in 0 .. 15 /\ Digit(p, 8) \in 0 .. 15
    BY <1>3
  <2>2. AllZero(p, 1 .. 2) <=> Digit(p, 1) = 0 /\ Digit(p, 2) = 0
    <3>1. 1 .. 2 = {1, 2}
      OBVIOUS
    <3> QED
      BY <3>1 DEF AllZero
  <2>3. AllZero(p, 1 .. (n - 4)) <=> /\ Digit(p, 1) = 0 /\ Digit(p, 2) = 0
                                     /\ Digit(p, 3) = 0 /\ Digit(p, 4) = 0
    <3>1. 1 .. (n - 4) = {1, 2, 3, 4}
      BY <1>3
    <3> QED
      BY <3>1 DEF AllZero
  <2>4. n - 3 = 5 /\ n - 2 = 6 /\ n > 2
    BY <1>3
  <2>5. h \in 0 .. 255 /\ l \in 0 .. 255
        /\ (h = 0 <=> Digit(p, 1) = 0 /\ Digit(p, 2) = 0)
    BY <2>1, TwoDigits
  <2>6. NoSuchCodePoint(p) <=>
          \/ h # 0 \/ 16 * Digit(p, 3) + Digit(p, 4) > 16
          \/ /\ h = 0 /\ Digit(p, 3) = 0 /\ Digit(p, 4) = 0
             /\ Digit(p, 5) = 13 /\ Digit(p, 6) >= 8
    <3> HIDE DEF h
    <3> QED
      BY <1>3, <2>2, <2>3, <2>4, <2>5 DEF NoSuchCodePoint
  <2>7. Spelt(p, n) = 16 * (16 * Spelt6(p) + Digit(p, 7)) + Digit(p, 8)
    BY <1>3 DEF Spelt, Spelt8, Spelt7
  <2>8. Spelt6(p) = 16 * (16 * (16 * (16 * h + Digit(p, 3)) + Digit(p, 4)) + Digit(p, 5))
                      + Digit(p, 6)
    BY DEF Spelt6, Spelt5, Spelt4, Spelt3, Spelt2, Spelt1
  <2> HIDE DEF h
  <2>9. PICK d3 \in 0 .. 15, d4 \in 0 .. 15, d5 \in 0 .. 15, d6 \in 0 .. 15,
             hh \in 0 .. 255, ll \in 0 .. 255 :
          /\ d3 = Digit(p, 3) /\ d4 = Digit(p, 4) /\ d5 = Digit(p, 5)
          /\ d6 = Digit(p, 6) /\ hh = h /\ ll = l
    BY <2>1, <2>5, ZenonT(40)
  <2> DEFINE s6 == 16 * (16 * (16 * (16 * hh + d3) + d4) + d5) + d6
             m  == 256 * s6 + ll
  <2>10. (55296 <= m /\ m <= 57343) \/ m > 1114111 <=>
           \/ hh # 0 \/ 16 * d3 + d4 > 16
           \/ hh = 0 /\ d3 = 0 /\ d4 = 0 /\ d5 = 13 /\ d6 >= 8
    BY ONLY SMTT(30)
  <2>11. s6 \in Int
    OBVIOUS
  <2>12. Spelt6(p) = s6
    BY <2>8, <2>9
  <2> HIDE DEF s6
  <2>13. PICK d7 \in 0 .. 15, d8 \in 0 .. 15 : d7 = Digit(p, 7) /\ d8 = Digit(p, 8)
    BY <2>1
  <2>14. Spelt(p, n) = m
    <3>1. ll = 16 * d7 + d8
      BY <2>9, <2>13 DEF l
    <3>2. 16 * (16 * s6 + d7) + d8 = m
      BY <2>11, <3>1
    <3> QED
      BY <2>7, <2>12, <2>13, <3>2
  <2> HIDE DEF m
  <2> QED
    BY <2>6, <2>9, <2>10, <2>14 DEF Refused, MaxCodePoint
<1> QED
  BY <1>1, <1>2, <1>3

(***************************************************************************)
(* The decoder has found no fault in the escapes before i, and knows what  *)
(* the digits it has read of the one at i spell, unless it is past the     *)
(* last code point already.                                                *)
(***************************************************************************)
Agrees(n) == cp = n \/ (cp > MaxCodePoint /\ n > MaxCodePoint)

Judged ==
  /\ \A p \in token.units : p < i /\ raw(p) = Backslash => ~ BadEscapeAt(p)
  /\ pc = "scan" => ok
  /\ pc = "hex" => /\ ok /\ raw(i) = Backslash
                   /\ << raw(i + 1), digits >> \in Spelled
                   /\ \A q \in i + 2 .. k - 1 : IsHex(raw(q))
                   /\ Spelt(i, k - (i + 2)) \in Nat
                   /\ Agrees(Spelt(i, k - (i + 2)))
  /\ pc = "done" /\ ok => i = end
  /\ pc = "done" /\ ~ ok => i < end /\ raw(i) = Backslash /\ BadEscapeAt(i)

LEMMA InitJudged == Init => Judged
<1> SUFFICES ASSUME Init PROVE Judged
  OBVIOUS
<1>1. \A p \in token.units : 1 <= p
  BY TokensAssumption, TokenUnits DEF Init
<1>2. \A p \in token.units : p \in Nat
  BY TokensAssumption, TokenUnits DEF Init
<1> QED
  BY <1>1, <1>2 DEF Init, Judged

LEMMA HexDigitRange ==
  ASSUME NEW c \in Byte, IsHex(c)
  PROVE  HexVal(c) \in 0 .. 15
BY DEF IsHex, HexVal, Byte

(* The decoder stands at an escape, or at a character that is none. *)
LEMMA Standing ==
  ASSUME IInv
  PROVE  /\ IsToken(token) /\ i \in token.units
         /\ end \in Nat /\ i \in Nat /\ 1 <= i /\ i <= end /\ Size(token) = end + 1
         /\ i < end /\ raw(i) = Backslash =>
              i + 1 < end /\ i + 1 \notin token.units /\ i + 2 \in token.units
         /\ \A p \in token.units : p \in Nat /\ 1 <= p /\ p <= end
<1>1. IsToken(token) /\ i \in token.units
  BY DEF IInv, TypeOK, AtUnits
<1>2. /\ Size(token) \in Nat /\ Size(token) >= 2
      /\ \A p \in token.units : p \in Nat /\ 1 <= p /\ p <= Size(token) - 1
  BY <1>1, TokenUnits
<1>3. end \in Nat /\ Size(token) = end + 1
  BY <1>2 DEF end
<1>4. i < end /\ raw(i) = Backslash =>
        i + 1 < end /\ i + 1 \notin token.units /\ i + 2 \in token.units
  BY <1>1, TokenUnits DEF end, raw
<1> QED
  BY <1>1, <1>2, <1>3, <1>4

(* The letters of the three kinds of escape are different. *)
LEMMA LettersDiffer ==
  /\ \A e \in Escapes \cup Named : e[1] \notin Letters(Spelled)
  /\ \A e \in Escapes : e[1] \in Letters(Escapes)
  /\ \A e \in Named : e[1] \in Letters(Named)
  /\ \A e \in Spelled : e[1] \in Letters(Spelled)
<1>1. Letters(Spelled) = {120, 117, 85}
  BY DEF Letters, Spelled
<1>2. \A e \in Escapes \cup Named : e[1] \notin {120, 117, 85}
  BY DEF Escapes, Named
<1> QED
  BY <1>1, <1>2 DEF Letters

(* An escape without digits is behind. *)
LEMMA ShortEscapePassed ==
  ASSUME IInv, Judged, AtEscape, ok' = ok, i' = i + 2, pc' = "scan", token' = token,
         NEW e \in Escapes \cup Named, e[1] = Letter
  PROVE  Judged'
<1>1. ~ BadEscapeAt(i)
  BY LettersDiffer DEF BadEscapeAt, Letter
<1>2. \A p \in token.units : p < i + 2 => p < i \/ p = i
  BY Standing DEF AtEscape
<1>3. \A p \in token.units : p < i + 2 /\ raw(p) = Backslash => ~ BadEscapeAt(p)
  BY <1>1, <1>2 DEF Judged
<1>4. \A p : raw(p)' = raw(p) /\ BadEscapeAt(p)' = BadEscapeAt(p)
  BY DEF raw, BadEscapeAt, NoSuchCodePoint, AllZero, Digit, Digits, end
<1> QED
  BY <1>3, <1>4 DEF Judged, AtEscape

(* A failure is of a bad escape. *)
LEMMA FailJudged ==
  ASSUME IInv, Judged, Fail, i < end, raw(i) = Backslash, BadEscapeAt(i)
  PROVE  Judged'
<1>1. token' = token /\ i' = i /\ ok' = FALSE /\ pc' = "done"
  BY DEF Fail
<1>2. \A p : raw(p)' = raw(p) /\ BadEscapeAt(p)' = BadEscapeAt(p)
  BY <1>1 DEF raw, BadEscapeAt, NoSuchCodePoint, AllZero, Digit, Digits, end
<1>3. end' = end
  BY <1>1 DEF end
<1> QED
  BY <1>1, <1>2, <1>3 DEF Judged

(* What is known of the digits of an escape while they are read. *)
LEMMA Reading ==
  ASSUME IInv, Judged, pc = "hex"
  PROVE  /\ i < end /\ raw(i) = Backslash
         /\ Digits(i) = digits /\ digits \in {2, 4, 8}
         /\ raw(i + 1) \in Letters(Spelled)
         /\ i + 2 + digits <= end /\ k \in Nat /\ i + 2 <= k /\ k <= i + 2 + digits
         /\ k \in token.units /\ cp \in Nat
<1>1. << raw(i + 1), digits >> \in Spelled /\ raw(i) = Backslash
  BY DEF Judged
<1>2. Digits(i) = digits /\ digits \in {2, 4, 8}
  BY <1>1, DigitsIs
<1>3. << raw(i + 1), digits >>[1] \in Letters(Spelled)
  BY <1>1, LettersDiffer
<1>4. /\ i + 2 + digits <= end /\ k \in token.units
      /\ i + 2 <= k /\ k <= i + 2 + digits /\ k \in Nat /\ cp \in Nat
  BY DEF IInv, TypeOK, AtUnits
<1> QED
  BY <1>1, <1>2, <1>3, <1>4, Standing

LEMMA RawByte ==
  ASSUME IInv, NEW p \in Int, 0 <= p, p <= end
  PROVE  raw(p) \in Byte
<1>1. IsToken(token) /\ end \in Nat /\ Size(token) = end + 1
  BY Standing
<1>2. p + 1 \in 1 .. Len(token.text)
  BY <1>1 DEF Size
<1> QED
  BY <1>1, <1>2 DEF IsToken, raw, At

(* When all of them are read, what they spell is judged as they are. *)
LEMMA AllRead ==
  ASSUME IInv, Judged, pc = "hex", k = i + 2 + digits
  PROVE  Refused(cp) <=> BadEscapeAt(i)
<1>1. /\ Digits(i) = digits /\ digits \in {2, 4, 8} /\ raw(i + 1) \in Letters(Spelled)
      /\ i + 2 + digits <= end /\ i \in Nat /\ end \in Nat /\ k - (i + 2) = digits
      /\ cp \in Nat
  BY Reading, Standing
<1>2. \A q \in i + 2 .. i + 1 + digits : IsHex(raw(q))
  <2>1. k - 1 = i + 1 + digits
    BY <1>1
  <2> QED
    BY <2>1 DEF Judged
<1>3. \A j \in 1 .. digits : Digit(i, j) \in 0 .. 15
  <2> SUFFICES ASSUME NEW j \in 1 .. digits PROVE Digit(i, j) \in 0 .. 15
    OBVIOUS
  <2>1. i + 1 + j \in i + 2 .. i + 1 + digits /\ 0 <= i + 1 + j /\ i + 1 + j <= end
        /\ i + 1 + j \in Int
    BY <1>1
  <2>2. raw(i + 1 + j) \in Byte /\ IsHex(raw(i + 1 + j))
    BY <1>2, <2>1, RawByte
  <2> QED
    BY <2>2, HexDigitRange DEF Digit
<1>4. Refused(Spelt(i, digits)) <=> NoSuchCodePoint(i)
  BY <1>1, <1>3, RefusedIsNone
<1>5. Refused(cp) <=> Refused(Spelt(i, digits))
  <2>1. Agrees(Spelt(i, digits)) /\ Spelt(i, digits) \in Nat
    BY <1>1 DEF Judged
  <2> QED
    BY <1>1, <2>1, SMTT(30) DEF Agrees, Refused, MaxCodePoint
<1>6. BadEscapeAt(i) <=> NoSuchCodePoint(i)
  <2>1. ~ (i + 1 + Digits(i) >= end)
    BY <1>1
  <2>2. ~ \E q \in i + 2 .. i + 1 + Digits(i) : ~ IsHex(raw(q))
    BY <1>1, <1>2
  <2> QED
    BY <1>1, <2>1, <2>2 DEF BadEscapeAt
<1> QED
  BY <1>4, <1>5, <1>6

LEMMA NextJudged == IInv /\ Judged /\ [Next]_vars => Judged'
<1> SUFFICES ASSUME IInv, Judged, [Next]_vars PROVE Judged'
  OBVIOUS
<1>0. token' = token => /\ \A p : raw(p)' = raw(p) /\ BadEscapeAt(p)' = BadEscapeAt(p)
                        /\ end' = end
  BY DEF raw, BadEscapeAt, NoSuchCodePoint, AllZero, Digit, Digits, end
<1>1. CASE UNCHANGED vars
  <2>1. UNCHANGED << token, i, ok, pc, k, cp, digits >>
    BY <1>1 DEF vars
  <2>2. Spelt(i, k - (i + 2))' = Spelt(i, k - (i + 2))
    BY <2>1 DEF Spelt, Spelt1, Spelt2, Spelt3, Spelt4, Spelt5, Spelt6, Spelt7,
                Spelt8, Digit, raw
  <2> QED
    BY <1>0, <2>1, <2>2 DEF Judged, Agrees
<1>2. CASE Finish
  <2>1. i = end /\ pc = "scan"
    BY <1>2, Standing DEF Finish
  <2>2. token' = token /\ i' = i /\ ok' = ok /\ pc' = "done"
    BY <1>2 DEF Finish
  <2> QED
    BY <1>0, <2>1, <2>2 DEF Judged
<1>3. CASE PlainChar
  <2>1. token' = token /\ i' = i + 1 /\ ok' = ok /\ pc' = "scan" /\ pc = "scan"
        /\ raw(i) # Backslash
    BY <1>3 DEF PlainChar, Put
  <2>2. \A p \in token.units : p < i + 1 => p < i \/ p = i
    BY Standing
  <2> QED
    BY <1>0, <2>1, <2>2 DEF Judged
<1>4. CASE SimpleEscape
  <2>1. PICK e \in Escapes : e[1] = Letter /\ Put(<< e[2] >>, i + 2)
    BY <1>4 DEF SimpleEscape
  <2> QED
    BY <1>4, <2>1, ShortEscapePassed DEF SimpleEscape, Put
<1>5. CASE NamedEscape
  <2>1. PICK e \in Named : e[1] = Letter /\ Put(Utf8(e[2]), i + 2)
    BY <1>5 DEF NamedEscape
  <2> QED
    BY <1>5, <2>1, ShortEscapePassed DEF NamedEscape, Put
<1>6. CASE UnknownEscape
  <2>1. BadEscapeAt(i)
    BY <1>6 DEF UnknownEscape, BadEscapeAt, Letter
  <2> QED
    BY <1>6, <2>1, FailJudged DEF UnknownEscape, AtEscape
<1>7. CASE TruncatedEscape
  <2>1. PICK e \in Spelled : e[1] = Letter /\ i + 2 + e[2] > end
    BY <1>7 DEF TruncatedEscape
  <2>2. e = << raw(i + 1), e[2] >> /\ raw(i + 1) \in Letters(Spelled)
    <3>1. e = << e[1], e[2] >>
      BY DEF Spelled
    <3> QED
      BY <2>1, <3>1, LettersDiffer DEF Letter
  <2>3. Digits(i) = e[2] /\ e[2] \in {2, 4, 8}
    BY <2>2, DigitsIs
  <2>4. i + 1 + Digits(i) >= end
    BY <2>1, <2>3, Standing
  <2>5. BadEscapeAt(i)
    BY <2>2, <2>4 DEF BadEscapeAt
  <2> QED
    BY <1>7, <2>5, FailJudged DEF TruncatedEscape, AtEscape
<1>8. CASE HexEscape
  <2>1. PICK e \in Spelled : e[1] = Letter /\ digits' = e[2]
    BY <1>8 DEF HexEscape
  <2>2. e = << raw(i + 1), digits' >>
    <3>1. e = << e[1], e[2] >>
      BY DEF Spelled
    <3> QED
      BY <2>1, <3>1 DEF Letter
  <2>3. token' = token /\ i' = i /\ ok' = ok /\ pc' = "hex" /\ k' = i + 2 /\ cp' = 0
        /\ pc = "scan" /\ raw(i) = Backslash
    BY <1>8 DEF HexEscape, AtEscape
  <2>4. Spelt(i, k - (i + 2))' = 0
    <3>1. (k - (i + 2))' = 0
      BY <2>3, Standing
    <3> QED
      BY <3>1 DEF Spelt
  <2>5. i + 2 .. (i + 2) - 1 = {}
    BY Standing
  <2> QED
    BY <1>0, <2>2, <2>3, <2>4, <2>5 DEF Judged, Agrees
<1>9. CASE HexDigit
  <2> DEFINE j == k - (i + 2)
  <2>1. /\ k < i + 2 + digits /\ IsHex(raw(k)) /\ cp' = Shift(cp, raw(k)) /\ k' = k + 1
        /\ token' = token /\ i' = i /\ ok' = ok /\ pc' = "hex" /\ pc = "hex"
        /\ digits' = digits
    BY <1>9 DEF HexDigit
  <2>2. /\ j \in 0 .. 7 /\ i \in Nat /\ k \in Nat /\ k <= end /\ k = i + 1 + (j + 1)
        /\ k' - (i' + 2) = j + 1 /\ cp \in Nat /\ i + 2 <= k
    BY <2>1, Reading, Standing
  <2>3. raw(k) \in Byte /\ HexVal(raw(k)) \in 0 .. 15 /\ Digit(i, j + 1) = HexVal(raw(k))
    BY <2>1, <2>2, RawByte, HexDigitRange DEF Digit
  <2>4. Spelt(i, j) \in Nat /\ Agrees(Spelt(i, j))
    BY <2>1 DEF Judged
  <2> HIDE DEF j
  <2>5. Spelt(i, j + 1) = 16 * Spelt(i, j) + HexVal(raw(k))
    BY <2>2, <2>3, SpeltNext
  <2>6. \A p, n : Spelt(p, n)' = Spelt(p, n)
    BY <1>0, <2>1 DEF Spelt, Spelt1, Spelt2, Spelt3, Spelt4, Spelt5, Spelt6, Spelt7,
                      Spelt8, Digit, raw
  <2>7. /\ Spelt(i, j + 1) \in Nat
        /\ cp' = Spelt(i, j + 1) \/ (cp' > MaxCodePoint /\ Spelt(i, j + 1) > MaxCodePoint)
    <3>1. PICK s \in Nat, h \in 0 .. 15 : s = Spelt(i, j) /\ h = HexVal(raw(k))
      BY <2>3, <2>4
    <3>2. cp = s \/ (cp > MaxCodePoint /\ s > MaxCodePoint)
      BY <2>4, <3>1 DEF Agrees
    <3>3. cp' = IF cp > MaxCodePoint THEN cp ELSE cp * 16 + h
      BY <2>1, <3>1 DEF Shift
    <3>4. Spelt(i, j + 1) = 16 * s + h
      BY <2>5, <3>1
    <3> QED
      BY <2>2, <3>2, <3>3, <3>4 DEF MaxCodePoint
  <2>8. \A q \in i + 2 .. (k + 1) - 1 : IsHex(raw(q))
    <3>1. \A q \in i + 2 .. k - 1 : IsHex(raw(q))
      BY <2>1 DEF Judged
    <3>2. \A q \in i + 2 .. (k + 1) - 1 : q \in i + 2 .. k - 1 \/ q = k
      BY <2>2
    <3> QED
      BY <2>1, <3>1, <3>2
  <2>9. /\ ok /\ raw(i) = Backslash /\ << raw(i + 1), digits >> \in Spelled
        /\ \A p \in token.units : p < i /\ raw(p) = Backslash => ~ BadEscapeAt(p)
    BY <2>1 DEF Judged
  <2>10. Spelt(i, k - (i + 2))' = Spelt(i, j + 1)
    <3>1. i' = i /\ (k - (i + 2))' = j + 1
      BY <2>1, <2>2
    <3> QED
      BY <1>0, <2>1, <3>1 DEF Spelt, Spelt1, Spelt2, Spelt3, Spelt4, Spelt5, Spelt6,
                              Spelt7, Spelt8, Digit, raw
  <2> QED
    BY <1>0, <2>1, <2>7, <2>8, <2>9, <2>10 DEF Judged, Agrees
<1>10. CASE NotHexDigit
  <2>1. pc = "hex" /\ k < i + 2 + digits /\ ~ IsHex(raw(k)) /\ Fail
    BY <1>10 DEF NotHexDigit
  <2>2. /\ k \in i + 2 .. i + 1 + Digits(i) /\ raw(i + 1) \in Letters(Spelled)
        /\ i < end /\ raw(i) = Backslash
    BY <2>1, Reading, Standing
  <2>3. BadEscapeAt(i)
    BY <2>1, <2>2 DEF BadEscapeAt
  <2> QED
    BY <2>1, <2>2, <2>3, FailJudged
<1>11. CASE PutCodePoint
  <2>1. /\ token' = token /\ i' = i + 2 + digits /\ ok' = ok /\ pc' = "scan"
        /\ pc = "hex" /\ k = i + 2 + digits /\ ~ Refused(cp)
    BY <1>11 DEF PutCodePoint, Put
  <2>2. ~ BadEscapeAt(i)
    BY <2>1, AllRead
  <2>3. ok /\ \A q \in i + 2 .. i + 1 + digits : IsHex(raw(q))
    <3>1. k - 1 = i + 1 + digits
      BY <2>1, Reading, Standing
    <3> QED
      BY <2>1, <3>1 DEF Judged
  <2>4. ASSUME NEW p \in token.units, p < i + 2 + digits, raw(p) = Backslash
        PROVE  ~ BadEscapeAt(p)
    <3>1. p < i \/ p = i \/ p = i + 1 \/ p \in i + 2 .. i + 1 + digits
      BY <2>1, <2>4, Reading, Standing
    <3>2. p # i + 1
      BY <2>1, Reading, Standing
    <3>3. p \notin i + 2 .. i + 1 + digits
      BY <2>3, <2>4 DEF IsHex, Backslash
    <3> QED
      BY <2>2, <2>4, <3>1, <3>2, <3>3 DEF Judged
  <2> QED
    BY <1>0, <2>1, <2>3, <2>4 DEF Judged
<1>12. CASE RefuseCodePoint
  <2>1. pc = "hex" /\ k = i + 2 + digits /\ Refused(cp) /\ Fail
    BY <1>12 DEF RefuseCodePoint
  <2> QED
    BY <2>1, AllRead, Reading, FailJudged
<1>13. CASE Terminated
  BY <1>1, <1>13 DEF Terminated
<1> QED
  BY <1>1, <1>2, <1>3, <1>4, <1>5, <1>6, <1>7, <1>8, <1>9, <1>10, <1>11,
     <1>12, <1>13 DEF Next

(***************************************************************************)
(* A token is refused exactly for an escape that YAML does not have, that  *)
(* lacks digits, or that names no code point, whatever the token.          *)
(***************************************************************************)
THEOREM RefusalsAreRight == Spec => []RefusesExactlyBad
<1>1. IInv /\ Judged => RefusesExactlyBad
  <2> SUFFICES ASSUME IInv, Judged, pc = "done" PROVE RefusesExactlyBad
    BY DEF RefusesExactlyBad
  <2>1. CASE ok
    <3>1. i = end
      BY <2>1 DEF Judged
    <3> QED
      BY <2>1, <3>1 DEF Judged, RefusesExactlyBad
  <2>2. CASE ~ ok
    <3>1. i \in token.units /\ i < end /\ raw(i) = Backslash /\ BadEscapeAt(i)
      BY <2>2, Standing DEF Judged
    <3> QED
      BY <2>2, <3>1 DEF RefusesExactlyBad
  <2> QED
    BY <2>1, <2>2
<1> QED
  BY <1>1, InitIInv, NextIInv, InitJudged, NextJudged, PTL DEF Spec

-----------------------------------------------------------------------------
(* UTF-8, as it is written and as it is read. *)

NoPoint == MaxCodePoint + 1

(* The first byte of a code point goes on with no other, nor do the rest begin one. *)
LEMMA Utf8First ==
  ASSUME NEW n \in Nat, n <= MaxCodePoint
  PROVE  Len(Utf8(n)) \in 1 .. 4 /\ Utf8(n)[1] \notin 128 .. 191
<1>1. CASE n < 128
  BY <1>1 DEF Utf8
<1>2. CASE 128 <= n /\ n <= 2047
  <2>1. Utf8(n) = << 192 + (n \div 64), Low6(n) >>
    BY <1>2 DEF Utf8
  <2>2. 192 + (n \div 64) \notin 128 .. 191
    BY <1>2
  <2> QED
    BY <2>1, <2>2
<1>3. CASE 2048 <= n /\ n <= 65535
  <2>1. Utf8(n) = << 224 + (n \div 4096), Low6(n \div 64), Low6(n) >>
    BY <1>3, SMTT(30) DEF Utf8
  <2>2. 224 + (n \div 4096) \notin 128 .. 191
    BY <1>3
  <2> QED
    BY <2>1, <2>2
<1>4. CASE n > 65535
  <2>1. Utf8(n) = << 240 + (n \div 262144), Low6(n \div 4096), Low6(n \div 64), Low6(n) >>
    BY <1>4 DEF Utf8
  <2>2. 240 + (n \div 262144) \notin 128 .. 191
    BY <1>4
  <2> QED
    BY <2>1, <2>2
<1> QED
  BY <1>1, <1>2, <1>3, <1>4

(* Six bits at a time. *)
LEMMA SixBits ==
  ASSUME NEW n \in Nat
  PROVE  /\ n = 64 * (n \div 64) + (n % 64)
         /\ n % 64 \in 0 .. 63 /\ n \div 64 \in Nat
         /\ Low6(n) = 128 + (n % 64) /\ Low6(n) \in 128 .. 191
BY DEF Low6

LEMMA SixMore ==
  ASSUME NEW n \in Nat
  PROVE  n \div 4096 = (n \div 64) \div 64 /\ n \div 262144 = ((n \div 64) \div 64) \div 64
OBVIOUS

ReadsAs(s, p, n) ==
  /\ p + LengthAt(s, p) - 1 = Len(s)
  /\ WellFormedAt(s, p)
  /\ CodePointAt(s, p) = n

LEMMA Reads2 ==
  ASSUME NEW h \in 2 .. 31, NEW x \in 128 .. 191
  PROVE  ReadsAs(<< 192 + h, x >>, 1, 64 * h + (x - 128))
<1> DEFINE s == << 192 + h, x >>
<1>1. s[1] = 192 + h /\ s[2] = x /\ Len(s) = 2
  OBVIOUS
<1> HIDE DEF s
<1>2. LengthAt(s, 1) = 2
  BY <1>1 DEF LengthAt
<1>3. WellFormedAt(s, 1)
  BY <1>1, <1>2 DEF WellFormedAt
<1>4. CodePointAt(s, 1) = 64 * h + (x - 128)
  BY <1>1, <1>2 DEF CodePointAt
<1>5. ReadsAs(s, 1, 64 * h + (x - 128))
  BY <1>1, <1>2, <1>3, <1>4 DEF ReadsAs
<1> QED
  BY <1>5 DEF s

LEMMA Reads3 ==
  ASSUME NEW h \in 0 .. 15, NEW x \in 128 .. 191, NEW y \in 128 .. 191,
         h = 0 => x >= 160, h = 13 => x < 160
  PROVE  ReadsAs(<< 224 + h, x, y >>, 1, 64 * (64 * h + (x - 128)) + (y - 128))
<1> DEFINE s == << 224 + h, x, y >>
<1>1. s[1] = 224 + h /\ s[2] = x /\ s[3] = y /\ Len(s) = 3
  OBVIOUS
<1> HIDE DEF s
<1>2. LengthAt(s, 1) = 3
  BY <1>1 DEF LengthAt
<1>3. WellFormedAt(s, 1)
  BY <1>1, <1>2 DEF WellFormedAt
<1>4. CodePointAt(s, 1) = 64 * (64 * h + (x - 128)) + (y - 128)
  BY <1>1, <1>2 DEF CodePointAt
<1>5. ReadsAs(s, 1, 64 * (64 * h + (x - 128)) + (y - 128))
  BY <1>1, <1>2, <1>3, <1>4 DEF ReadsAs
<1> QED
  BY <1>5 DEF s

LEMMA Reads4 ==
  ASSUME NEW h \in 0 .. 4, NEW x \in 128 .. 191, NEW y \in 128 .. 191, NEW z \in 128 .. 191,
         h = 0 => x >= 144, h = 4 => x < 144
  PROVE  ReadsAs(<< 240 + h, x, y, z >>, 1, 64 * (64 * (64 * h + (x - 128)) + (y - 128)) + (z - 128))
<1> DEFINE s == << 240 + h, x, y, z >>
<1>1. s[1] = 240 + h /\ s[2] = x /\ s[3] = y /\ s[4] = z /\ Len(s) = 4
  OBVIOUS
<1> HIDE DEF s
<1>2. LengthAt(s, 1) = 4
  BY <1>1 DEF LengthAt
<1>3. WellFormedAt(s, 1)
  BY <1>1, <1>2 DEF WellFormedAt
<1>4. CodePointAt(s, 1) = 64 * (64 * (64 * h + (x - 128)) + (y - 128)) + (z - 128)
  BY <1>1, <1>2, SMTT(30) DEF CodePointAt
<1>5. ReadsAs(s, 1, 64 * (64 * (64 * h + (x - 128)) + (y - 128)) + (z - 128))
  BY <1>1, <1>2, <1>3, <1>4 DEF ReadsAs
<1> QED
  BY <1>5 DEF s

(* What is written for a code point reads as that code point. *)
LEMMA Utf8Reads ==
  ASSUME NEW n \in Nat, ~ Refused(n)
  PROVE  ReadsAs(Utf8(n), 1, n)
<1>0. n <= MaxCodePoint /\ ~ (55296 <= n /\ n <= 57343) /\ MaxCodePoint = 1114111
  BY DEF Refused, MaxCodePoint
<1> DEFINE a == n \div 64
           b == a \div 64
           c == b \div 64
<1>1. /\ n = 64 * a + (n % 64) /\ n % 64 \in 0 .. 63 /\ a \in Nat
      /\ Low6(n) = 128 + (n % 64) /\ Low6(n) \in 128 .. 191
  BY SixBits
<1>2. /\ a = 64 * b + (a % 64) /\ a % 64 \in 0 .. 63 /\ b \in Nat
      /\ Low6(a) = 128 + (a % 64) /\ Low6(a) \in 128 .. 191
  BY <1>1, SixBits
<1>3. /\ b = 64 * c + (b % 64) /\ b % 64 \in 0 .. 63 /\ c \in Nat
      /\ Low6(b) = 128 + (b % 64) /\ Low6(b) \in 128 .. 191
  BY <1>2, SixBits
<1>4. n \div 4096 = b /\ n \div 262144 = c
  BY SixMore
<1> HIDE DEF a, b, c
<1>5. CASE n < 128
  <2>1. Utf8(n) = << n >>
    BY <1>5 DEF Utf8
  <2> QED
    BY <1>5, <2>1 DEF ReadsAs, LengthAt, WellFormedAt, CodePointAt
<1>6. CASE 128 <= n /\ n <= 2047
  <2>1. Utf8(n) = << 192 + a, Low6(n) >>
    BY <1>6 DEF Utf8, a
  <2>2. a \in 2 .. 31
    BY <1>1, <1>6
  <2>3. n = 64 * a + (Low6(n) - 128)
    BY <1>1
  <2>4. ReadsAs(<< 192 + a, Low6(n) >>, 1, 64 * a + (Low6(n) - 128))
    BY <1>1, <2>2, Reads2, ZenonT(40)
  <2> QED
    BY <2>1, <2>3, <2>4
<1>7. CASE 2048 <= n /\ n <= 65535
  <2>1. Utf8(n) = << 224 + b, Low6(a), Low6(n) >>
    BY <1>4, <1>7, SMTT(30) DEF Utf8, a
  <2>2. b \in 0 .. 15 /\ (b = 0 => Low6(a) >= 160) /\ (b = 13 => Low6(a) < 160)
    BY <1>0, <1>1, <1>2, <1>7, SMTT(30)
  <2>3. n = 64 * (64 * b + (Low6(a) - 128)) + (Low6(n) - 128)
    BY <1>1, <1>2
  <2>4. ReadsAs(<< 224 + b, Low6(a), Low6(n) >>, 1, 64 * (64 * b + (Low6(a) - 128)) + (Low6(n) - 128))
    BY <1>1, <1>2, <2>2, Reads3, ZenonT(40)
  <2> QED
    BY <2>1, <2>3, <2>4
<1>8. CASE n > 65535
  <2>1. Utf8(n) = << 240 + c, Low6(b), Low6(a), Low6(n) >>
    BY <1>4, <1>8 DEF Utf8, a
  <2>2. c \in 0 .. 4 /\ (c = 0 => Low6(b) >= 144) /\ (c = 4 => Low6(b) < 144)
    BY <1>0, <1>1, <1>2, <1>3, <1>8
  <2>3. n = 64 * (64 * (64 * c + (Low6(b) - 128)) + (Low6(a) - 128)) + (Low6(n) - 128)
    BY <1>1, <1>2, <1>3
  <2>4. ReadsAs(<< 240 + c, Low6(b), Low6(a), Low6(n) >>, 1,
                64 * (64 * (64 * c + (Low6(b) - 128)) + (Low6(a) - 128)) + (Low6(n) - 128))
    <3>1. Low6(n) \in 128 .. 191 /\ Low6(a) \in 128 .. 191 /\ Low6(b) \in 128 .. 191
      BY <1>1, <1>2, <1>3
    <3>2. c \in 0 .. 4 /\ (c = 0 => Low6(b) >= 144) /\ (c = 4 => Low6(b) < 144)
      BY <2>2
    <3> QED
      BY <3>1, <3>2, Reads4, ZenonT(40)
  <2> QED
    BY <2>1, <2>3, <2>4
<1> QED
  BY <1>5, <1>6, <1>7, <1>8, SMTT(30)

(* The bytes of a sequence at a are those at p in another. *)
SameBytes(s, a, t, p, n) == \A x \in 0 .. n - 1 : s[a + x] = t[p + x]

LEMMA BytesAreNumbers == \A x \in Byte : x \in Nat
BY DEF Byte

LEMMA SameReads ==
  ASSUME NEW s \in Seq(Byte), NEW t \in Seq(Byte), NEW a \in 1 .. Len(s), NEW p \in 1 .. Len(t),
         a + LengthAt(s, a) - 1 <= Len(s), p + LengthAt(s, a) - 1 <= Len(t),
         SameBytes(s, a, t, p, LengthAt(s, a))
  PROVE  /\ LengthAt(t, p) = LengthAt(s, a)
         /\ WellFormedAt(t, p) <=> WellFormedAt(s, a)
         /\ CodePointAt(t, p) = CodePointAt(s, a)
<1> DEFINE n == LengthAt(s, a)
<1>1. n \in 1 .. 4
  BY DEF LengthAt
<1>2. \A x \in 0 .. n - 1 : s[a + x] = t[p + x]
  BY DEF SameBytes
<1>3. s[a] = t[p]
  BY <1>1, <1>2, SMTT(30)
<1>4. LengthAt(t, p) = n
  BY <1>3 DEF LengthAt
<1>5. n >= 2 => s[a + 1] = t[p + 1]
  BY <1>1, <1>2
<1>6. n >= 3 => s[a + 2] = t[p + 2]
  BY <1>1, <1>2
<1>7. n >= 4 => s[a + 3] = t[p + 3]
  BY <1>1, <1>2
<1>8. s[a] \in Byte /\ (s[a] >= 224 => n >= 2) /\ s[a] = t[p]
  <2>1. s[a] \in Byte
    OBVIOUS
  <2>2. s[a] \in Nat /\ s[a] >= 224 => ~ s[a] < 128
    BY DEF Byte
  <2>3. s[a] \in Nat
    BY <2>1, BytesAreNumbers
  <2>4. s[a] >= 224 => n >= 2
    BY <2>2, <2>3 DEF LengthAt
  <2> QED
    BY <1>3, <2>1, <2>4
<1>9. LengthAt(s, a) = n /\ a + n - 1 <= Len(s) /\ p + n - 1 <= Len(t) /\ a \in Nat /\ p \in Nat
  OBVIOUS
<1> HIDE DEF n
<1>10. (\A q \in a + 1 .. a + n - 1 : s[q] \in 128 .. 191)
         <=> (\A q \in p + 1 .. p + n - 1 : t[q] \in 128 .. 191)
  <2>1. (\A q \in a + 1 .. a + n - 1 : s[q] \in 128 .. 191)
          <=> (\A x \in 1 .. n - 1 : s[a + x] \in 128 .. 191)
    <3>1. \A q \in a + 1 .. a + n - 1 : q - a \in 1 .. n - 1 /\ a + (q - a) = q
      BY <1>1, <1>9
    <3>2. \A x \in 1 .. n - 1 : a + x \in a + 1 .. a + n - 1
      BY <1>1, <1>9
    <3> QED
      BY <3>1, <3>2
  <2>2. (\A q \in p + 1 .. p + n - 1 : t[q] \in 128 .. 191)
          <=> (\A x \in 1 .. n - 1 : t[p + x] \in 128 .. 191)
    <3>1. \A q \in p + 1 .. p + n - 1 : q - p \in 1 .. n - 1 /\ p + (q - p) = q
      BY <1>1, <1>9
    <3>2. \A x \in 1 .. n - 1 : p + x \in p + 1 .. p + n - 1
      BY <1>1, <1>9
    <3> QED
      BY <3>1, <3>2
  <2>3. \A x \in 1 .. n - 1 : s[a + x] = t[p + x]
    BY <1>1, <1>2
  <2> QED
    BY <2>1, <2>2, <2>3
<1>11. WellFormedAt(t, p) <=> WellFormedAt(s, a)
  <2>1. WellFormedAt(s, a) <=>
          /\ s[a] \in 0 .. 127 \cup 194 .. 244
          /\ \A q \in a + 1 .. a + n - 1 : s[q] \in 128 .. 191
          /\ s[a] = 224 => s[a + 1] >= 160
          /\ s[a] = 237 => s[a + 1] < 160
          /\ s[a] = 240 => s[a + 1] >= 144
          /\ s[a] = 244 => s[a + 1] < 144
    BY <1>9 DEF WellFormedAt
  <2>2. WellFormedAt(t, p) <=>
          /\ t[p] \in 0 .. 127 \cup 194 .. 244
          /\ \A q \in p + 1 .. p + n - 1 : t[q] \in 128 .. 191
          /\ t[p] = 224 => t[p + 1] >= 160
          /\ t[p] = 237 => t[p + 1] < 160
          /\ t[p] = 240 => t[p + 1] >= 144
          /\ t[p] = 244 => t[p + 1] < 144
    BY <1>4, <1>9 DEF WellFormedAt
  <2>3. s[a] \in {224, 237, 240, 244} => s[a + 1] = t[p + 1]
    BY <1>5, <1>8
  <2> DEFINE S == \A q \in a + 1 .. a + n - 1 : s[q] \in 128 .. 191
             T == \A q \in p + 1 .. p + n - 1 : t[q] \in 128 .. 191
  <2>4. S <=> T
    BY <1>10
  <2> HIDE DEF S, T
  <2>5. WellFormedAt(s, a) => WellFormedAt(t, p)
    BY <1>3, <2>1, <2>2, <2>3, <2>4 DEF S, T
  <2>6. WellFormedAt(t, p) => WellFormedAt(s, a)
    BY <1>3, <2>1, <2>2, <2>3, <2>4 DEF S, T
  <2> QED
    BY <2>5, <2>6
<1>12. CodePointAt(t, p) = CodePointAt(s, a)
  <2>1. CASE n = 1
    BY <1>3, <1>4, <1>9, <2>1 DEF CodePointAt
  <2>2. CASE n = 2
    BY <1>3, <1>4, <1>5, <1>9, <2>2 DEF CodePointAt
  <2>3. CASE n = 3
    BY <1>3, <1>4, <1>5, <1>6, <1>9, <2>3 DEF CodePointAt
  <2>4. CASE n = 4
    BY <1>3, <1>4, <1>5, <1>6, <1>7, <1>9, <2>4 DEF CodePointAt
  <2> QED
    BY <1>1, <2>1, <2>2, <2>3, <2>4
<1> QED
  BY <1>4, <1>9, <1>11, <1>12

-----------------------------------------------------------------------------
(* What Written and Meant say of themselves. *)

WrittenFrom(f) ==
  /\ f[Len(out) + 1] = << >>
  /\ \A p \in 1 .. Len(out) :
       f[p] = IF WellFormedAt(out, p) THEN << CodePointAt(out, p) >> \o f[p + LengthAt(out, p)]
              ELSE << NoPoint >>

LEMMA WrittenDef ==
  ASSUME out \in Seq(Byte)
  PROVE  \E f : WrittenFrom(f) /\ Written = f[1]
<1> DEFINE N == Len(out)
           M == N + 1
           G == {p \in 1 .. N : WellFormedAt(out, p)}
           nx == [p \in 1 .. M |-> p + LengthAt(out, p)]
           V == {CodePointAt(out, p) : p \in 1 .. M} \cup {NoPoint}
           X == Seq(V)
           F == [q \in (1 .. M) \X X |-> << CodePointAt(out, q[1]) >> \o q[2]]
           b == [p \in 1 .. M |-> IF p > N THEN << >> ELSE << NoPoint >>]
           Body(f) == [p \in 1 .. N + 1 |->
             IF p > Len(out) THEN << >>
             ELSE IF ~ WellFormedAt(out, p) THEN << MaxCodePoint + 1 >>
             ELSE << CodePointAt(out, p) >> \o f[p + LengthAt(out, p)]]
<1>1. N \in Nat /\ M \in Nat
  OBVIOUS
<1>2. \A p \in 1 .. M : CodePointAt(out, p) \in V
  OBVIOUS
<1>3. F \in [(1 .. M) \X X -> X]
  <2> SUFFICES ASSUME NEW p \in 1 .. M, NEW x \in X
               PROVE  << CodePointAt(out, p) >> \o x \in X
    OBVIOUS
  <2> HIDE DEF V
  <2> QED
    BY <1>2
<1>4. b \in [1 .. M -> X]
  <2>1. << NoPoint >> \in X /\ << >> \in X
    OBVIOUS
  <2> HIDE DEF X
  <2> QED
    BY <2>1
<1>5. \A p \in 1 .. M : p \in G => nx[p] \in p + 1 .. M
  <2> SUFFICES ASSUME NEW p \in 1 .. N, WellFormedAt(out, p)
               PROVE  p + LengthAt(out, p) \in p + 1 .. N + 1
    BY <1>1
  <2>1. LengthAt(out, p) \in 1 .. 4
    BY DEF LengthAt
  <2>2. p + LengthAt(out, p) - 1 <= N
    BY DEF WellFormedAt
  <2> QED
    BY <1>1, <2>1, <2>2
<1> HIDE DEF F, b, nx, G, X, V, M
<1>6. PICK f : Jumps(f, M, X, G, nx, F, b)
  BY <1>1, <1>3, <1>4, <1>5, RecursionForward
<1>7. ASSUME NEW p \in 1 .. M
      PROVE  f[p] = IF p > N THEN << >>
                    ELSE IF ~ WellFormedAt(out, p) THEN << NoPoint >>
                    ELSE << CodePointAt(out, p) >> \o f[p + LengthAt(out, p)]
  <2>1. f[p] = IF p \in G THEN F[<< p, f[nx[p]] >>] ELSE b[p]
    BY <1>6 DEF Jumps
  <2>2. CASE p \in G
    <3>1. nx[p] = p + LengthAt(out, p) /\ nx[p] \in 1 .. M
      BY <1>1, <1>5, <2>2 DEF nx, M
    <3>2. f[nx[p]] \in X
      BY <1>6, <3>1 DEF Jumps
    <3>3. F[<< p, f[nx[p]] >>] = << CodePointAt(out, p) >> \o f[nx[p]]
      BY <3>2 DEF F
    <3>4. ~ p > N /\ WellFormedAt(out, p)
      BY <1>1, <2>2 DEF G
    <3> QED
      BY <2>1, <2>2, <3>1, <3>3, <3>4
  <2>3. CASE p \notin G
    <3>1. p > N \/ ~ WellFormedAt(out, p)
      BY <1>1, <2>3 DEF G, M
    <3> QED
      BY <2>1, <2>3, <3>1 DEF b
  <2> QED
    BY <2>2, <2>3
<1>8. f = Body(f)
  <2>1. DOMAIN f = 1 .. M /\ f = [p \in 1 .. M |-> f[p]]
    BY <1>6 DEF Jumps
  <2> QED
    BY <1>7, <2>1 DEF M, NoPoint
<1> DEFINE g == CHOOSE h : h = Body(h)
<1>9. Written = g[1]
  BY DEF Written
<1>10. g = Body(g)
  <2> HIDE DEF Body
  <2> QED
    BY <1>8
<1> HIDE DEF g
<1>11. g[N + 1] = << >>
  BY <1>1, <1>10
<1>12. \A p \in 1 .. N :
         g[p] = IF WellFormedAt(out, p) THEN << CodePointAt(out, p) >> \o g[p + LengthAt(out, p)]
                ELSE << NoPoint >>
  <2> SUFFICES ASSUME NEW p \in 1 .. N
               PROVE  g[p] = IF WellFormedAt(out, p) THEN << CodePointAt(out, p) >> \o g[p + LengthAt(out, p)]
                             ELSE << NoPoint >>
    OBVIOUS
  <2>1. p \in 1 .. N + 1 /\ ~ p > Len(out)
    BY <1>1
  <2>2. Body(g)[p] = IF ~ WellFormedAt(out, p) THEN << NoPoint >>
                     ELSE << CodePointAt(out, p) >> \o g[p + LengthAt(out, p)]
    BY <2>1 DEF NoPoint
  <2> HIDE DEF Body
  <2> QED
    BY <1>10, <2>2
<1>13. WrittenFrom(g)
  BY <1>11, <1>12 DEF WrittenFrom
<1> QED
  BY <1>9, <1>13

MeantFrom(f) ==
  /\ f[end] = << >>
  /\ \A p \in 1 .. end - 1 :
       f[p] = IF Whole(p) THEN << UnitValue(p) >> \o f[p + UnitSize(p)] ELSE << NoPoint >>

LEMMA UnitSizes ==
  ASSUME NEW p
  PROVE  UnitSize(p) \in 1 .. 10
<1>1. CASE raw(p) # Backslash
  BY <1>1 DEF UnitSize, LengthAt
<1>2. CASE raw(p) = Backslash /\ raw(p + 1) \notin Letters(Spelled)
  BY <1>2 DEF UnitSize, EscapeSize
<1>3. CASE raw(p) = Backslash /\ raw(p + 1) \in Letters(Spelled)
  <2>1. PICK e \in Spelled : e[1] = raw(p + 1)
    BY <1>3 DEF Letters
  <2>2. << raw(p + 1), e[2] >> \in Spelled
    BY <2>1 DEF Spelled
  <2>3. Digits(p) \in {2, 4, 8}
    BY <2>2, DigitsIs
  <2> QED
    BY <1>3, <2>3 DEF UnitSize, EscapeSize
<1> QED
  BY <1>1, <1>2, <1>3

LEMMA MeantDef ==
  ASSUME end \in Nat \ {0}
  PROVE  \E f : MeantFrom(f) /\ Meant = f[1]
<1> DEFINE M == end
           G == {p \in 1 .. M - 1 : Whole(p)}
           nx == [p \in 1 .. M |-> p + UnitSize(p)]
           V == {UnitValue(p) : p \in 1 .. M} \cup {NoPoint}
           X == Seq(V)
           F == [q \in (1 .. M) \X X |-> << UnitValue(q[1]) >> \o q[2]]
           b == [p \in 1 .. M |-> IF p = M THEN << >> ELSE << NoPoint >>]
           Body(f) == [p \in 1 .. end |->
             IF p = end THEN << >>
             ELSE IF ~ Whole(p) THEN << MaxCodePoint + 1 >>
             ELSE << UnitValue(p) >> \o f[p + UnitSize(p)]]
<1> HIDE DEF end
<1>1. M \in Nat \ {0}
  OBVIOUS
<1>2. \A p \in 1 .. M : UnitValue(p) \in V
  OBVIOUS
<1>3. F \in [(1 .. M) \X X -> X]
  <2> SUFFICES ASSUME NEW p \in 1 .. M, NEW x \in X
               PROVE  << UnitValue(p) >> \o x \in X
    OBVIOUS
  <2> HIDE DEF V
  <2> QED
    BY <1>2
<1>4. b \in [1 .. M -> X]
  <2>1. << NoPoint >> \in X /\ << >> \in X
    OBVIOUS
  <2> HIDE DEF X
  <2> QED
    BY <2>1
<1>5. \A p \in 1 .. M : p \in G => nx[p] \in p + 1 .. M
  <2> SUFFICES ASSUME NEW p \in 1 .. M - 1, Whole(p)
               PROVE  p + UnitSize(p) \in p + 1 .. M
    BY <1>1
  <2>1. UnitSize(p) \in 1 .. 10
    BY UnitSizes
  <2>2. p + UnitSize(p) <= M
    BY DEF Whole
  <2> QED
    BY <1>1, <2>1, <2>2
<1> HIDE DEF F, b, nx, G, X, V
<1>6. PICK f : Jumps(f, M, X, G, nx, F, b)
  BY <1>1, <1>3, <1>4, <1>5, RecursionForward
<1>7. ASSUME NEW p \in 1 .. M
      PROVE  f[p] = IF p = M THEN << >>
                    ELSE IF ~ Whole(p) THEN << NoPoint >>
                    ELSE << UnitValue(p) >> \o f[p + UnitSize(p)]
  <2>1. f[p] = IF p \in G THEN F[<< p, f[nx[p]] >>] ELSE b[p]
    BY <1>6 DEF Jumps
  <2>2. CASE p \in G
    <3>1. nx[p] = p + UnitSize(p)
      BY DEF nx
    <3>2. nx[p] \in 1 .. M
      <4>1. nx[p] \in p + 1 .. M
        BY <1>5, <2>2
      <4> QED
        BY <1>1, <4>1
    <3>3. f[nx[p]] \in X
      BY <1>6, <3>2 DEF Jumps
    <3>4. F[<< p, f[nx[p]] >>] = << UnitValue(p) >> \o f[nx[p]]
      BY <3>3 DEF F
    <3>5. p # M /\ Whole(p)
      BY <1>1, <2>2 DEF G
    <3> QED
      BY <2>1, <2>2, <3>1, <3>4, <3>5
  <2>3. CASE p \notin G
    <3>1. p = M \/ ~ Whole(p)
      BY <1>1, <2>3 DEF G
    <3> QED
      BY <2>1, <2>3, <3>1 DEF b
  <2> QED
    BY <2>2, <2>3
<1>8. f = Body(f)
  <2>1. DOMAIN f = 1 .. M /\ f = [p \in 1 .. M |-> f[p]]
    BY <1>6 DEF Jumps
  <2> QED
    BY <1>7, <2>1 DEF NoPoint
<1> DEFINE g == CHOOSE h : h = Body(h)
<1>9. Meant = g[1]
  BY DEF Meant
<1>10. g = Body(g)
  <2> HIDE DEF Body
  <2> QED
    BY <1>8
<1> HIDE DEF g
<1>11. g[end] = << >>
  BY <1>1, <1>10
<1>12. \A p \in 1 .. end - 1 :
         g[p] = IF Whole(p) THEN << UnitValue(p) >> \o g[p + UnitSize(p)] ELSE << NoPoint >>
  <2> SUFFICES ASSUME NEW p \in 1 .. end - 1
               PROVE  g[p] = IF Whole(p) THEN << UnitValue(p) >> \o g[p + UnitSize(p)]
                             ELSE << NoPoint >>
    OBVIOUS
  <2>1. p \in 1 .. end /\ p # end
    BY <1>1
  <2>2. Body(g)[p] = IF ~ Whole(p) THEN << NoPoint >>
                     ELSE << UnitValue(p) >> \o g[p + UnitSize(p)]
    BY <2>1 DEF NoPoint
  <2> HIDE DEF Body
  <2> QED
    BY <1>10, <2>2
<1>13. MeantFrom(g)
  BY <1>11, <1>12 DEF MeantFrom
<1> QED
  BY <1>9, <1>13

LEMMA TokenFixed ==
  token' = token =>
    \A p : /\ raw(p)' = raw(p) /\ UnitSize(p)' = UnitSize(p)
           /\ UnitValue(p)' = UnitValue(p) /\ Whole(p)' = Whole(p) /\ end' = end
<1> SUFFICES ASSUME token' = token, NEW p
    PROVE /\ raw(p)' = raw(p) /\ UnitSize(p)' = UnitSize(p)
           /\ UnitValue(p)' = UnitValue(p) /\ Whole(p)' = Whole(p) /\ end' = end
  OBVIOUS
<1>1. \A q : raw(q)' = raw(q)
  BY DEF raw
<1>2. end' = end
  BY DEF end
<1>3. Digits(p)' = Digits(p)
  BY DEF Digits, raw
<1>4. EscapeSize(p)' = EscapeSize(p)
  BY <1>1, <1>3 DEF EscapeSize
<1>5. EscapeValue(p)' = EscapeValue(p)
  BY DEF EscapeValue, Digits, Digit, raw
<1>6. UnitSize(p)' = UnitSize(p)
  BY <1>1, <1>4 DEF UnitSize
<1>7. UnitValue(p)' = UnitValue(p)
  BY <1>1, <1>5 DEF UnitValue
<1>8. Whole(p)' = Whole(p)
  BY <1>1, <1>2, <1>6, SMTT(30) DEF Whole
<1> QED
  BY <1>1, <1>2, <1>6, <1>7, <1>8

(* An escape without digits has the value that is listed for it. *)
LEMMA ListedValue ==
  ASSUME NEW p, NEW e \in Escapes \cup Named, e[1] = raw(p + 1)
  PROVE  EscapeValue(p) = e[2] /\ EscapeSize(p) = 2
<1>1. raw(p + 1) \notin Letters(Spelled)
  BY LettersDiffer
<1> DEFINE P(n) == << raw(p + 1), n >> \in Escapes \cup Named
           m == CHOOSE n \in Listed : P(n)
<1>2. e[2] \in Listed /\ P(e[2])
  <2>1. e[1] = raw(p + 1) /\ e = << e[1], e[2] >>
    BY DEF Escapes, Named
  <2> QED
    BY <2>1 DEF Listed
<1>3. ASSUME NEW n \in Listed, P(n) PROVE n = e[2]
  BY <1>3 DEF Escapes, Named
<1>5. m = e[2]
  <2> HIDE DEF P
  <2> QED
    BY <1>2, <1>3
<1> QED
  BY <1>1, <1>5, Zenon DEF EscapeValue, EscapeSize

(* One with digits has the value that they spell. *)
LEMMA SpelledValue ==
  ASSUME NEW p, NEW n \in {2, 4, 8}, Digits(p) = n, raw(p + 1) \in Letters(Spelled),
         \A j \in 1 .. n : Digit(p, j) \in 0 .. 15
  PROVE  EscapeValue(p) = Spelt(p, n) /\ EscapeSize(p) = 2 + n
<1> DEFINE Body(f) == [j \in 0 .. n |-> IF j = 0 THEN 0 ELSE 16 * f[j - 1] + Digit(p, j)]
           f == [j \in 0 .. n |-> Spelt(p, j)]
           g == CHOOSE h : h = Body(h)
<1>1. EscapeValue(p) = g[n] /\ EscapeSize(p) = 2 + n
  BY DEF EscapeValue, EscapeSize
<1>2. f = Body(f)
  <2> SUFFICES ASSUME NEW j \in 0 .. n
               PROVE  Spelt(p, j) = IF j = 0 THEN 0 ELSE 16 * f[j - 1] + Digit(p, j)
    OBVIOUS
  <2>1. CASE j = 0
    BY <2>1 DEF Spelt
  <2>2. CASE j # 0
    <3>1. j - 1 \in 0 .. 7 /\ j - 1 \in 0 .. n /\ (j - 1) + 1 = j /\ j \in 1 .. n
      BY <2>2
    <3>2. Digit(p, (j - 1) + 1) \in 0 .. 15
      BY <3>1
    <3>3. Spelt(p, (j - 1) + 1) = 16 * Spelt(p, j - 1) + Digit(p, (j - 1) + 1)
      BY <3>1, <3>2, SpeltNext, SMTT(30)
    <3>4. f[j - 1] = Spelt(p, j - 1)
      BY <3>1
    <3> HIDE DEF f
    <3> QED
      BY <2>2, <3>1, <3>3, <3>4
  <2> QED
    BY <2>1, <2>2
<1>3. g = Body(g)
  <2> HIDE DEF Body, f
  <2> QED
    BY <1>2
<1> HIDE DEF g
<1> DEFINE G == {j \in 0 .. n : g[j] = Spelt(p, j)}
<1>4. 0 \in G
  <2>1. g[0] = 0
    BY <1>3
  <2> QED
    BY <2>1 DEF Spelt
<1>5. ASSUME NEW j \in 0 .. n - 1, j \in G PROVE j + 1 \in G
  <2>1. j + 1 \in 0 .. n /\ j + 1 # 0 /\ (j + 1) - 1 = j /\ j \in 0 .. 7 /\ j + 1 \in 1 .. n
    BY SMTT(30)
  <2>2. Body(g)[j + 1] = 16 * g[j] + Digit(p, j + 1)
    BY <2>1
  <2>3. g[j + 1] = 16 * g[j] + Digit(p, j + 1)
    <3> HIDE DEF Body
    <3> QED
      BY <1>3, <2>2
  <2>4. Spelt(p, j + 1) = 16 * Spelt(p, j) + Digit(p, j + 1)
    BY <2>1, SpeltNext
  <2>5. g[j] = Spelt(p, j)
    BY <1>5
  <2> HIDE DEF Body
  <2> QED
    BY <2>1, <2>3, <2>4, <2>5
<1> HIDE DEF G, Body
<1>6. 0 .. n \subseteq G
  BY <1>4, <1>5, AllUpTo
<1>7. g[n] = Spelt(p, n)
  BY <1>6 DEF G
<1> QED
  BY <1>1, <1>7

(* What PutCodePoint writes is what the escape spells. *)
LEMMA SpelledRead ==
  ASSUME IInv, Judged, pc = "hex", k = i + 2 + digits, ~ Refused(cp)
  PROVE  EscapeValue(i) = cp /\ EscapeSize(i) = 2 + digits
<1>1. /\ Digits(i) = digits /\ digits \in {2, 4, 8} /\ raw(i + 1) \in Letters(Spelled)
      /\ i + 2 + digits <= end /\ i \in Nat /\ end \in Nat /\ k - (i + 2) = digits
      /\ cp \in Nat
  BY Reading, Standing
<1>2. \A j \in 1 .. digits : Digit(i, j) \in 0 .. 15
  <2> SUFFICES ASSUME NEW j \in 1 .. digits PROVE Digit(i, j) \in 0 .. 15
    OBVIOUS
  <2>1. i + 1 + j \in i + 2 .. k - 1 /\ 0 <= i + 1 + j /\ i + 1 + j <= end
        /\ i + 1 + j \in Int
    BY <1>1
  <2>2. raw(i + 1 + j) \in Byte /\ IsHex(raw(i + 1 + j))
    BY <2>1, RawByte DEF Judged
  <2> QED
    BY <2>2, HexDigitRange DEF Digit
<1>3. EscapeValue(i) = Spelt(i, digits) /\ EscapeSize(i) = 2 + digits
  BY <1>1, <1>2, SpelledValue
<1>4. Agrees(Spelt(i, digits))
  BY <1>1 DEF Judged
<1>5. cp = Spelt(i, digits)
  BY <1>1, <1>4 DEF Agrees, Refused, MaxCodePoint
<1> QED
  BY <1>3, <1>5

-----------------------------------------------------------------------------
(***************************************************************************)
(* What o, written for the token before j, and the token say so far: Pairs *)
(* holds the places of o and of the token at which the same code points    *)
(* start, up to s and p.  From there on o holds bytes of a character that  *)
(* is not whole yet, or both are malformed there for good.                 *)
(***************************************************************************)
Same(o, s, p) ==
  /\ s \in 1 .. Len(o) /\ p \in 1 .. end - 1
  /\ WellFormedAt(o, s) /\ Whole(p)
  /\ CodePointAt(o, s) = UnitValue(p)

Paired(o, Pairs, s, p) ==
  /\ << 1, 1 >> \in Pairs /\ << s, p >> \in Pairs
  /\ \A q \in Pairs :
       /\ q \in Nat \X Nat
       /\ q # << s, p >> =>
            /\ Same(o, q[1], q[2])
            /\ << q[1] + LengthAt(o, q[1]), q[2] + UnitSize(q[2]) >> \in Pairs

Copying(o, j, s, p) ==
  /\ s \in Nat \ {0} /\ p \in 1 .. j
  /\ Len(o) + 1 = s + (j - p)
  /\ \A x \in 0 .. j - p - 1 : o[s + x] = raw(p + x) /\ raw(p + x) # Backslash
  /\ p < j => j - p < LengthAt(token.text, p + 1)

Spoilt(o, s) == s \in 1 .. Len(o) /\ \A bs \in Seq(Byte) : ~ WellFormedAt(o \o bs, s)

Broken(o, s, p) == p \in 1 .. end - 1 /\ ~ Whole(p) /\ Spoilt(o, s)

Corresponds(o, j, Pairs, s, p) ==
  /\ Paired(o, Pairs, s, p)
  /\ Copying(o, j, s, p) \/ Broken(o, s, p)

FaithfulAt(o, j) == \E Pairs, s, p : Corresponds(o, j, Pairs, s, p)

Faithful == FaithfulAt(out, i)

(* Bytes that follow change nothing of what is there. *)
LEMMA ReadsLikewise ==
  ASSUME NEW o \in Seq(Byte), NEW bs \in Seq(Byte), NEW s \in 1 .. Len(o),
         s + LengthAt(o, s) - 1 <= Len(o)
  PROVE  /\ LengthAt(o \o bs, s) = LengthAt(o, s)
         /\ WellFormedAt(o \o bs, s) <=> WellFormedAt(o, s)
         /\ CodePointAt(o \o bs, s) = CodePointAt(o, s)
<1> DEFINE t == o \o bs
           n == LengthAt(o, s)
<1>1. t \in Seq(Byte) /\ Len(t) = Len(o) + Len(bs) /\ \A y \in 1 .. Len(o) : t[y] = o[y]
  OBVIOUS
<1>2. Len(o) \in Nat /\ Len(bs) \in Nat
  OBVIOUS
<1>3. n \in 1 .. 4
  BY DEF LengthAt
<1> HIDE DEF t
<1>4. SameBytes(o, s, t, s, n)
  <2> SUFFICES ASSUME NEW x \in 0 .. n - 1 PROVE o[s + x] = t[s + x]
    BY DEF SameBytes
  <2>1. s + x \in 1 .. Len(o)
    BY <1>2, <1>3
  <2> QED
    BY <1>1, <2>1
<1>5. s \in 1 .. Len(t) /\ s + n - 1 <= Len(t)
  BY <1>1, <1>2, <1>3
<1>6. /\ LengthAt(t, s) = n
      /\ WellFormedAt(t, s) <=> WellFormedAt(o, s)
      /\ CodePointAt(t, s) = CodePointAt(o, s)
  BY <1>1, <1>4, <1>5, SameReads
<1> QED
  BY <1>6 DEF t

LEMMA SpoiltGrows ==
  ASSUME NEW o \in Seq(Byte), NEW bs \in Seq(Byte), NEW s, Spoilt(o, s)
  PROVE  Spoilt(o \o bs, s)
<1>1. s \in 1 .. Len(o \o bs)
  BY DEF Spoilt
<1>2. ASSUME NEW cs \in Seq(Byte) PROVE ~ WellFormedAt((o \o bs) \o cs, s)
  <2>1. (o \o bs) \o cs = o \o (bs \o cs) /\ bs \o cs \in Seq(Byte)
    OBVIOUS
  <2> QED
    BY <2>1 DEF Spoilt
<1> QED
  BY <1>1, <1>2 DEF Spoilt

LEMMA SameGrows ==
  ASSUME NEW o \in Seq(Byte), NEW bs \in Seq(Byte), NEW s, NEW p, Same(o, s, p)
  PROVE  Same(o \o bs, s, p) /\ LengthAt(o \o bs, s) = LengthAt(o, s)
<1>1. s \in 1 .. Len(o) /\ s + LengthAt(o, s) - 1 <= Len(o)
  BY DEF Same, WellFormedAt
<1>2. /\ LengthAt(o \o bs, s) = LengthAt(o, s)
      /\ WellFormedAt(o \o bs, s) <=> WellFormedAt(o, s)
      /\ CodePointAt(o \o bs, s) = CodePointAt(o, s)
  BY <1>1, ReadsLikewise
<1>3. s \in 1 .. Len(o \o bs)
  BY <1>1
<1> QED
  BY <1>2, <1>3 DEF Same

LEMMA PairsGrow ==
  ASSUME NEW o \in Seq(Byte), NEW bs \in Seq(Byte), NEW Pairs, NEW s, NEW p,
         Paired(o, Pairs, s, p)
  PROVE  Paired(o \o bs, Pairs, s, p)
<1> SUFFICES ASSUME NEW q \in Pairs, q # << s, p >>
             PROVE  /\ Same(o \o bs, q[1], q[2])
                    /\ << q[1] + LengthAt(o \o bs, q[1]), q[2] + UnitSize(q[2]) >> \in Pairs
  BY DEF Paired
<1>1. /\ Same(o, q[1], q[2])
      /\ << q[1] + LengthAt(o, q[1]), q[2] + UnitSize(q[2]) >> \in Pairs
  BY DEF Paired
<1>2. Same(o \o bs, q[1], q[2]) /\ LengthAt(o \o bs, q[1]) = LengthAt(o, q[1])
  BY <1>1, SameGrows
<1> QED
  BY <1>1, <1>2

(* One more pair. *)
LEMMA PairAdded ==
  ASSUME NEW o \in Seq(Byte), NEW Pairs, NEW s, NEW p, Paired(o, Pairs, s, p), Same(o, s, p),
         NEW s2, NEW p2, s2 = s + LengthAt(o, s), p2 = p + UnitSize(p)
  PROVE  \E P : Paired(o, P, s2, p2)
<1> DEFINE P == Pairs \cup {<< s2, p2 >>}
<1>1. s \in Nat /\ p \in Nat
  BY DEF Paired
<1>2. s2 \in Nat /\ p2 \in Nat
  BY <1>1, UnitSizes DEF LengthAt
<1>3. << 1, 1 >> \in P /\ << s2, p2 >> \in P
  BY DEF Paired
<1>4. ASSUME NEW q \in P
      PROVE  /\ q \in Nat \X Nat
             /\ q # << s2, p2 >> =>
                  /\ Same(o, q[1], q[2])
                  /\ << q[1] + LengthAt(o, q[1]), q[2] + UnitSize(q[2]) >> \in P
  <2>1. CASE q = << s2, p2 >>
    BY <1>2, <2>1
  <2>2. CASE q \in Pairs /\ q = << s, p >>
    BY <1>1, <2>2
  <2>3. CASE q \in Pairs /\ q # << s, p >>
    BY <2>3 DEF Paired
  <2> QED
    BY <2>1, <2>2, <2>3
<1>5. Paired(o, P, s2, p2)
  BY <1>3, <1>4 DEF Paired
<1> QED
  BY <1>5

(* What is malformed stays so, whatever is written and read after it. *)
LEMMA BrokenStays ==
  ASSUME NEW o \in Seq(Byte), NEW bs \in Seq(Byte), NEW Pairs, NEW s, NEW p, NEW j,
         Paired(o, Pairs, s, p), Broken(o, s, p)
  PROVE  FaithfulAt(o \o bs, j)
<1>1. Paired(o \o bs, Pairs, s, p)
  BY PairsGrow
<1>2. Broken(o \o bs, s, p)
  BY SpoiltGrows DEF Broken
<1> QED
  BY <1>1, <1>2 DEF FaithfulAt, Corresponds

(* A code point is written at once, for an escape that follows whole units. *)
LEMMA EscapeWritten ==
  ASSUME IInv, i < end, raw(i) = Backslash, NEW Pairs, NEW s, Paired(out, Pairs, s, i),
         s = Len(out) + 1, NEW n \in Nat, ~ Refused(n), EscapeValue(i) = n,
         NEW j, j = i + EscapeSize(i), j <= end
  PROVE  FaithfulAt(out \o Utf8(n), j)
<1> DEFINE bs == Utf8(n)
           o == out \o bs
           l == LengthAt(bs, 1)
<1>0. /\ out \in Seq(Byte) /\ Len(out) \in Nat /\ s \in Nat \ {0}
      /\ i \in Nat /\ 1 <= i /\ end \in Nat
  BY Standing DEF IInv, TypeOK
<1>1. ReadsAs(bs, 1, n) /\ bs \in Seq(Byte) /\ Len(bs) \in Nat
  <2>1. n <= MaxCodePoint
    BY DEF Refused, MaxCodePoint
  <2> QED
    BY <2>1, Utf8Reads, Utf8Bytes
<1>2. l \in 1 .. 4 /\ l = Len(bs) /\ WellFormedAt(bs, 1) /\ CodePointAt(bs, 1) = n
  <2>1. l \in 1 .. 4
    BY DEF LengthAt
  <2> HIDE DEF bs
  <2> QED
    BY <1>1, <2>1 DEF ReadsAs
<1> HIDE DEF bs
<1>3. o \in Seq(Byte) /\ Len(o) = Len(out) + l
  BY <1>0, <1>1, <1>2
<1>4. SameBytes(bs, 1, o, s, l)
  <2> SUFFICES ASSUME NEW x \in 0 .. l - 1 PROVE bs[1 + x] = o[s + x]
    BY DEF SameBytes
  <2> HIDE DEF l
  <2> QED
    BY <1>0, <1>1, <1>2
<1>5. s \in 1 .. Len(o) /\ s + l - 1 <= Len(o) /\ 1 \in 1 .. Len(bs) /\ 1 + l - 1 <= Len(bs)
  <2> HIDE DEF l, o
  <2> QED
    BY <1>0, <1>2, <1>3
<1> HIDE DEF o
<1>6. LengthAt(o, s) = l /\ WellFormedAt(o, s) /\ CodePointAt(o, s) = n
  BY <1>1, <1>2, <1>3, <1>4, <1>5, SameReads
<1>7. UnitSize(i) = EscapeSize(i) /\ UnitValue(i) = n
  BY DEF UnitSize, UnitValue
<1>8. Same(o, s, i)
  <2>1. Whole(i)
    BY <1>7 DEF Whole
  <2>2. i \in 1 .. end - 1
    BY <1>0
  <2> QED
    BY <1>5, <1>6, <1>7, <2>1, <2>2 DEF Same
<1>9. Paired(o, Pairs, s, i)
  BY <1>0, <1>1, PairsGrow DEF o
<1> HIDE DEF l
<1>10. j \in Nat \ {0} /\ s + l \in Nat \ {0} /\ Len(o) + 1 = s + l
  <2>1. UnitSize(i) \in 1 .. 10
    BY UnitSizes
  <2>2. j \in Nat \ {0}
    BY <1>0, <1>7, <2>1
  <2>3. s + l \in Nat \ {0} /\ Len(o) + 1 = s + l
    BY <1>0, <1>2, <1>3
  <2> QED
    BY <2>2, <2>3
<1>11. PICK P : Paired(o, P, s + l, j)
  <2>1. s + l = s + LengthAt(o, s) /\ j = i + UnitSize(i)
    BY <1>6, <1>7
  <2> QED
    BY <1>3, <1>8, <1>9, <2>1, PairAdded
<1>12. Copying(o, j, s + l, j)
  BY <1>10 DEF Copying
<1>13. FaithfulAt(o, j)
  BY <1>11, <1>12 DEF FaithfulAt, Corresponds
<1> QED
  BY <1>13 DEF o, bs

(* An escape in the middle of a character leaves it malformed. *)
LEMMA EscapeBreaks ==
  ASSUME IInv, i < end, raw(i) = Backslash, NEW Pairs, NEW s, NEW p, Paired(out, Pairs, s, p),
         Copying(out, i, s, p), p # i, NEW n \in Nat, ~ Refused(n), NEW j
  PROVE  FaithfulAt(out \o Utf8(n), j)
<1> DEFINE bs == Utf8(n)
           o == out \o bs
           l == LengthAt(token.text, p + 1)
           c == i - p
           N == Len(out)
<1>0. /\ out \in Seq(Byte) /\ N \in Nat /\ s \in Nat \ {0} /\ l \in 1 .. 4
      /\ i \in Nat /\ p \in Nat \ {0} /\ end \in Nat /\ IsToken(token) /\ Size(token) = end + 1
  BY Standing, SMTT(30) DEF IInv, TypeOK, Copying, LengthAt
<1>1. bs \in Seq(Byte) /\ Len(bs) \in 1 .. 4 /\ bs[1] \notin 128 .. 191
  <2>1. n <= MaxCodePoint
    BY DEF Refused, MaxCodePoint
  <2> QED
    BY <2>1, Utf8First, Utf8Bytes
<1>2. /\ c \in 1 .. l - 1 /\ N + 1 = s + c /\ p \in 1 .. end - 1 /\ p <= i
      /\ \A x \in 0 .. c - 1 : out[s + x] = raw(p + x)
      /\ raw(p) # Backslash
  <2>1. /\ p \in 1 .. i /\ p < i /\ Len(out) + 1 = s + (i - p)
        /\ \A x \in 0 .. i - p - 1 : out[s + x] = raw(p + x) /\ raw(p + x) # Backslash
        /\ i - p < LengthAt(token.text, p + 1)
    BY <1>0 DEF Copying
  <2>2. 0 \in 0 .. i - p - 1 /\ p + 0 = p
    BY <1>0, <2>1
  <2>3. raw(p) # Backslash
    BY <2>1, <2>2
  <2>4. c \in 1 .. l - 1 /\ p \in 1 .. end - 1
    <3>1. i - p < l
      BY <2>1
    <3> HIDE DEF l, N
    <3> QED
      BY <1>0, <2>1, <3>1
  <2> QED
    BY <2>1, <2>3, <2>4
<1>3. UnitSize(p) = l
  BY <1>2 DEF UnitSize
<1> HIDE DEF bs, l, c
<1>4. ~ Whole(p)
  <2>1. CASE p + l > end
    BY <1>0, <1>2, <1>3, <2>1 DEF Whole
  <2>2. CASE p + l <= end
    <3>1. i + 1 \in (p + 1) + 1 .. (p + 1) + l - 1
      BY <1>0, <1>2 DEF c
    <3>2. token.text[i + 1] = Backslash
      BY DEF raw, At
    <3>3. token.text[i + 1] \notin 128 .. 191
      BY <3>2 DEF Backslash
    <3>4. ~ WellFormedAt(token.text, p + 1)
      BY <3>1, <3>3, ZenonT(40) DEF WellFormedAt, l
    <3> QED
      BY <1>2, <3>4 DEF Whole
  <2> QED
    BY <1>0, <2>1, <2>2
<1>5. Spoilt(o, s)
  <2>1. s \in 1 .. N
    <3> HIDE DEF N
    <3> QED
      BY <1>0, <1>2
  <2>2. /\ o \in Seq(Byte) /\ s \in 1 .. Len(o) /\ N + 1 \in 1 .. Len(o)
        /\ o[N + 1] = bs[1] /\ o[s] = out[s]
    <3>1. Len(o) = N + Len(bs) /\ o \in Seq(Byte)
      BY <1>0, <1>1
    <3>2. o[s] = out[s]
      BY <1>0, <1>1, <2>1
    <3>3. o[N + 1] = bs[1]
      <4>1. \A x \in 1 .. Len(bs) : o[N + x] = bs[x]
        BY <1>0, <1>1
      <4> DEFINE b == Len(bs)
      <4>2. b \in 1 .. 4
        BY <1>1
      <4> HIDE DEF o, N, b
      <4>3. 1 \in 1 .. b
        BY <4>2
      <4> QED
        BY <4>1, <4>3 DEF b
    <3> DEFINE b == Len(bs)
               m == Len(o)
    <3>4. b \in 1 .. 4 /\ m = N + b
      BY <1>1, <3>1
    <3> HIDE DEF N, o, b, m
    <3>5. s \in 1 .. m /\ N + 1 \in 1 .. m
      BY <1>0, <2>1, <3>4
    <3> QED
      BY <3>1, <3>2, <3>3, <3>5 DEF m
  <2>3. o[s] = raw(p)
    <3>1. 0 \in 0 .. c - 1 /\ s + 0 = s /\ p + 0 = p
      BY <1>0, <1>2
    <3> QED
      BY <1>2, <2>2, <3>1
  <2> HIDE DEF o
  <2>4. ASSUME NEW cs \in Seq(Byte) PROVE ~ WellFormedAt(o \o cs, s)
    <3> DEFINE t == o \o cs
    <3>1. t[s] = raw(p) /\ t[N + 1] \notin 128 .. 191
      <4>1. t[s] = o[s] /\ t[N + 1] = o[N + 1]
        BY <2>2
      <4> QED
        BY <1>1, <2>2, <2>3, <4>1
    <3> HIDE DEF t
    <3>2. LengthAt(t, s) = l
      BY <3>1 DEF l, LengthAt, raw, At
    <3>3. N + 1 \in s + 1 .. s + l - 1
      BY <1>0, <1>2
    <3>4. ~ WellFormedAt(t, s)
      BY <3>1, <3>2, <3>3, ZenonT(40) DEF WellFormedAt
    <3> QED
      BY <3>4 DEF t
  <2> QED
    BY <2>2, <2>4 DEF Spoilt
<1>6. Paired(o, Pairs, s, p)
  BY <1>0, <1>1, PairsGrow
<1>7. FaithfulAt(o, j)
  BY <1>2, <1>4, <1>5, <1>6 DEF FaithfulAt, Corresponds, Broken
<1> QED
  BY <1>7 DEF bs

LEMMA EscapePut ==
  ASSUME IInv, i < end, raw(i) = Backslash, Faithful, NEW n \in Nat, ~ Refused(n),
         EscapeValue(i) = n, NEW j, j = i + EscapeSize(i), j <= end
  PROVE  FaithfulAt(out \o Utf8(n), j)
<1>1. PICK Pairs, s, p : Corresponds(out, i, Pairs, s, p)
  BY DEF Faithful, FaithfulAt
<1>2. out \in Seq(Byte) /\ Utf8(n) \in Seq(Byte) /\ i \in Nat
  <2>1. n <= MaxCodePoint
    BY DEF Refused, MaxCodePoint
  <2> QED
    BY <2>1, Utf8Bytes DEF IInv, TypeOK
<1>3. CASE Broken(out, s, p)
  BY <1>1, <1>2, <1>3, BrokenStays DEF Corresponds
<1>4. CASE Copying(out, i, s, p) /\ p # i
  BY <1>1, <1>4, EscapeBreaks DEF Corresponds
<1>5. CASE Copying(out, i, s, p) /\ p = i
  <2>1. s = Len(out) + 1
    <3>1. s \in Nat /\ Len(out) + 1 = s + (i - i)
      BY <1>5 DEF Copying
    <3> QED
      BY <1>2, <3>1
  <2> QED
    BY <1>1, <1>5, <2>1, EscapeWritten DEF Corresponds
<1> QED
  BY <1>1, <1>3, <1>4, <1>5 DEF Corresponds

(* All n bytes at s are there, and they are malformed. *)
LEMMA SpoiltWithin ==
  ASSUME NEW o \in Seq(Byte), NEW s \in 1 .. Len(o), s + LengthAt(o, s) - 1 <= Len(o),
         ~ WellFormedAt(o, s)
  PROVE  Spoilt(o, s)
<1> SUFFICES ASSUME NEW bs \in Seq(Byte) PROVE ~ WellFormedAt(o \o bs, s)
  BY DEF Spoilt
<1> QED
  BY ReadsLikewise

(* A byte is copied. *)
LEMMA CharCopied ==
  ASSUME IInv, i < end, raw(i) # Backslash, Faithful
  PROVE  FaithfulAt(out \o << raw(i) >>, i + 1)
<1>1. PICK Pairs, s, p : Corresponds(out, i, Pairs, s, p)
  BY DEF Faithful, FaithfulAt
<1> DEFINE bs == << raw(i) >>
           o == out \o bs
           l == LengthAt(token.text, p + 1)
           c == i - p
           N == Len(out)
<1>2. /\ out \in Seq(Byte) /\ N \in Nat /\ i \in Nat /\ end \in Nat /\ IsToken(token)
      /\ Size(token) = end + 1 /\ token.text \in Seq(Byte) /\ Len(token.text) = end + 1
      /\ l \in 1 .. 4
  BY Standing DEF IInv, TypeOK, LengthAt, IsToken, Size
<1>3. bs \in Seq(Byte)
  BY <1>2, RawByte
<1>4. Paired(o, Pairs, s, p)
  BY <1>1, <1>2, <1>3, PairsGrow DEF Corresponds
<1>5. CASE Broken(out, s, p)
  BY <1>1, <1>2, <1>3, <1>5, BrokenStays DEF Corresponds
<1>6. CASE Copying(out, i, s, p)
  <2>1. /\ s \in Nat \ {0} /\ p \in 1 .. i /\ N + 1 = s + c
        /\ \A x \in 0 .. c - 1 : out[s + x] = raw(p + x) /\ raw(p + x) # Backslash
        /\ p < i => c < l
    BY <1>6 DEF Copying
  <2>2. o \in Seq(Byte) /\ Len(o) = N + 1 /\ o[N + 1] = raw(i) /\ \A y \in 1 .. N : o[y] = out[y]
    BY <1>2, <1>3
  <2>3. /\ c \in 0 .. l - 1 /\ c + 1 \in 1 .. l /\ (i + 1) - p = c + 1 /\ p + c = i
        /\ p \in 1 .. end - 1 /\ p \in 1 .. i + 1 /\ p \in Nat
    <3> HIDE DEF l
    <3> QED
      BY <1>2, <2>1
  <2> HIDE DEF o, l, bs
  <2>4. ASSUME NEW x \in 0 .. c
        PROVE  o[s + x] = raw(p + x) /\ raw(p + x) # Backslash
    <3>1. CASE x = c
      BY <2>1, <2>2, <2>3, <3>1
    <3>2. CASE x # c
      <4>1. x \in 0 .. c - 1 /\ s + x \in 1 .. N
        <5> HIDE DEF N
        <5> QED
          BY <1>2, <2>1, <2>3, <3>2
      <4> QED
        BY <2>1, <2>2, <4>1
    <3> QED
      BY <3>1, <3>2
  <2> HIDE DEF c, N
  <2>5. CASE c + 1 < l
    <3>1. Len(o) + 1 = s + ((i + 1) - p)
      BY <1>2, <2>1, <2>2, <2>3, SMTT(30)
    <3>2. \A x \in 0 .. (i + 1) - p - 1 : o[s + x] = raw(p + x) /\ raw(p + x) # Backslash
      BY <2>3, <2>4
    <3>3. Copying(o, i + 1, s, p)
      BY <2>1, <2>3, <2>5, <3>1, <3>2 DEF Copying, l
    <3> QED
      BY <1>4, <3>3 DEF FaithfulAt, Corresponds, o, bs
  <2>6. CASE c + 1 = l
    <3>1. o[s] = raw(p) /\ raw(p) # Backslash
      <4>1. 0 \in 0 .. c /\ s + 0 = s /\ p + 0 = p
        BY <2>1, <2>3
      <4> QED
        BY <2>4, <4>1
    <3>2. LengthAt(o, s) = l
      BY <3>1 DEF LengthAt, l, raw, At
    <3>3. /\ s \in 1 .. Len(o) /\ s + l - 1 = Len(o) /\ p + 1 \in 1 .. end + 1
          /\ (p + 1) + l - 1 <= end + 1 /\ p + l = i + 1 /\ p + l <= end
      BY <1>2, <2>1, <2>2, <2>3, <2>6
    <3>4. SameBytes(o, s, token.text, p + 1, l)
      <4> SUFFICES ASSUME NEW x \in 0 .. l - 1 PROVE o[s + x] = token.text[(p + 1) + x]
        BY DEF SameBytes
      <4>1. x \in 0 .. c /\ (p + 1) + x = (p + x) + 1
        BY <2>3, <2>6
      <4>2. o[s + x] = raw(p + x)
        BY <2>4, <4>1
      <4> QED
        BY <4>1, <4>2 DEF raw, At
    <3>5. /\ WellFormedAt(token.text, p + 1) <=> WellFormedAt(o, s)
          /\ CodePointAt(token.text, p + 1) = CodePointAt(o, s)
      <4>1. /\ s + LengthAt(o, s) - 1 <= Len(o) /\ (p + 1) + LengthAt(o, s) - 1 <= Len(token.text)
            /\ p + 1 \in 1 .. Len(token.text) /\ SameBytes(o, s, token.text, p + 1, LengthAt(o, s))
        <5>1. s + l - 1 <= Len(o)
          BY <2>2, <3>3, <1>2
        <5> QED
          BY <1>2, <3>2, <3>3, <3>4, <5>1
      <4> QED
        BY <1>2, <2>2, <3>3, <4>1, SameReads, SMTT(30)
    <3>6. UnitSize(p) = l /\ UnitValue(p) = CodePointAt(o, s) /\ (Whole(p) <=> WellFormedAt(o, s))
      <4>1. UnitSize(p) = l /\ UnitValue(p) = CodePointAt(o, s)
        BY <3>1, <3>5 DEF UnitSize, UnitValue, l
      <4> QED
        BY <3>1, <3>3, <3>5, <4>1 DEF Whole
    <3>7. CASE WellFormedAt(o, s)
      <4>1. Same(o, s, p)
        BY <2>3, <3>3, <3>6, <3>7 DEF Same
      <4>2. PICK P : Paired(o, P, s + l, i + 1)
        <5>1. s + l = s + LengthAt(o, s) /\ i + 1 = p + UnitSize(p)
          BY <3>2, <3>3, <3>6
        <5> QED
          BY <1>4, <2>2, <4>1, <5>1, PairAdded
      <4>3. Copying(o, i + 1, s + l, i + 1)
        <5>1. s + l \in Nat \ {0} /\ i + 1 \in 1 .. i + 1 /\ Len(o) + 1 = (s + l) + ((i + 1) - (i + 1))
          BY <1>2, <2>1, <2>2, <3>3
        <5> QED
          BY <1>2, <5>1 DEF Copying
      <4> QED
        BY <4>2, <4>3 DEF FaithfulAt, Corresponds, o, bs
    <3>8. CASE ~ WellFormedAt(o, s)
      <4>1. Spoilt(o, s)
        <5>1. s + LengthAt(o, s) - 1 <= Len(o)
          BY <1>2, <2>2, <3>2, <3>3
        <5> QED
          BY <2>2, <3>3, <3>8, <5>1, SpoiltWithin
      <4>2. Broken(o, s, p)
        BY <2>3, <3>6, <3>8, <4>1 DEF Broken
      <4> QED
        BY <1>4, <4>2 DEF FaithfulAt, Corresponds, o, bs
    <3> QED
      BY <3>7, <3>8
  <2> QED
    BY <1>2, <2>3, <2>5, <2>6
<1> QED
  BY <1>1, <1>5, <1>6 DEF Corresponds

(* The same, of the next state. *)
LEMMA FaithfulNext ==
  ASSUME token' = token, FaithfulAt(out', i')
  PROVE  Faithful'
<1>1. \A p : /\ raw(p)' = raw(p) /\ UnitSize(p)' = UnitSize(p)
             /\ UnitValue(p)' = UnitValue(p) /\ Whole(p)' = Whole(p) /\ end' = end
  BY TokenFixed
<1>2. PICK Pairs, s, p : Corresponds(out', i', Pairs, s, p)
  BY DEF FaithfulAt
<1>3. \A a, b : Same(out, a, b)' <=> Same(out', a, b)
  BY <1>1 DEF Same
<1>4. Paired(out, Pairs, s, p)' <=> Paired(out', Pairs, s, p)
  BY <1>1, <1>3 DEF Paired
<1>5. Copying(out, i, s, p)' <=> Copying(out', i', s, p)
  BY <1>1 DEF Copying
<1>6. Broken(out, s, p)' <=> Broken(out', s, p)
  BY <1>1 DEF Broken, Spoilt
<1>7. Corresponds(out, i, Pairs, s, p)'
  BY <1>2, <1>4, <1>5, <1>6 DEF Corresponds
<1> QED
  BY <1>7 DEF Faithful, FaithfulAt

LEMMA InitFaithful == Init => Faithful
<1> SUFFICES ASSUME Init PROVE Faithful
  OBVIOUS
<1>1. Paired(out, {<< 1, 1 >>}, 1, 1)
  BY DEF Paired
<1>2. Copying(out, i, 1, 1)
  BY DEF Copying, Init
<1> QED
  BY <1>1, <1>2 DEF Faithful, FaithfulAt, Corresponds

LEMMA NextFaithful == IInv /\ Judged /\ Faithful /\ [Next]_vars => Faithful'
<1> SUFFICES ASSUME IInv, Judged, Faithful, [Next]_vars PROVE Faithful'
  OBVIOUS
<1>0. token' = token
  BY DEF Next, vars, Finish, PlainChar, SimpleEscape, NamedEscape, UnknownEscape,
         TruncatedEscape, HexEscape, HexDigit, NotHexDigit, PutCodePoint, RefuseCodePoint,
         Terminated, Put, Fail
<1>1. CASE out' = out /\ i' = i
  BY <1>0, <1>1, FaithfulNext DEF Faithful
<1>2. CASE PlainChar
  <2>1. i < end /\ raw(i) # Backslash /\ out' = out \o << raw(i) >> /\ i' = i + 1
    BY <1>2 DEF PlainChar, Put
  <2>2. FaithfulAt(out \o << raw(i) >>, i + 1)
    BY <2>1, CharCopied
  <2> QED
    BY <1>0, <2>1, <2>2, FaithfulNext
<1>3. CASE SimpleEscape \/ NamedEscape
  <2>1. PICK e \in Escapes \cup Named :
          e[1] = Letter /\ AtEscape /\ out' = out \o Utf8(e[2]) /\ i' = i + 2
    <3>1. CASE SimpleEscape
      <4>1. PICK e \in Escapes : e[1] = Letter /\ Put(<< e[2] >>, i + 2)
        BY <3>1 DEF SimpleEscape
      <4>2. Utf8(e[2]) = << e[2] >>
        <5>1. e[2] < 128
          BY DEF Escapes
        <5> QED
          BY <5>1 DEF Utf8
      <4> QED
        BY <3>1, <4>1, <4>2 DEF SimpleEscape, Put
    <3>2. CASE NamedEscape
      BY <3>2 DEF NamedEscape, Put
    <3> QED
      BY <1>3, <3>1, <3>2
  <2>2. EscapeValue(i) = e[2] /\ EscapeSize(i) = 2
    BY <2>1, ListedValue DEF Letter
  <2>3. e[2] \in Nat /\ ~ Refused(e[2])
    <3>1. e[2] \in Nat /\ e[2] <= 8233
      BY DEF Escapes, Named
    <3> DEFINE n == e[2]
    <3>2. n \in Nat /\ n <= 8233
      BY <3>1
    <3> HIDE DEF n
    <3>3. n \in Nat /\ ~ Refused(n)
      BY <3>2, SMTT(30) DEF Refused, MaxCodePoint
    <3> QED
      BY <3>3 DEF n
  <2>4. i < end /\ raw(i) = Backslash /\ i + 2 <= end
    <3>1. i < end /\ raw(i) = Backslash
      BY <2>1 DEF AtEscape
    <3> QED
      BY <3>1, Standing
  <2>5. FaithfulAt(out \o Utf8(e[2]), i + 2)
    BY <2>2, <2>3, <2>4, EscapePut
  <2> QED
    BY <1>0, <2>1, <2>5, FaithfulNext
<1>4. CASE PutCodePoint
  <2>1. /\ pc = "hex" /\ k = i + 2 + digits /\ ~ Refused(cp)
        /\ out' = out \o Utf8(cp) /\ i' = i + 2 + digits
    BY <1>4 DEF PutCodePoint, Put
  <2>2. EscapeValue(i) = cp /\ EscapeSize(i) = 2 + digits
    BY <2>1, SpelledRead
  <2>3. /\ i < end /\ raw(i) = Backslash /\ cp \in Nat /\ i + 2 + digits <= end
        /\ i + 2 + digits = i + (2 + digits)
    BY <2>1, Reading, Standing
  <2>4. FaithfulAt(out \o Utf8(cp), i + 2 + digits)
    BY <2>1, <2>2, <2>3, EscapePut
  <2> QED
    BY <1>0, <2>1, <2>4, FaithfulNext
<1>5. CASE \/ Finish \/ UnknownEscape \/ TruncatedEscape \/ HexEscape \/ HexDigit
           \/ NotHexDigit \/ RefuseCodePoint \/ Terminated \/ UNCHANGED vars
  BY <1>1, <1>5 DEF vars, Finish, UnknownEscape, TruncatedEscape, HexEscape, HexDigit,
         NotHexDigit, RefuseCodePoint, Terminated, Fail
<1> QED
  BY <1>2, <1>3, <1>4, <1>5 DEF Next

(* At the closing quote what is left of a character is malformed. *)
LEMMA EndsAlike ==
  ASSUME IInv, i = end, Faithful
  PROVE  Written = Meant
<1>1. PICK Pairs, s, p : Corresponds(out, i, Pairs, s, p)
  BY DEF Faithful, FaithfulAt
<1>2. /\ out \in Seq(Byte) /\ Len(out) \in Nat /\ end \in Nat \ {0} /\ i \in Nat
      /\ IsToken(token)
  BY Standing DEF IInv, TypeOK
<1>3. PICK f : WrittenFrom(f) /\ Written = f[1]
  BY <1>2, WrittenDef
<1>4. PICK g : MeantFrom(g) /\ Meant = g[1]
  BY <1>2, MeantDef
<1>5. f[s] = g[p]
  <2>1. CASE Broken(out, s, p)
    <3>1. s \in 1 .. Len(out) /\ p \in 1 .. end - 1 /\ ~ Whole(p)
      BY <2>1 DEF Broken, Spoilt
    <3>2. ~ WellFormedAt(out, s)
      <4>1. << >> \in Seq(Byte) /\ out \o << >> = out
        BY <1>2
      <4>2. \A bs \in Seq(Byte) : ~ WellFormedAt(out \o bs, s)
        BY <2>1 DEF Broken, Spoilt
      <4>3. ~ WellFormedAt(out \o << >>, s)
        BY <4>1, <4>2
      <4> QED
        BY <4>1, <4>3
    <3> QED
      BY <1>3, <1>4, <3>1, <3>2 DEF WrittenFrom, MeantFrom
  <2>2. CASE Copying(out, i, s, p) /\ p = i
    <3>1. s \in Nat /\ Len(out) + 1 = s + (i - i)
      BY <2>2 DEF Copying
    <3>2. s = Len(out) + 1 /\ p = end
      BY <1>2, <2>2, <3>1
    <3> QED
      BY <1>3, <1>4, <3>2 DEF WrittenFrom, MeantFrom
  <2>3. CASE Copying(out, i, s, p) /\ p # i
    <3> DEFINE l == LengthAt(token.text, p + 1)
               N == Len(out)
               c == end - p
    <3>1. /\ s \in Nat \ {0} /\ p \in 1 .. end /\ p # end /\ N + 1 = s + c
          /\ \A x \in 0 .. c - 1 : out[s + x] = raw(p + x) /\ raw(p + x) # Backslash
          /\ p < end => c < l
      BY <2>3 DEF Copying
    <3>2. l \in 1 .. 4
      BY DEF LengthAt
    <3> HIDE DEF l, N
    <3>3. /\ p \in 1 .. end - 1 /\ s \in 1 .. N /\ c < l /\ s + l - 1 > N /\ p + l > end
          /\ 0 \in 0 .. c - 1 /\ s + 0 = s /\ p + 0 = p /\ N \in Nat
      BY <1>2, <3>1, <3>2 DEF N
    <3>4. out[s] = raw(p) /\ raw(p) # Backslash
      BY <3>1, <3>3
    <3>5. UnitSize(p) = l /\ LengthAt(out, s) = l
      BY <3>4 DEF UnitSize, LengthAt, l, raw, At
    <3>6. ~ Whole(p)
      BY <1>2, <3>2, <3>3, <3>5 DEF Whole
    <3>7. ~ WellFormedAt(out, s)
      BY <3>2, <3>3, <3>5 DEF WellFormedAt, N
    <3> QED
      BY <1>3, <1>4, <3>3, <3>6, <3>7 DEF WrittenFrom, MeantFrom, N
  <2> QED
    BY <1>1, <2>1, <2>2, <2>3 DEF Corresponds
<1> DEFINE Left(q) == end - q[2]
           D == {Left(q) : q \in {r \in Pairs : f[r[1]] # g[r[2]]}}
<1>6. ASSUME NEW q \in Pairs, q # << s, p >>, f[q[1]] # g[q[2]]
      PROVE  /\ q[1] \in Nat /\ q[2] \in 1 .. end - 1
             /\ \E r \in Pairs : f[r[1]] # g[r[2]] /\ r[2] > q[2] /\ r[2] \in Nat /\ r[2] <= end
  <2> DEFINE r == << q[1] + LengthAt(out, q[1]), q[2] + UnitSize(q[2]) >>
  <2>1. Same(out, q[1], q[2]) /\ r \in Pairs /\ q[1] \in Nat
    BY <1>1, <1>6 DEF Corresponds, Paired
  <2>2. q[1] \in 1 .. Len(out) /\ q[2] \in 1 .. end - 1
    BY <2>1 DEF Same
  <2>3. f[q[1]] = << CodePointAt(out, q[1]) >> \o f[r[1]]
    BY <1>3, <2>1, <2>2 DEF Same, WrittenFrom
  <2>4. g[q[2]] = << UnitValue(q[2]) >> \o g[r[2]]
    BY <1>4, <2>1, <2>2 DEF Same, MeantFrom
  <2>5. f[r[1]] # g[r[2]]
    BY <1>6, <2>1, <2>3, <2>4 DEF Same
  <2>6. r[2] > q[2] /\ r[2] \in Nat /\ r[2] <= end
    <3>1. r[2] = q[2] + UnitSize(q[2]) /\ UnitSize(q[2]) \in 1 .. 10
      BY UnitSizes
    <3>2. q[2] + UnitSize(q[2]) <= end
      BY <2>1 DEF Same, Whole
    <3> HIDE DEF r
    <3> QED
      BY <1>2, <2>2, <3>1, <3>2
  <2> QED
    BY <2>1, <2>2, <2>5, <2>6
<1>7. D = {}
  <2> SUFFICES ASSUME D # {} PROVE FALSE
    OBVIOUS
  <2>1. D \in SUBSET Nat
    <3> SUFFICES ASSUME NEW q \in Pairs, f[q[1]] # g[q[2]] PROVE end - q[2] \in Nat
      OBVIOUS
    <3>1. q # << s, p >>
      BY <1>5
    <3>2. q[2] \in 1 .. end - 1
      BY <1>6, <3>1
    <3> QED
      BY <1>2, <3>2
  <2>2. PICK d \in D : \A e \in D : d <= e
    BY <2>1, Least
  <2>3. PICK q \in Pairs : f[q[1]] # g[q[2]] /\ d = end - q[2]
    OBVIOUS
  <2>4. q # << s, p >>
    BY <1>5, <2>3
  <2>5. PICK r \in Pairs : f[r[1]] # g[r[2]] /\ r[2] > q[2] /\ r[2] \in Nat /\ r[2] <= end
    BY <1>6, <2>3, <2>4
  <2>6. end - r[2] \in D
    BY <2>5
  <2>7. d <= end - r[2] /\ q[2] \in 1 .. end - 1
    BY <1>6, <2>2, <2>3, <2>4, <2>6
  <2> HIDE DEF D
  <2> QED
    BY <1>2, <2>3, <2>5, <2>7
<1>8. f[1] = g[1]
  <2>1. << 1, 1 >> \in Pairs
    BY <1>1 DEF Corresponds, Paired
  <2>2. ~ (f[<< 1, 1 >>[1]] # g[<< 1, 1 >>[2]])
    BY <1>7, <2>1
  <2> QED
    BY <2>2
<1> QED
  BY <1>3, <1>4, <1>8

(***************************************************************************)
(* The bytes a double-quoted token decodes to say, read as UTF-8, the code *)
(* points that the token means, up to where a character of the token is    *)
(* itself malformed, for every token that is accepted.                     *)
(***************************************************************************)
THEOREM WritesMeaning == Spec => []WritesWhatIsMeant
<1>1. IInv /\ Judged /\ Faithful => WritesWhatIsMeant
  <2> SUFFICES ASSUME IInv, Judged, Faithful, pc = "done", ok PROVE Written = Meant
    BY DEF WritesWhatIsMeant
  <2>1. i = end
    BY DEF Judged
  <2> QED
    BY <2>1, EndsAlike
<1> QED
  BY <1>1, InitIInv, NextIInv, InitJudged, NextJudged, InitFaithful, NextFaithful, PTL DEF Spec

-----------------------------------------------------------------------------
(* decode_sq *)

(* What is written so far is right, and the loop ends at the last unit. *)
SqIInv ==
  /\ SqTypeOK
  /\ StandsOnUnits
  /\ \A n \in 1 .. Len(sqOut) : sqOut[n] = sqRaw(sqToken.starts[n])
  /\ sqPc = "done" => Len(sqOut) = UnitCount(sqToken)

LEMMA FirstOf == \A n \in Nat \ {0} : n # 1 => 1 \in 1 .. n - 1
OBVIOUS

LEMMA SqInitInv == SqInit => SqIInv
<1> SUFFICES ASSUME SqInit PROVE SqIInv
  OBVIOUS
<1>1. IsSqToken(sqToken) /\ sqI = 1 /\ sqOut = << >> /\ sqPc = "scan"
  BY SqTokensAssumption DEF SqInit
<1>2. /\ Len(sqToken.starts) \in Nat \ {0} /\ SqSize(sqToken) \in Nat
      /\ sqToken.starts[1] = 1
  BY <1>1 DEF IsSqToken, SqSize
<1>3. sqEnd \in Nat /\ 1 <= sqEnd
  <2>1. CASE Len(sqToken.starts) = 1
    BY <1>1, <1>2, <2>1 DEF IsSqToken, sqEnd
  <2>2. CASE Len(sqToken.starts) # 1
    <3>1. 1 \in 1 .. UnitCount(sqToken)
      BY <1>2, <2>2, FirstOf DEF UnitCount
    <3>2. sqToken.starts[1] < SqSize(sqToken) - 1
      BY <1>1, <3>1 DEF IsSqToken
    <3> QED
      BY <1>2, <3>2 DEF sqEnd
  <2> QED
    BY <2>1, <2>2
<1> QED
  BY <1>1, <1>2, <1>3 DEF SqIInv, SqTypeOK, StandsOnUnits, UnitCount, sqEnd

(* A unit that is not the last is not where the closing quote stands. *)
LEMMA SqWriteUnitInv == SqIInv /\ WriteUnit => SqIInv'
<1> SUFFICES ASSUME SqIInv, WriteUnit PROVE SqIInv'
  OBVIOUS
<1> DEFINE n == Len(sqOut) + 1
<1> USE DEF SqIInv, SqTypeOK, StandsOnUnits, WriteUnit, sqRaw, sqEnd, SqAt, UnitCount
<1>1. /\ sqToken' = sqToken /\ sqPc = "scan" /\ sqPc' = "scan"
      /\ n \in 1 .. Len(sqToken.starts) /\ sqI = sqToken.starts[n] /\ sqI < SqSize(sqToken) - 1
      /\ sqToken.text \in Seq(SqChar) /\ sqToken.starts \in Seq(Nat)
  BY DEF IsSqToken
<1>2. n \in 1 .. UnitCount(sqToken)
  BY <1>1 DEF IsSqToken, SqSize
<1>3. sqToken.text[sqI + 1] \in SqChar
  BY <1>1 DEF SqSize
<1>4. /\ sqOut' = Append(sqOut, sqToken.text[sqI + 1])
      /\ sqOut' \in Seq(SqChar) /\ Len(sqOut') = n
      /\ sqOut'[n] = sqToken.text[sqI + 1]
      /\ \A m \in 1 .. Len(sqOut) : sqOut'[m] = sqOut[m]
  BY <1>3
<1>5. SqUnitAt(sqToken, sqI, sqToken.starts[n + 1])
  BY <1>1, <1>2 DEF IsSqToken
<1>6. sqI' = sqToken.starts[n + 1]
  BY <1>5, <1>1 DEF SqUnitAt
<1>7. sqI' \in 1 .. SqSize(sqToken) - 1
  <2>1. /\ sqI \in Nat /\ sqI >= 1 /\ SqSize(sqToken) \in Nat
        /\ sqI' \in Nat /\ sqI' >= 1
    <3>1. SqSize(sqToken) \in Nat
      BY <1>1 DEF SqSize
    <3>2. sqI \in Nat /\ sqI >= 1
      BY <3>1
    <3>3. sqI' = sqI + 1 \/ sqI' = sqI + 2
      OBVIOUS
    <3> QED
      BY <3>1, <3>2, <3>3, SMTT(30)
  <2>2. CASE n = UnitCount(sqToken)
    BY <1>1, <1>6, <2>1, <2>2, SMTT(30) DEF IsSqToken
  <2>3. CASE n # UnitCount(sqToken)
    <3>1. n + 1 \in 1 .. UnitCount(sqToken)
      BY <1>1, <1>2, <2>3, SMTT(30)
    <3>2. sqToken.starts[n + 1] < SqSize(sqToken) - 1
      BY <3>1 DEF IsSqToken
    <3> QED
      BY <1>6, <2>1, <3>2
  <2> QED
    BY <2>2, <2>3
<1>8. SqTypeOK'
  BY <1>1, <1>4, <1>7
<1>9. StandsOnUnits'
  <2>1. Len(sqOut') <= UnitCount(sqToken)
    BY <1>1, <1>2, <1>4
  <2>2. sqI' = sqToken.starts[Len(sqOut') + 1]
    BY <1>4, <1>6
  <2> QED
    BY <1>1, <2>1, <2>2
<1>10. \A m \in 1 .. Len(sqOut') : sqOut'[m] = sqToken'.text[sqToken'.starts[m] + 1]
  <2> SUFFICES ASSUME NEW m \in 1 .. n
               PROVE  sqOut'[m] = sqToken.text[sqToken.starts[m] + 1]
    BY <1>1, <1>4
  <2>1. CASE m = n
    BY <2>1, <1>1, <1>4
  <2>2. CASE m # n
    <3>1. m \in 1 .. Len(sqOut)
      BY <2>2
    <3>2. sqOut'[m] = sqOut[m]
      BY <3>1, <1>4
    <3> QED
      BY <3>1, <3>2
  <2> QED
    BY <2>1, <2>2
<1> HIDE DEF n
<1> QED
  BY <1>1, <1>8, <1>9, <1>10

(* On the closing quote every unit is behind. *)
LEMMA SqFinishInv == SqIInv /\ SqFinish => SqIInv'
<1> SUFFICES ASSUME SqIInv, SqFinish PROVE SqIInv'
  OBVIOUS
<1>1. Len(sqOut) = UnitCount(sqToken)
  <2>1. /\ Len(sqOut) \in Nat /\ Len(sqOut) <= UnitCount(sqToken)
        /\ sqToken.starts \in Seq(Nat) /\ Len(sqToken.starts) \in Nat
        /\ sqToken.starts[Len(sqOut) + 1] >= SqSize(sqToken) - 1
    BY DEF SqIInv, SqTypeOK, StandsOnUnits, SqFinish, IsSqToken, sqEnd
  <2>2. CASE Len(sqOut) < UnitCount(sqToken)
    <3>1. Len(sqOut) + 1 \in 1 .. UnitCount(sqToken)
      BY <2>1, <2>2 DEF UnitCount
    <3>2. sqToken.starts[Len(sqOut) + 1] < SqSize(sqToken) - 1
      BY <3>1 DEF SqIInv, SqTypeOK, IsSqToken
    <3>3. sqToken.starts[Len(sqOut) + 1] \in Nat /\ SqSize(sqToken) \in Nat
      BY <2>1, <3>1, SMTT(30) DEF UnitCount, SqIInv, SqTypeOK, IsSqToken, SqSize
    <3> QED
      BY <2>1, <3>2, <3>3
  <2> QED
    BY <2>1, <2>2 DEF UnitCount
<1> QED
  BY <1>1 DEF SqIInv, SqTypeOK, StandsOnUnits, SqFinish, sqRaw, sqEnd

LEMMA SqNextInv == SqIInv /\ [SqNext]_sqVars => SqIInv'
<1>1. SqIInv /\ UNCHANGED sqVars => SqIInv'
  BY DEF SqIInv, SqTypeOK, StandsOnUnits, sqVars, sqRaw, sqEnd
<1> QED
  BY <1>1, SqWriteUnitInv, SqFinishInv DEF SqNext, SqTerminated

LEMMA SqInvHolds == SqSpec => []SqIInv
BY SqInitInv, SqNextInv, PTL DEF SqSpec

(***************************************************************************)
(* decode_sq reads and writes within its bounds, for every token: the      *)
(* variables keep their types.                                             *)
(***************************************************************************)
THEOREM SqTypeCorrect == SqSpec => []SqTypeOK
<1>1. SqIInv => SqTypeOK
  BY DEF SqIInv
<1> QED
  BY SqInvHolds, <1>1, PTL

(***************************************************************************)
(* The loop of decode_sq never splits a pair of quotes and stops on the    *)
(* closing quote, for every token.                                         *)
(***************************************************************************)
THEOREM UnitsKept == SqSpec => []StandsOnUnits
<1>1. SqIInv => StandsOnUnits
  BY DEF SqIInv
<1> QED
  BY SqInvHolds, <1>1, PTL

(***************************************************************************)
(* decode_sq yields one character for each unit of the token, for every    *)
(* token.                                                                  *)
(***************************************************************************)
THEOREM QuotesUndoubled == SqSpec => []UndoublesQuotes
<1>1. SqIInv => UndoublesQuotes
  BY DEF SqIInv, UndoublesQuotes, SqTypeOK
<1> QED
  BY SqInvHolds, <1>1, PTL


=============================================================================
