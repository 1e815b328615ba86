------------------------------ MODULE DecodeDQ ------------------------------
(***************************************************************************)
(* decode_dq<Text>::compute of include/ctyaml/bind.hpp: the loop that      *)
(* turns a raw double-quoted token, still quoted and with its escapes,     *)
(* into the bytes of a string.  It runs in constant evaluation over a      *)
(* buffer of fixed size, where a read or a write out of bounds is a hard   *)
(* compile error, of a text the grammar has accepted.                      *)
(*                                                                         *)
(* Characters are bytes.  Positions count from 0 as in the code.  A token  *)
(* comes with the positions at which the units of its regular expression   *)
(*                                                                         *)
(*    "([^"\\\r\n]|\\[^\r\n])*"                                            *)
(*                                                                         *)
(* were matched: each is one character or a backslash and its follower.    *)
(***************************************************************************)
EXTENDS Integers, Sequences

CONSTANT Tokens (* the DQ tokens of the lexer *)

Byte  == 0 .. 255
Quote == 34
Backslash == 92

Size(t)  == Len(t.text)
At(t, p) == t.text[p + 1]

(* The unit of token t at p, before the closing quote, is whole. *)
UnitAt(t, p) ==
  IF At(t, p) = Backslash
    THEN p + 1 < Size(t) - 1 /\ p + 1 \notin t.units /\ p + 2 \in t.units
    ELSE At(t, p) # Quote /\ p + 1 \in t.units

IsToken(t) ==
  /\ t.text \in Seq(Byte)
  /\ Size(t) >= 2
  /\ t.units \subseteq 1 .. Size(t) - 1
  /\ 1 \in t.units
  /\ \A p \in t.units : p < Size(t) - 1 => UnitAt(t, p)

ASSUME TokensAssumption == \A t \in Tokens : IsToken(t)

VARIABLES
  token,  (* Text, fixed *)
  i,      (* the position of the next unit *)
  out,    (* buf[0 .. len) *)
  ok,
  digits, (* hex_digits of the escape at i *)
  k, cp,  (* the next digit of it, and its value so far *)
  pc      (* "scan" the while loop, "hex" the for loop in it, "done" *)

vars == << token, i, out, ok, digits, k, cp, pc >>

raw(p) == At(token, p)
end    == Size(token) - 1

-----------------------------------------------------------------------------
(* bind_ishex, bind_hexval *)
IsHex(c) == c \in 48 .. 57 \/ c \in 97 .. 102 \/ c \in 65 .. 70

HexVal(c) ==
  IF c \in 48 .. 57 THEN c - 48 ELSE IF c \in 97 .. 102 THEN c - 87 ELSE c - 55

MaxCodePoint == 1114111 (* 0x10FFFF *)

(***************************************************************************)
(* cp * 16 + digit.  A value that is past the last code point stays past   *)
(* it, so it is left alone: the code's unsigned long holds eight digits.   *)
(***************************************************************************)
Shift(n, c) == IF n > MaxCodePoint THEN n ELSE n * 16 + HexVal(c)

(* Mutant: the last surrogate gets through. *)
RefusedOffByOne(n) == (55296 <= n /\ n < 57343) \/ n > MaxCodePoint

(* put_code_point: what it refuses, and the bytes it writes otherwise. *)
Refused(n) == (55296 <= n /\ n <= 57343) \/ n > MaxCodePoint

Low6(n) == 128 + (n % 64)

(* Mutant: 0x800 is taken for the last of the two-byte range. *)
Utf8OffByOne(n) ==
  IF n < 128 THEN << n >>
  ELSE IF n <= 2048 THEN << 192 + (n \div 64), Low6(n) >>
  ELSE IF n < 65536 THEN << 224 + (n \div 4096), Low6(n \div 64), Low6(n) >>
  ELSE << 240 + (n \div 262144), Low6(n \div 4096), Low6(n \div 64), Low6(n) >>

Utf8(n) ==
  IF n < 128 THEN << n >>
  ELSE IF n < 2048 THEN << 192 + (n \div 64), Low6(n) >>
  ELSE IF n < 65536 THEN << 224 + (n \div 4096), Low6(n \div 64), Low6(n) >>
  ELSE << 240 + (n \div 262144), Low6(n \div 4096), Low6(n \div 64), Low6(n) >>

(* The escapes that stand for one byte: the letter and the byte. *)
Escapes ==
  { << 48, 0 >>, << 97, 7 >>, << 98, 8 >>, << 116, 9 >>, << 9, 9 >>,
    << 110, 10 >>, << 118, 11 >>, << 102, 12 >>, << 114, 13 >>, << 101, 27 >>,
    << 32, 32 >>, << 34, 34 >>, << 47, 47 >>, << 92, 92 >> }

(* Those that name a code point: \N \_ \L \P. *)
Named == { << 78, 133 >>, << 95, 160 >>, << 76, 8232 >>, << 80, 8233 >> }

(* Those that spell one: \x \u \U and how many digits they take. *)
Spelled == { << 120, 2 >>, << 117, 4 >>, << 85, 8 >> }

Letters(S) == {e[1] : e \in S}

-----------------------------------------------------------------------------
Init ==
  /\ token \in Tokens
  /\ i = 1
  /\ out = << >>
  /\ ok = TRUE
  /\ digits = 0 /\ k = 0 /\ cp = 0
  /\ pc = "scan"

Fail ==
  /\ ok' = FALSE
  /\ pc' = "done"
  /\ UNCHANGED << token, i, out, digits, k, cp >>

(* Write bs and go on at position p. *)
Put(bs, p) ==
  /\ out' = out \o bs
  /\ i' = p
  /\ pc' = "scan"
  /\ UNCHANGED << token, ok, digits, k, cp >>

Finish ==
  /\ pc = "scan"
  /\ i >= end
  /\ pc' = "done"
  /\ UNCHANGED << token, i, out, ok, digits, k, cp >>

PlainChar ==
  /\ pc = "scan"
  /\ i < end
  /\ raw(i) # Backslash
  /\ Put(<< raw(i) >>, i + 1)

(* The letter after the backslash at i. *)
AtEscape == pc = "scan" /\ i < end /\ raw(i) = Backslash
Letter   == raw(i + 1)

SimpleEscape ==
  /\ AtEscape
  /\ \E e \in Escapes : e[1] = Letter /\ Put(<< e[2] >>, i + 2)

(* Mutant: the letter is not skipped. *)
NamedEscapeShort ==
  /\ AtEscape
  /\ \E e \in Named : e[1] = Letter /\ Put(Utf8(e[2]), i + 1)

NamedEscape ==
  /\ AtEscape
  /\ \E e \in Named : e[1] = Letter /\ Put(Utf8(e[2]), i + 2)

UnknownEscape ==
  /\ AtEscape
  /\ Letter \notin Letters(Escapes) \cup Letters(Named) \cup Letters(Spelled)
  /\ Fail

(* The digits would run into the closing quote. *)
TruncatedEscape ==
  /\ AtEscape
  /\ \E e \in Spelled : e[1] = Letter /\ i + 2 + e[2] > end
  /\ Fail

HexEscape ==
  /\ AtEscape
  /\ \E e \in Spelled :
       /\ e[1] = Letter
       /\ i + 2 + e[2] <= end
       /\ digits' = e[2]
  /\ k' = i + 2
  /\ cp' = 0
  /\ pc' = "hex"
  /\ UNCHANGED << token, i, out, ok >>

(* Mutant: the digit is read again. *)
HexDigitStays ==
  /\ pc = "hex"
  /\ k < i + 2 + digits
  /\ IsHex(raw(k))
  /\ cp' = Shift(cp, raw(k))
  /\ UNCHANGED << token, i, out, ok, digits, k, pc >>

HexDigit ==
  /\ pc = "hex"
  /\ k < i + 2 + digits
  /\ IsHex(raw(k))
  /\ cp' = Shift(cp, raw(k))
  /\ k' = k + 1
  /\ UNCHANGED << token, i, out, ok, digits, pc >>

NotHexDigit ==
  /\ pc = "hex"
  /\ k < i + 2 + digits
  /\ ~ IsHex(raw(k))
  /\ Fail

PutCodePoint ==
  /\ pc = "hex"
  /\ k = i + 2 + digits
  /\ ~ Refused(cp)
  /\ Put(Utf8(cp), i + 2 + digits)

RefuseCodePoint ==
  /\ pc = "hex"
  /\ k = i + 2 + digits
  /\ Refused(cp)
  /\ Fail

Terminated == pc = "done" /\ UNCHANGED vars

Next ==
  \/ Finish \/ PlainChar
  \/ SimpleEscape \/ NamedEscape \/ UnknownEscape
  \/ TruncatedEscape \/ HexEscape
  \/ HexDigit \/ NotHexDigit \/ PutCodePoint \/ RefuseCodePoint
  \/ Terminated

Spec == Init /\ [][Next]_vars

-----------------------------------------------------------------------------
(***************************************************************************)
(* Properties.                                                             *)
(***************************************************************************)

TypeOK ==
  /\ IsToken(token)
  /\ i \in Nat
  /\ out \in Seq(Byte)
  /\ ok \in BOOLEAN
  /\ digits \in {0, 2, 4, 8}
  /\ k \in Nat /\ cp \in Nat
  /\ pc \in {"scan", "hex", "done"}

(***************************************************************************)
(* Every read is of a character between the quotes: the loop stands where  *)
(* a unit starts, so a backslash always has its follower, and the digits   *)
(* of an escape are looked at only where they are known to be there.       *)
(***************************************************************************)
ReadsInside ==
  /\ pc = "scan" => i <= end
  /\ AtEscape => i + 1 < end
  /\ pc = "hex" => k <= i + 2 + digits /\ i + 2 + digits <= end

(***************************************************************************)
(* What is written is at most three bytes for two characters read, \L and  *)
(* \P being the worst, so buf[Text::size() * 2 + 1] is never overrun.      *)
(***************************************************************************)
BufferFits ==
  /\ 2 * Len(out) <= 3 * (i - 1)
  /\ Len(out) < 2 * Size(token) + 1

(* Neither the token nor the buffer is left. *)
StaysInBounds == ReadsInside /\ BufferFits

(***************************************************************************)
(* The loop always advances, in the token or in the digits of an escape.   *)
(***************************************************************************)
Advances ==
  \/ pc # "done" /\ pc' = "done"
  \/ i' > i
  \/ i' = i /\ pc = "scan" /\ pc' = "hex"
  \/ i' = i /\ pc = "hex" /\ pc' = "hex" /\ k' > k

StepsAdvance == [][Advances]_vars

(***************************************************************************)
(* The escape at p, read off the token with no loop: its digits, and what  *)
(* is wrong with it.  The digits say by themselves which code points do    *)
(* not exist: those past plane 16, and the surrogates D800 to DFFF.        *)
(***************************************************************************)
Digit(p, j)  == HexVal(raw(p + 1 + j))
Digits(p)    == CHOOSE n \in {2, 4, 8} : << raw(p + 1), n >> \in Spelled

AllZero(p, J) == \A j \in J : Digit(p, j) = 0

NoSuchCodePoint(p) ==
  \/ /\ Digits(p) = 8
     /\ ~ AllZero(p, 1 .. 2) \/ 16 * Digit(p, 3) + Digit(p, 4) > 16
  \/ LET n == Digits(p)
     IN  /\ n > 2 /\ AllZero(p, 1 .. (n - 4))
         /\ Digit(p, n - 3) = 13 /\ Digit(p, n - 2) >= 8

BadEscapeAt(p) ==
  IF raw(p + 1) \in Letters(Spelled)
    THEN \/ p + 1 + Digits(p) >= end
         \/ \E q \in p + 2 .. p + 1 + Digits(p) : ~ IsHex(raw(q))
         \/ NoSuchCodePoint(p)
    ELSE raw(p + 1) \notin Letters(Escapes) \cup Letters(Named)

(***************************************************************************)
(* A token is refused exactly for an escape that YAML does not have, that  *)
(* lacks digits, or that names no code point.                              *)
(***************************************************************************)
RefusesExactlyBad ==
  pc = "done" =>
    (ok <=> \A p \in token.units :
              p < end /\ raw(p) = Backslash => ~ BadEscapeAt(p))

(***************************************************************************)
(* UTF-8, read: the length of the sequence at s[p], whether it is well     *)
(* formed (Unicode, table 3-7) and its code point.                         *)
(***************************************************************************)
LengthAt(s, p) ==
  IF s[p] < 128 THEN 1 ELSE IF s[p] < 224 THEN 2 ELSE IF s[p] < 240 THEN 3 ELSE 4

WellFormedAt(s, p) ==
  LET n == LengthAt(s, p)
  IN  /\ s[p] \in 0 .. 127 \cup 194 .. 244
      /\ p + n - 1 <= Len(s)
      /\ \A q \in p + 1 .. p + n - 1 : s[q] \in 128 .. 191
      /\ s[p] = 224 => s[p + 1] >= 160
      /\ s[p] = 237 => s[p + 1] < 160
      /\ s[p] = 240 => s[p + 1] >= 144
      /\ s[p] = 244 => s[p + 1] < 144

CodePointAt(s, p) ==
  CASE LengthAt(s, p) = 1 -> s[p]
    [] LengthAt(s, p) = 2 -> (s[p] - 192) * 64 + s[p + 1] - 128
    [] LengthAt(s, p) = 3 -> ((s[p] - 224) * 64 + s[p + 1] - 128) * 64 + s[p + 2] - 128
    [] LengthAt(s, p) = 4 -> (((s[p] - 240) * 64 + s[p + 1] - 128) * 64
                               + s[p + 2] - 128) * 64 + s[p + 3] - 128

(* What out says and what the token means, up to where one is malformed. *)
Written ==
  LET f[p \in 1 .. Len(out) + 1] ==
        IF p > Len(out) THEN << >>
        ELSE IF ~ WellFormedAt(out, p) THEN << MaxCodePoint + 1 >>
        ELSE << CodePointAt(out, p) >> \o f[p + LengthAt(out, p)]
  IN  f[1]

(* The code points of the escapes without digits. *)
Listed == {e[2] : e \in Escapes \cup Named}

EscapeValue(p) ==
  IF raw(p + 1) \in Letters(Spelled)
    THEN LET v[j \in 0 .. Digits(p)] ==
               IF j = 0 THEN 0 ELSE 16 * v[j - 1] + Digit(p, j)
         IN  v[Digits(p)]
    ELSE CHOOSE n \in Listed : << raw(p + 1), n >> \in Escapes \cup Named

EscapeSize(p) ==
  IF raw(p + 1) \in Letters(Spelled) THEN 2 + Digits(p) ELSE 2

(* What is read at p, an escape or a character, and whether it is whole. *)
UnitValue(p) ==
  IF raw(p) = Backslash THEN EscapeValue(p) ELSE CodePointAt(token.text, p + 1)

UnitSize(p) ==
  IF raw(p) = Backslash THEN EscapeSize(p) ELSE LengthAt(token.text, p + 1)

Whole(p) ==
  /\ p + UnitSize(p) <= end
  /\ raw(p) # Backslash => WellFormedAt(token.text, p + 1)

Meant ==
  LET f[p \in 1 .. end] ==
        IF p = end THEN << >>
        ELSE IF ~ Whole(p) THEN << MaxCodePoint + 1 >>
        ELSE << UnitValue(p) >> \o f[p + UnitSize(p)]
  IN  f[1]

(***************************************************************************)
(* A token that is accepted decodes to UTF-8 for the very code points it   *)
(* spells, whichever way it spells them, and is well formed as far as the  *)
(* characters of the token are: the code copies them byte by byte.         *)
(***************************************************************************)
WritesWhatIsMeant == pc = "done" /\ ok => Written = Meant

=============================================================================
