------------------------- MODULE ToArithmeticProofs -------------------------
(***************************************************************************)
(* The scans of plain_int and plain_float against the regular expressions  *)
(* of the core schema, for every text; then the scan of to_arithmetic      *)
(* against theirs, and the number that comes of it, for every text and     *)
(* integers of every width.                                                *)
(***************************************************************************)
EXTENDS ToArithmetic, SequenceTheorems, Induction

-----------------------------------------------------------------------------
(* The loop that the scans are made of. *)

(* Run stops at the first character that is not in S, or at the end. *)
LEMMA RunIs ==
  ASSUME NEW v, Len(v) \in Nat, NEW p \in 0 .. Size(v), NEW S
  PROVE  /\ Run(v, p, S) \in p .. Size(v)
         /\ \A r \in p .. Run(v, p, S) - 1 : At(v, r) \in S
         /\ Run(v, p, S) < Size(v) => At(v, Run(v, p, S)) \notin S
<1> DEFINE Stop(q) == /\ \A r \in p .. q - 1 : At(v, r) \in S
                      /\ q < Size(v) => At(v, q) \notin S
           Ends == {q \in p .. Size(v) : q < Size(v) => At(v, q) \notin S}
<1>1. PICK q \in Ends : \A e \in Ends : q <= e
  <2>1. Size(v) \in Ends /\ Ends \in SUBSET Nat
    BY DEF Size
  <2> QED
    BY <2>1, Least
<1>2. Stop(q)
  <2> SUFFICES ASSUME NEW r \in p .. q - 1, At(v, r) \notin S
               PROVE  FALSE
    OBVIOUS
  <2>1. r \in Ends /\ r < q
    BY DEF Size
  <2> QED
    BY <2>1, <1>1 DEF Size
<1>3. \E x \in p .. Size(v) : Stop(x)
  BY <1>2
<1>4. Run(v, p, S) = CHOOSE x \in p .. Size(v) : Stop(x)
  BY DEF Run
<1> QED
  BY <1>3, <1>4

(* A run that is known at both ends. *)
LEMMA RunAt ==
  ASSUME NEW v, Len(v) \in Nat, NEW p \in 0 .. Size(v), NEW S,
         NEW q \in p .. Size(v),
         \A r \in p .. q - 1 : At(v, r) \in S,
         q < Size(v) => At(v, q) \notin S
  PROVE  Run(v, p, S) = q
<1>1. Run(v, p, S) \in p .. Size(v)
  BY RunIs
<1>2. ~ (Run(v, p, S) < q)
  <2>1. Run(v, p, S) < q => /\ Run(v, p, S) \in p .. q - 1
                            /\ Run(v, p, S) < Size(v)
    BY <1>1 DEF Size
  <2> QED
    BY <2>1, RunIs
<1>3. ~ (q < Run(v, p, S))
  <2>1. q < Run(v, p, S) => /\ q \in p .. Run(v, p, S) - 1
                            /\ q < Size(v)
    BY <1>1 DEF Size
  <2> QED
    BY <2>1, RunIs
<1> QED
  BY <1>1, <1>2, <1>3 DEF Size

(* What the rest takes for granted of a text. *)
IsText(v) == v \in Seq(STRING) /\ v # << >>

LEMMA TextSize ==
  ASSUME NEW v, IsText(v)
  PROVE  /\ Len(v) \in Nat /\ Size(v) = Len(v) /\ Size(v) > 0
         /\ SignSize(v) \in 0 .. 1 /\ SignSize(v) <= Size(v)
BY DEF IsText, Size, SignSize

(* A part of a text, character by character. *)
LEMMA PartIs ==
  ASSUME NEW v, v \in Seq(STRING), NEW a \in 0 .. Len(v), NEW b \in a .. Len(v)
  PROVE  /\ Part(v, a, b) \in Seq(STRING)
         /\ Len(Part(v, a, b)) = b - a
         /\ \A n \in 1 .. b - a : Part(v, a, b)[n] = At(v, a + n - 1)
<1> DEFINE w == Part(v, a, b)
<1>1. a + 1 \in Nat /\ b \in Nat /\ Len(v) \in Nat
  OBVIOUS
<1>2. \A n \in a + 1 .. b : v[n] \in STRING
  BY <1>1, ElementOfSeq
<1>3. /\ w \in Seq(STRING)
      /\ Len(w) = IF a + 1 <= b THEN b - (a + 1) + 1 ELSE 0
      /\ \A n \in 1 .. b - (a + 1) + 1 : w[n] = v[(a + 1) + n - 1]
  BY <1>1, <1>2, SubSeqProperties DEF Part
<1> HIDE DEF w
<1>4. Len(w) = b - a
  BY <1>1, <1>3
<1>5. ASSUME NEW n \in 1 .. b - a PROVE w[n] = At(v, a + n - 1)
  <2>1. n \in 1 .. b - (a + 1) + 1 /\ (a + 1) + n - 1 = (a + n - 1) + 1
    BY <1>1
  <2>2. w[n] = v[(a + 1) + n - 1]
    BY <1>3, <2>1
  <2> QED
    BY <2>1, <2>2 DEF At
<1> QED
  BY <1>3, <1>4, <1>5 DEF w

(* The ends of the parts that plain_float finds. *)
LEMMA FloatScan ==
  ASSUME NEW v, IsText(v)
  PROVE  /\ WholeEnd(v) \in SignSize(v) .. Size(v)
         /\ \A r \in SignSize(v) .. WholeEnd(v) - 1 : At(v, r) \in Digits
         /\ WholeEnd(v) < Size(v) => At(v, WholeEnd(v)) \notin Digits
         /\ FracEnd(v) \in WholeEnd(v) .. Size(v)
         /\ HasDot(v) =>
              /\ WholeEnd(v) + 1 <= FracEnd(v)
              /\ \A r \in WholeEnd(v) + 1 .. FracEnd(v) - 1 : At(v, r) \in Digits
              /\ FracEnd(v) < Size(v) => At(v, FracEnd(v)) \notin Digits
<1>1. /\ WholeEnd(v) \in SignSize(v) .. Size(v)
      /\ \A r \in SignSize(v) .. WholeEnd(v) - 1 : At(v, r) \in Digits
      /\ WholeEnd(v) < Size(v) => At(v, WholeEnd(v)) \notin Digits
  <2>1. SignSize(v) \in 0 .. Size(v)
    BY TextSize
  <2> QED
    BY <2>1, TextSize, RunIs DEF WholeEnd
<1>2. CASE HasDot(v)
  <2>1. WholeEnd(v) + 1 \in 0 .. Size(v)
    BY <1>1, <1>2, TextSize DEF HasDot
  <2>2. /\ FracEnd(v) \in WholeEnd(v) + 1 .. Size(v)
        /\ \A r \in WholeEnd(v) + 1 .. FracEnd(v) - 1 : At(v, r) \in Digits
        /\ FracEnd(v) < Size(v) => At(v, FracEnd(v)) \notin Digits
    BY <1>2, <2>1, TextSize, RunIs DEF FracEnd
  <2> QED
    BY <1>1, <2>1, <2>2, TextSize
<1>3. CASE ~ HasDot(v)
  <2>1. FracEnd(v) = WholeEnd(v)
    BY <1>3 DEF FracEnd
  <2> QED
    BY <1>1, <1>3, <2>1, TextSize
<1> QED
  BY <1>2, <1>3

-----------------------------------------------------------------------------
(* What resolve_plain has seen of a text that reaches the loops. *)

(* A sign, digits, and nothing else. *)
AllDigits(v) ==
  /\ SignSize(v) < Size(v)
  /\ \A r \in SignSize(v) .. Size(v) - 1 : At(v, r) \in Digits

Numeral(v) == AllDigits(v) \/ DecimalFloat(v)

SpecialAt(v, p) == p + 1 < Size(v) /\ At(v, p) = "." /\ At(v, p + 1) \notin Digits
BaseAt(v, p)    == p + 1 < Size(v) /\ At(v, p) = "0" /\ At(v, p + 1) \in {"x", "o"}

LEMMA NotDigits ==
  /\ "." \notin Digits /\ "x" \notin Digits /\ "o" \notin Digits
  /\ "i" \notin Digits /\ "I" \notin Digits /\ "n" \notin Digits /\ "N" \notin Digits
  /\ "e" \notin Digits /\ "E" \notin Digits /\ "0" \in Digits
  /\ "+" \notin Digits /\ "-" \notin Digits
  /\ "0" \notin Signs /\ "." \notin Signs
BY DEF Digits, Octals, Signs

LEMMA OctalsAreHex == Octals \subseteq Digits /\ Digits \subseteq HexDigits
<1>1. \A n \in 1 .. 10 : LowerHex[n] \in HexDigits
  BY DEF HexDigits
<1>2. Digits = {LowerHex[n] : n \in 1 .. 10}
  <2>1. /\ LowerHex[1] = "0" /\ LowerHex[2] = "1" /\ LowerHex[3] = "2"
        /\ LowerHex[4] = "3" /\ LowerHex[5] = "4" /\ LowerHex[6] = "5"
        /\ LowerHex[7] = "6" /\ LowerHex[8] = "7" /\ LowerHex[9] = "8"
        /\ LowerHex[10] = "9"
    BY DEF LowerHex
  <2>2. 1 .. 10 = {1, 2, 3, 4, 5, 6, 7, 8, 9, 10}
    OBVIOUS
  <2> QED
    BY <2>1, <2>2, ZenonT(40) DEF Digits, Octals
<1> QED
  BY <1>1, <1>2 DEF Digits

(* The words of the schema are .inf and .nan: the branch before the loops. *)
LEMMA WordsAreSpecial ==
  ASSUME NEW v, IsText(v),
         \/ SubSeq(v, SignSize(v) + 1, Size(v)) \in Infinities
         \/ v \in NotANumbers
  PROVE  SpecialAt(v, SignSize(v))
<1>1. CASE SubSeq(v, SignSize(v) + 1, Size(v)) \in Infinities
  <2> DEFINE w == SubSeq(v, SignSize(v) + 1, Size(v))
  <2>1. \A u \in Infinities : Len(u) = 4 /\ u[1] = "." /\ u[2] \in {"i", "I"}
    BY DEF Infinities
  <2>2. Len(w) = 4 /\ w[1] = "." /\ w[2] \in {"i", "I"}
    BY <1>1, <2>1
  <2>3. w = Part(v, SignSize(v), Len(v))
    BY TextSize DEF Part
  <2> HIDE DEF w
  <2>4. /\ v \in Seq(STRING) /\ SignSize(v) \in 0 .. Len(v)
        /\ Len(v) \in SignSize(v) .. Len(v)
    BY TextSize DEF IsText
  <2>5. /\ Len(w) = Len(v) - SignSize(v)
        /\ \A n \in 1 .. Len(v) - SignSize(v) : w[n] = At(v, SignSize(v) + n - 1)
    BY <2>3, <2>4, PartIs
  <2>6. w[1] = At(v, SignSize(v) + 1 - 1) /\ w[2] = At(v, SignSize(v) + 2 - 1)
    BY <2>2, <2>5
  <2>7. SignSize(v) + 1 - 1 = SignSize(v) /\ SignSize(v) + 2 - 1 = SignSize(v) + 1
    BY TextSize
  <2>8. w[1] = At(v, SignSize(v)) /\ w[2] = At(v, SignSize(v) + 1)
    BY <2>6, <2>7
  <2>9. SignSize(v) + 1 < Size(v)
    BY <2>2, <2>5, TextSize
  <2> QED
    BY <2>2, <2>8, <2>9, NotDigits DEF SpecialAt
<1>2. CASE v \in NotANumbers
  <2>1. Len(v) = 4 /\ v[1] = "." /\ v[2] \in {"n", "N"}
    BY <1>2 DEF NotANumbers
  <2>2. SignSize(v) = 0
    BY <2>1, NotDigits DEF SignSize, At
  <2> QED
    BY <2>1, <2>2, NotDigits DEF SpecialAt, At, Size
<1> QED
  BY <1>1, <1>2

(* What goes past both branches before the loops is a numeral. *)
LEMMA RestIsNumeral ==
  ASSUME NEW v, IsText(v), PlainInt(v) \/ PlainFloat(v),
         ~ SpecialAt(v, SignSize(v)), ~ BaseAt(v, SignSize(v))
  PROVE  Numeral(v)
<1>1. CASE PlainInt(v)
  <2>1. ~ Prefixed(v, "x") /\ ~ Prefixed(v, "o")
    BY TextSize, NotDigits DEF Prefixed, BaseAt, SignSize
  <2>2. SignSize(v) < Size(v) /\ Run(v, SignSize(v), Digits) = Size(v)
    BY <1>1, <2>1 DEF PlainInt
  <2>3. SignSize(v) \in 0 .. Size(v)
    BY TextSize
  <2> QED
    BY <2>2, <2>3, RunIs, TextSize DEF Numeral, AllDigits
<1>2. CASE PlainFloat(v)
  BY <1>2, WordsAreSpecial DEF PlainFloat, Numeral
<1> QED
  BY <1>1, <1>2

(* What starts like a base is no float. *)
LEMMA BaseIsInt ==
  ASSUME NEW v, IsText(v), PlainInt(v) \/ PlainFloat(v),
         BaseAt(v, SignSize(v))
  PROVE  PlainInt(v) /\ WholeEnd(v) = SignSize(v) + 1
<1>1. ~ SpecialAt(v, SignSize(v))
  BY DEF BaseAt, SpecialAt
<1>2. WholeEnd(v) = SignSize(v) + 1
  <2>1. SignSize(v) \in 0 .. Size(v) /\ SignSize(v) + 1 \in SignSize(v) .. Size(v)
    BY TextSize DEF BaseAt
  <2>2. \A r \in SignSize(v) .. (SignSize(v) + 1) - 1 : At(v, r) \in Digits
    <3>1. \A r \in SignSize(v) .. (SignSize(v) + 1) - 1 : r = SignSize(v)
      BY TextSize
    <3> QED
      BY <3>1, NotDigits DEF BaseAt
  <2>3. At(v, SignSize(v) + 1) \notin Digits
    BY NotDigits DEF BaseAt
  <2> QED
    BY <2>1, <2>2, <2>3, RunAt, TextSize DEF WholeEnd
<1>3. ~ DecimalFloat(v)
  <2>1. At(v, WholeEnd(v)) \in {"x", "o"}
    BY <1>2 DEF BaseAt
  <2>2. ~ HasDot(v) /\ FracEnd(v) = WholeEnd(v)
    BY <2>1 DEF HasDot, FracEnd
  <2> QED
    BY <2>1, <2>2 DEF DecimalFloat, HasExp
<1> QED
  BY <1>1, <1>2, <1>3, WordsAreSpecial DEF PlainFloat

(* A base is only there without a sign, before its digits. *)
LEMMA BaseIsPrefix ==
  ASSUME NEW v, IsText(v), PlainInt(v) \/ PlainFloat(v),
         BaseAt(v, SignSize(v))
  PROVE  /\ SignSize(v) = 0
         /\ \A r \in 2 .. Size(v) - 1 : At(v, r) \in HexDigits
<1>2. PlainInt(v) /\ WholeEnd(v) = SignSize(v) + 1
  BY BaseIsInt
<1>4. PlainInt(v)
  BY <1>2
<1>5. Prefixed(v, "x") \/ Prefixed(v, "o")
  <2> SUFFICES ASSUME ~ Prefixed(v, "x"), ~ Prefixed(v, "o") PROVE FALSE
    OBVIOUS
  <2>1. Run(v, SignSize(v), Digits) = Size(v)
    BY <1>4 DEF PlainInt
  <2> QED
    BY <1>2, <2>1, TextSize DEF WholeEnd, BaseAt
<1>6. SignSize(v) = 0 /\ 2 \in 0 .. Size(v)
  BY <1>5, NotDigits, TextSize DEF Prefixed, SignSize
<1>7. CASE Prefixed(v, "x")
  <2>1. Run(v, 2, HexDigits) = Size(v)
    BY <1>4, <1>7 DEF PlainInt
  <2> QED
    BY <1>6, <2>1, RunIs, TextSize
<1>8. CASE ~ Prefixed(v, "x")
  <2>1. Run(v, 2, Octals) = Size(v)
    BY <1>4, <1>5, <1>8 DEF PlainInt
  <2>2. \A r \in 2 .. Size(v) - 1 : At(v, r) \in Octals
    BY <1>6, <2>1, RunIs, TextSize
  <2> QED
    BY <1>6, <2>2, OctalsAreHex
<1> QED
  BY <1>7, <1>8

-----------------------------------------------------------------------------
(* The regular expressions, position by position. *)

(* All characters of a part are in S. *)
LEMMA PartIn ==
  ASSUME NEW v, v \in Seq(STRING), NEW a \in 0 .. Len(v), NEW b \in a .. Len(v), NEW S
  PROVE  AllIn(Part(v, a, b), S) <=> \A r \in a .. b - 1 : At(v, r) \in S
<1> DEFINE w == Part(v, a, b)
<1>1. Len(w) = b - a /\ \A n \in 1 .. b - a : w[n] = At(v, a + n - 1)
  BY PartIs
<1>2. a \in Nat /\ b \in Nat /\ a <= b
  OBVIOUS
<1> HIDE DEF w
<1>3. ASSUME AllIn(w, S), NEW r \in a .. b - 1 PROVE At(v, r) \in S
  <2>1. r - a + 1 \in 1 .. b - a /\ a + (r - a + 1) - 1 = r
    BY <1>2
  <2> QED
    BY <1>1, <1>3, <2>1 DEF AllIn
<1>4. ASSUME \A r \in a .. b - 1 : At(v, r) \in S PROVE AllIn(w, S)
  <2> SUFFICES ASSUME NEW n \in 1 .. Len(w) PROVE w[n] \in S
    BY DEF AllIn
  <2>1. n \in 1 .. b - a /\ a + n - 1 \in a .. b - 1
    BY <1>1, <1>2
  <2> QED
    BY <1>1, <1>4, <2>1
<1> QED
  BY <1>3, <1>4 DEF w

(* A part of a part is a part. *)
LEMMA PartOfPart ==
  ASSUME NEW v, v \in Seq(STRING), NEW a \in 0 .. Len(v), NEW b \in a .. Len(v),
         NEW c \in 0 .. b - a, NEW d \in c .. b - a
  PROVE  Part(Part(v, a, b), c, d) = Part(v, a + c, a + d)
<1> DEFINE w == Part(v, a, b)
           x == Part(w, c, d)
           y == Part(v, a + c, a + d)
<1>1. /\ w \in Seq(STRING) /\ Len(w) = b - a
      /\ \A n \in 1 .. b - a : w[n] = At(v, a + n - 1)
  BY PartIs
<1>2. /\ a \in Nat /\ b \in Nat /\ c \in Nat /\ d \in Nat /\ a <= b /\ c <= d /\ d <= b - a
      /\ Len(v) \in Nat /\ b <= Len(v)
  OBVIOUS
<1> HIDE DEF w
<1>3. c \in 0 .. Len(w) /\ d \in c .. Len(w)
  BY <1>1
<1>4. /\ x \in Seq(STRING) /\ Len(x) = d - c
      /\ \A n \in 1 .. d - c : x[n] = At(w, c + n - 1)
  BY <1>1, <1>3, PartIs
<1>5. a + c \in 0 .. Len(v) /\ a + d \in a + c .. Len(v)
  BY <1>2
<1>6. /\ y \in Seq(STRING) /\ Len(y) = (a + d) - (a + c)
      /\ \A n \in 1 .. (a + d) - (a + c) : y[n] = At(v, (a + c) + n - 1)
  BY <1>5, PartIs
<1> HIDE DEF x, y
<1>7. Len(x) = Len(y)
  BY <1>2, <1>4, <1>6
<1>8. ASSUME NEW n \in 1 .. Len(x) PROVE x[n] = y[n]
  <2>1. /\ n \in 1 .. d - c /\ n \in 1 .. (a + d) - (a + c)
        /\ c + n - 1 + 1 = c + n /\ c + n \in 1 .. b - a
        /\ a + (c + n) - 1 = (a + c) + n - 1
    BY <1>2, <1>4
  <2>2. x[n] = w[c + n]
    BY <1>4, <2>1 DEF At
  <2> QED
    BY <1>1, <1>6, <2>1, <2>2
<1> QED
  BY <1>4, <1>6, <1>7, <1>8, SeqEqual DEF x, y, w

(* An optional sign in front. *)
LEMMA OptSignIs ==
  ASSUME NEW v, v \in Seq(STRING), NEW a \in 0 .. Len(v)
  PROVE  OptSign(Part(v, 0, a)) <=> a = 0 \/ (a = 1 /\ At(v, 0) \in Signs)
<1>1. /\ Len(v) \in Nat /\ 0 \in 0 .. Len(v) /\ a \in 0 .. Len(v) /\ a - 0 = a
  OBVIOUS
<1>2. Len(Part(v, 0, a)) = a
  BY <1>1, PartIs
<1>3. AllIn(Part(v, 0, a), Signs) <=> \A r \in 0 .. a - 1 : At(v, r) \in Signs
  BY <1>1, PartIn
<1>4. a <= 1 <=> a = 0 \/ a = 1
  BY <1>1
<1>5. a = 1 => (\A r \in 0 .. a - 1 : At(v, r) \in Signs <=> At(v, 0) \in Signs)
  <2>1. a = 1 => \A r \in 0 .. a - 1 : r = 0
    OBVIOUS
  <2>2. a = 1 => 0 \in 0 .. a - 1
    OBVIOUS
  <2> QED
    BY <2>1, <2>2
<1>6. a = 0 => \A r \in 0 .. a - 1 : At(v, r) \in Signs
  OBVIOUS
<1> QED
  BY <1>2, <1>3, <1>4, <1>5, <1>6 DEF OptSign

(* Some digits and nothing else. *)
LEMMA SomeDigitsIs ==
  ASSUME NEW v, v \in Seq(STRING), NEW a \in 0 .. Len(v), NEW b \in a .. Len(v)
  PROVE  SomeIn(Part(v, a, b), Digits) <=>
           a < b /\ \A r \in a .. b - 1 : At(v, r) \in Digits
<1>1. Part(v, a, b) \in Seq(STRING) /\ Len(Part(v, a, b)) = b - a
  BY PartIs
<1>2. Part(v, a, b) # << >> <=> a < b
  BY <1>1
<1> QED
  BY <1>2, PartIn DEF SomeIn

(* The part from a place on is an integer. *)
LEMMA IntegerFrom ==
  ASSUME NEW v, v \in Seq(STRING), NEW p \in 0 .. Len(v)
  PROVE  CoreInt10(Part(v, p, Len(v))) <=>
           \E a \in {0, 1} :
             /\ p + a < Len(v)
             /\ a = 1 => At(v, p) \in Signs
             /\ \A r \in p + a .. Len(v) - 1 : At(v, r) \in Digits
<1> DEFINE w == Part(v, p, Len(v))
           n == Len(v)
           From(a) == /\ p + a < n
                      /\ a = 1 => At(v, p) \in Signs
                      /\ \A r \in p + a .. n - 1 : At(v, r) \in Digits
<1>1. p \in Nat /\ n \in Nat /\ p <= n /\ p \in 0 .. Len(v) /\ n \in p .. Len(v)
  OBVIOUS
<1>2. /\ w \in Seq(STRING) /\ Len(w) = n - p
      /\ \A k \in 1 .. n - p : w[k] = At(v, p + k - 1)
  BY <1>1, PartIs
<1> HIDE DEF w, n, From
<1>3. ASSUME NEW a \in 0 .. Len(w)
      PROVE  SomeIn(Part(w, a, Len(w)), Digits) <=>
               p + a < n /\ \A r \in p + a .. n - 1 : At(v, r) \in Digits
  <2>1. a \in 0 .. n - p /\ n - p \in a .. n - p /\ p + (n - p) = n
    BY <1>1, <1>2
  <2>2. Part(w, a, Len(w)) = Part(v, p + a, n)
    <3>1. p \in 0 .. Len(v) /\ n \in p .. Len(v)
      BY <1>1 DEF n
    <3>2. Part(Part(v, p, n), a, n - p) = Part(v, p + a, p + (n - p))
      BY <2>1, <3>1, PartOfPart
    <3>3. w = Part(v, p, n)
      BY DEF w, n
    <3> QED
      BY <1>2, <2>1, <3>2, <3>3
  <2>3. p + a \in 0 .. Len(v) /\ n \in p + a .. Len(v)
    BY <1>1, <2>1 DEF n
  <2> QED
    BY <2>2, <2>3, SomeDigitsIs
<1>4. ASSUME NEW a \in 0 .. Len(w)
      PROVE  OptSign(Part(w, 0, a)) <=> a = 0 \/ (a = 1 /\ At(v, p) \in Signs)
  <2>1. OptSign(Part(w, 0, a)) <=> a = 0 \/ (a = 1 /\ At(w, 0) \in Signs)
    BY <1>2, OptSignIs
  <2>2. a = 1 => At(w, 0) = At(v, p)
    <3>1. a = 1 => 1 \in 1 .. n - p /\ p + 1 - 1 = p /\ 0 + 1 = 1
      BY <1>1, <1>2
    <3>2. a = 1 => w[1] = At(v, p)
      BY <1>2, <3>1
    <3> QED
      BY <3>2 DEF At
  <2> QED
    BY <2>1, <2>2
<1>5. CoreInt10(w) <=> \E a \in 0 .. Len(w) : (a = 0 \/ a = 1) /\ From(a)
  BY <1>3, <1>4 DEF CoreInt10, From
<1>6. (\E a \in 0 .. Len(w) : (a = 0 \/ a = 1) /\ From(a)) <=> \E a \in {0, 1} : From(a)
  <2>1. \A a \in {0, 1} : From(a) => a \in 0 .. Len(w)
    BY <1>1, <1>2 DEF From
  <2> QED
    BY <2>1
<1> QED
  BY <1>5, <1>6 DEF From, n, w

-----------------------------------------------------------------------------
(* plain_int. *)

LEMMA SignsAre ==
  ASSUME NEW v, IsText(v)
  PROVE  /\ SignSize(v) = 1 <=> At(v, 0) \in Signs
         /\ SignSize(v) = 0 <=> At(v, 0) \notin Signs
BY DEF SignSize

LEMMA DecimalsAre ==
  ASSUME NEW v, IsText(v)
  PROVE  CoreInt10(v) <=> AllDigits(v)
<1>1. /\ v \in Seq(STRING) /\ Len(v) \in Nat /\ Len(v) = Size(v) /\ Len(v) > 0
      /\ SignSize(v) \in {0, 1}
  BY TextSize DEF IsText
<1>2. Part(v, 0, Len(v)) = v
  <2>1. /\ Part(v, 0, Len(v)) \in Seq(STRING)
        /\ Len(Part(v, 0, Len(v))) = Len(v) - 0
        /\ \A n \in 1 .. Len(v) - 0 : Part(v, 0, Len(v))[n] = At(v, 0 + n - 1)
    <3>1. 0 \in 0 .. Len(v) /\ Len(v) \in 0 .. Len(v)
      BY <1>1
    <3> QED
      BY <1>1, <3>1, PartIs
  <2>2. \A n \in 1 .. Len(v) : Part(v, 0, Len(v))[n] = v[n]
    BY <1>1, <2>1 DEF At
  <2> QED
    BY <1>1, <2>1, <2>2, SeqEqual
<1>3. CoreInt10(v) <=>
        \E a \in {0, 1} : /\ a < Len(v)
                          /\ a = 1 => At(v, 0) \in Signs
                          /\ \A r \in a .. Len(v) - 1 : At(v, r) \in Digits
  <2>1. 0 \in 0 .. Len(v)
    BY <1>1
  <2>2. \A a \in {0, 1} : 0 + a = a
    OBVIOUS
  <2> QED
    BY <1>1, <1>2, <2>1, <2>2, IntegerFrom
<1>4. ASSUME NEW a \in {0, 1}, a < Len(v), a = 1 => At(v, 0) \in Signs,
             \A r \in a .. Len(v) - 1 : At(v, r) \in Digits
      PROVE  AllDigits(v)
  <2>1. a = SignSize(v)
    <3>1. CASE a = 1
      BY <1>4, <3>1, SignsAre
    <3>2. CASE a = 0
      <4>1. At(v, 0) \in Digits
        BY <1>1, <1>4, <3>2
      <4>2. At(v, 0) \notin Signs
        BY <4>1, NotDigits DEF Signs
      <4> QED
        BY <3>2, <4>2, SignsAre
    <3> QED
      BY <3>1, <3>2
  <2> QED
    BY <1>1, <1>4, <2>1 DEF AllDigits
<1>5. AllDigits(v) => CoreInt10(v)
  <2>1. SignSize(v) = 1 => At(v, 0) \in Signs
    BY SignsAre
  <2> QED
    BY <1>1, <1>3, <2>1 DEF AllDigits
<1> QED
  BY <1>3, <1>4, <1>5

LEMMA PrefixedIs ==
  ASSUME NEW v, IsText(v), NEW c
  PROVE  Prefixed(v, c) <=> Len(v) > 2 /\ Part(v, 0, 2) = << "0", c >>
<1>1. v \in Seq(STRING) /\ Len(v) \in Nat /\ Len(v) = Size(v)
  BY TextSize DEF IsText
<1>2. ASSUME Len(v) > 2
      PROVE  Part(v, 0, 2) = << "0", c >> <=> At(v, 0) = "0" /\ At(v, 1) = c
  <2>1. 0 \in 0 .. Len(v) /\ 2 \in 0 .. Len(v)
    BY <1>1, <1>2
  <2>2. /\ Part(v, 0, 2) \in Seq(STRING) /\ Len(Part(v, 0, 2)) = 2 - 0
        /\ \A n \in 1 .. 2 - 0 : Part(v, 0, 2)[n] = At(v, 0 + n - 1)
    BY <1>1, <2>1, PartIs
  <2>3. /\ Len(Part(v, 0, 2)) = 2
        /\ Part(v, 0, 2)[1] = At(v, 0) /\ Part(v, 0, 2)[2] = At(v, 1)
    BY <2>2
  <2>4. Part(v, 0, 2) = << Part(v, 0, 2)[1], Part(v, 0, 2)[2] >>
    BY <2>2, <2>3
  <2> QED
    BY <2>3, <2>4
<1> QED
  BY <1>1, <1>2 DEF Prefixed

LEMMA IntegersAre ==
  ASSUME NEW v, IsText(v)
  PROVE  PlainInt(v) <=> CoreInt(v)
<1>1. /\ v \in Seq(STRING) /\ Len(v) \in Nat /\ Len(v) = Size(v) /\ Len(v) > 0
      /\ SignSize(v) \in 0 .. Size(v)
  BY TextSize DEF IsText
<1>2. ASSUME NEW S, NEW p \in 0 .. Size(v)
      PROVE  Run(v, p, S) = Size(v) <=> \A r \in p .. Size(v) - 1 : At(v, r) \in S
  <2>1. Run(v, p, S) = Size(v) => \A r \in p .. Size(v) - 1 : At(v, r) \in S
    BY <1>1, RunIs
  <2>2. Size(v) \in p .. Size(v) /\ ~ (Size(v) < Size(v))
    BY <1>1
  <2>3. (\A r \in p .. Size(v) - 1 : At(v, r) \in S) => Run(v, p, S) = Size(v)
    BY <1>1, <2>2, RunAt
  <2> QED
    BY <2>1, <2>3
<1>3. ASSUME NEW S, Len(v) > 2
      PROVE  Run(v, 2, S) = Size(v) <=> AllIn(Part(v, 2, Len(v)), S)
  <2>1. 2 \in 0 .. Size(v) /\ 2 \in 0 .. Len(v) /\ Len(v) \in 2 .. Len(v)
    BY <1>1, <1>3
  <2> QED
    BY <1>1, <1>2, <2>1, PartIn
<1>4. ASSUME Prefixed(v, "x") PROVE PlainInt(v) <=> CoreInt(v)
  <2>1. Len(v) > 2 /\ Part(v, 0, 2) = << "0", "x" >>
    BY <1>4, PrefixedIs
  <2>2. Part(v, 0, 2) # << "0", "o" >>
    BY <2>1
  <2>3. ~ AllDigits(v)
    BY <1>1, <1>4, NotDigits, SignsAre DEF Prefixed, AllDigits
  <2> QED
    BY <1>3, <1>4, <2>1, <2>2, <2>3, DecimalsAre DEF PlainInt, CoreInt, CoreIntBase
<1>5. ASSUME ~ Prefixed(v, "x"), Prefixed(v, "o") PROVE PlainInt(v) <=> CoreInt(v)
  <2>1. Len(v) > 2 /\ Part(v, 0, 2) = << "0", "o" >>
    BY <1>5, PrefixedIs
  <2>2. Part(v, 0, 2) # << "0", "x" >>
    BY <2>1
  <2>3. ~ AllDigits(v)
    BY <1>1, <1>5, NotDigits, SignsAre DEF Prefixed, AllDigits
  <2> QED
    BY <1>3, <1>5, <2>1, <2>2, <2>3, DecimalsAre DEF PlainInt, CoreInt, CoreIntBase
<1>6. ASSUME ~ Prefixed(v, "x"), ~ Prefixed(v, "o") PROVE PlainInt(v) <=> CoreInt(v)
  <2>1. ~ CoreIntBase(v)
    BY <1>6, PrefixedIs DEF CoreIntBase
  <2>2. PlainInt(v) <=> AllDigits(v)
    BY <1>1, <1>2, <1>6 DEF PlainInt, AllDigits
  <2> QED
    BY <2>1, <2>2, DecimalsAre DEF CoreInt
<1> QED
  BY <1>4, <1>5, <1>6

-----------------------------------------------------------------------------
(* plain_float. *)

(* The scan finds a mantissa and an exponent. *)
LEMMA ScannedIsFloat ==
  ASSUME NEW v, IsText(v), DecimalFloat(v)
  PROVE  CoreFloat(v)
<1> DEFINE a == SignSize(v)
           b == FracEnd(v)
           n == Len(v)
           w == Part(v, a, b)
           x == Part(v, b, n)
<1>1. /\ v \in Seq(STRING) /\ n \in Nat /\ n = Size(v) /\ n > 0 /\ a \in {0, 1}
  BY TextSize DEF IsText
<1>2. /\ a \in Nat /\ b \in Nat /\ a <= WholeEnd(v) /\ WholeEnd(v) <= b /\ b <= n
      /\ WholeEnd(v) \in Nat
  BY <1>1, FloatScan
<1>3. /\ a \in 0 .. Len(v) /\ b \in a .. Len(v) /\ b \in 0 .. Len(v)
      /\ Len(v) \in b .. Len(v)
  BY <1>1, <1>2
<1>4. OptSign(Part(v, 0, a))
  <2>1. a = 0 \/ (a = 1 /\ At(v, 0) \in Signs)
    BY <1>1, SignsAre
  <2> QED
    BY <1>1, <1>3, <2>1, OptSignIs
<1>5. /\ w \in Seq(STRING) /\ Len(w) = b - a
      /\ \A k \in 1 .. b - a : w[k] = At(v, a + k - 1)
  BY <1>1, <1>3, PartIs
<1>6. /\ x \in Seq(STRING) /\ Len(x) = n - b
      /\ \A k \in 1 .. n - b : x[k] = At(v, b + k - 1)
  BY <1>1, <1>3, PartIs
<1> HIDE DEF w, x, a, b, n
<1>7. CoreMantissa(w)
  <2>1. CASE HasDot(v)
    <3> DEFINE d == WholeEnd(v) - a + 1
    <3>1. /\ At(v, WholeEnd(v)) = "." /\ WholeEnd(v) + 1 <= b
          /\ \A r \in a .. WholeEnd(v) - 1 : At(v, r) \in Digits
          /\ \A r \in WholeEnd(v) + 1 .. b - 1 : At(v, r) \in Digits
      BY <2>1, FloatScan DEF HasDot, a, b
    <3>2. /\ d \in 1 .. b - a /\ a + d - 1 = WholeEnd(v) /\ d - 1 \in 0 .. b - a
          /\ 0 \in 0 .. b - a /\ d \in 0 .. b - a /\ b - a \in d .. b - a
          /\ a + d = WholeEnd(v) + 1 /\ a + (b - a) = b /\ a + 0 = a
          /\ a + (d - 1) = WholeEnd(v)
      BY <1>2, <3>1
    <3> HIDE DEF d
    <3>3. w[d] = "."
      BY <1>5, <3>1, <3>2
    <3>4. AllIn(Part(w, 0, d - 1), Digits)
      <4>1. b \in a .. Len(v) /\ d - 1 \in 0 .. b - a
        BY <1>3, <3>2
      <4>2. Part(w, 0, d - 1) = Part(v, a, WholeEnd(v))
        BY <1>1, <1>3, <3>2, <4>1, PartOfPart DEF w
      <4>3. WholeEnd(v) \in a .. Len(v)
        BY <1>2 DEF n
      <4> QED
        BY <1>1, <1>3, <3>1, <4>2, <4>3, PartIn
    <3>5. AllIn(Part(w, d, Len(w)), Digits)
      <4>2. Part(w, d, Len(w)) = Part(v, WholeEnd(v) + 1, b)
        BY <1>1, <1>3, <1>5, <3>2, PartOfPart DEF w
      <4>3. WholeEnd(v) + 1 \in 0 .. Len(v) /\ b \in WholeEnd(v) + 1 .. Len(v)
        BY <1>2, <3>1 DEF n
      <4> QED
        BY <1>1, <3>1, <4>2, <4>3, PartIn
    <3>6. Len(w) > 1
      BY <1>2, <1>5, <3>1 DEF DecimalFloat, HasDigit, a, b
    <3>7. d \in 1 .. Len(w)
      BY <1>5, <3>2
    <3> QED
      BY <3>3, <3>4, <3>5, <3>6, <3>7 DEF CoreMantissa
  <2>2. CASE ~ HasDot(v)
    <3>1. b = WholeEnd(v)
      BY <2>2 DEF FracEnd, b
    <3>2. a < b
      BY <1>2, <3>1 DEF DecimalFloat, HasDigit, a, b
    <3>3. \A r \in a .. b - 1 : At(v, r) \in Digits
      BY <3>1, FloatScan DEF a
    <3> QED
      BY <1>1, <1>3, <3>2, <3>3, SomeDigitsIs DEF CoreMantissa, w
  <2> QED
    BY <2>1, <2>2
<1>8. CoreExponent(x)
  <2>1. CASE ~ HasExp(v)
    <3>1. b = n
      BY <1>1, <2>1 DEF DecimalFloat, b
    <3> QED
      BY <1>2, <1>6, <3>1 DEF CoreExponent
  <2>2. CASE HasExp(v)
    <3>1. At(v, b) \in {"e", "E"} /\ b < n
      BY <1>1, <2>2 DEF HasExp, b
    <3>2. /\ ExpFrom(v) < n /\ Run(v, ExpFrom(v), Digits) = Size(v)
      BY <1>1, <2>2 DEF DecimalFloat
    <3> DEFINE s == ExpFrom(v) - (b + 1)
    <3>3. s \in {0, 1} /\ b + 1 + s = ExpFrom(v) /\ (s = 1 => At(v, b + 1) \in Signs)
      BY <1>2 DEF ExpFrom, b
    <3>4. \A r \in ExpFrom(v) .. n - 1 : At(v, r) \in Digits
      <4>1. ExpFrom(v) \in 0 .. Size(v)
        BY <1>1, <1>2, <3>2, <3>3
      <4> QED
        BY <1>1, <3>2, <4>1, RunIs DEF n
    <3> HIDE DEF s
    <3>5. b + 1 \in 0 .. Len(v)
      BY <1>2, <3>1 DEF n
    <3>6. CoreInt10(Part(v, b + 1, Len(v)))
      BY <1>1, <3>2, <3>3, <3>4, <3>5, IntegerFrom DEF n
    <3>7. Part(x, 1, Len(x)) = Part(v, b + 1, Len(v))
      <4>1. 1 \in 0 .. n - b /\ n - b \in 1 .. n - b /\ b + (n - b) = n
        BY <1>1, <1>2, <3>1
      <4>2. n \in b .. Len(v)
        BY <1>3 DEF n
      <4>3. Part(Part(v, b, n), 1, n - b) = Part(v, b + 1, b + (n - b))
        BY <1>1, <1>3, <4>1, <4>2, PartOfPart
      <4> QED
        BY <1>6, <4>1, <4>3 DEF x, n
    <3>8. x[1] = At(v, b)
      <4>1. 1 \in 1 .. n - b /\ b + 1 - 1 = b
        BY <1>1, <1>2, <3>1
      <4> QED
        BY <1>6, <4>1
    <3> QED
      BY <3>1, <3>6, <3>7, <3>8 DEF CoreExponent
  <2> QED
    BY <2>1, <2>2
<1> QED
  BY <1>1, <1>3, <1>4, <1>7, <1>8 DEF CoreFloat, w, x, n

LEMMA FloatIsCore ==
  ASSUME NEW v, IsText(v), PlainFloat(v)
  PROVE  CoreFloat(v)
<1>1. CASE SubSeq(v, SignSize(v) + 1, Size(v)) \in Infinities
  <2>1. v \in Seq(STRING) /\ SignSize(v) \in {0, 1} /\ SignSize(v) \in 0 .. Len(v)
    BY TextSize DEF IsText
  <2>2. SignSize(v) = 0 \/ (SignSize(v) = 1 /\ At(v, 0) \in Signs)
    BY <2>1, SignsAre
  <2>3. OptSign(Part(v, 0, SignSize(v)))
    BY <2>1, <2>2, OptSignIs
  <2>4. Part(v, SignSize(v), Len(v)) \in Infinities
    BY <1>1, TextSize DEF Part
  <2> QED
    BY <2>1, <2>3, <2>4 DEF CoreFloat
<1>2. CASE v \in NotANumbers
  BY <1>2 DEF CoreFloat
<1>3. CASE DecimalFloat(v)
  BY <1>3, ScannedIsFloat
<1> QED
  BY <1>1, <1>2, <1>3 DEF PlainFloat

(* The scan of a text that has a sign before a, and its digits from there. *)
LEMMA SignBefore ==
  ASSUME NEW v, IsText(v), NEW a \in {0, 1}, a <= Len(v), OptSign(Part(v, 0, a)),
         a < Len(v) => At(v, a) \notin Signs
  PROVE  a = SignSize(v)
<1>1. v \in Seq(STRING) /\ Len(v) \in Nat /\ Len(v) > 0 /\ a \in 0 .. Len(v)
  BY TextSize DEF IsText
<1>2. a = 0 \/ (a = 1 /\ At(v, 0) \in Signs)
  BY <1>1, OptSignIs
<1>3. a = 0 => At(v, 0) \notin Signs
  BY <1>1
<1> QED
  BY <1>2, <1>3, SignsAre

(* What follows the digits of a float is nothing or an exponent. *)
LEMMA ExponentFrom ==
  ASSUME NEW v, IsText(v), NEW b \in 0 .. Len(v), CoreExponent(Part(v, b, Len(v)))
  PROVE  \/ b = Len(v)
         \/ /\ b < Len(v) /\ At(v, b) \in {"e", "E"}
            /\ \E s \in {0, 1} : /\ b + 1 + s < Len(v)
                                 /\ s = 1 => At(v, b + 1) \in Signs
                                 /\ \A r \in b + 1 + s .. Len(v) - 1 : At(v, r) \in Digits
<1> DEFINE n == Len(v)
           x == Part(v, b, n)
<1>1. v \in Seq(STRING) /\ n \in Nat /\ b \in Nat /\ b <= n /\ n \in b .. Len(v)
  BY TextSize DEF IsText
<1>2. /\ x \in Seq(STRING) /\ Len(x) = n - b
      /\ \A k \in 1 .. n - b : x[k] = At(v, b + k - 1)
  BY <1>1, PartIs
<1> HIDE DEF n, x
<1>3. CASE x = << >>
  BY <1>1, <1>2, <1>3 DEF n
<1>4. CASE x # << >>
  <2>1. x[1] \in {"e", "E"} /\ CoreInt10(Part(x, 1, Len(x)))
    BY <1>4 DEF CoreExponent, x, n
  <2>2. b < n
    BY <1>1, <1>2, <1>4
  <2>3. /\ 1 \in 0 .. n - b /\ n - b \in 1 .. n - b /\ b + (n - b) = n
        /\ 1 \in 1 .. n - b /\ b + 1 - 1 = b /\ b + 1 \in 0 .. Len(v)
    BY <1>1, <2>2 DEF n
  <2>4. Part(x, 1, Len(x)) = Part(v, b + 1, Len(v))
    <3>1. /\ b \in 0 .. Len(v) /\ n \in b .. Len(v)
          /\ 1 \in 0 .. n - b /\ n - b \in 1 .. n - b
      BY <1>1, <2>3
    <3> DEFINE d == n - b
    <3> HIDE DEF d
    <3>2. Part(Part(v, b, n), 1, d) = Part(v, b + 1, b + d)
      <4>1. d \in 1 .. n - b
        BY <3>1 DEF d
      <4>2. v \in Seq(STRING)
        BY <1>1
      <4> QED
        BY <3>1, <4>1, <4>2, PartOfPart
    <3> QED
      BY <1>2, <2>3, <3>2 DEF x, n, d
  <2>5. At(v, b) \in {"e", "E"}
    <3>1. x[1] = At(v, b)
      BY <1>2, <2>3
    <3> QED
      BY <2>1, <3>1
  <2>6. CoreInt10(Part(v, b + 1, Len(v)))
    BY <2>1, <2>4
  <2> QED
    BY <1>1, <2>2, <2>3, <2>5, <2>6, IntegerFrom DEF n
<1> QED
  BY <1>3, <1>4

(* The scan comes to the end of a text whose digits end at b. *)
LEMMA ScanToEnd ==
  ASSUME NEW v, IsText(v), NEW b \in 0 .. Len(v), FracEnd(v) = b,
         HasDigit(v), b = Len(v) => HasDot(v),
         CoreExponent(Part(v, b, Len(v)))
  PROVE  DecimalFloat(v)
<1>1. v \in Seq(STRING) /\ Len(v) \in Nat /\ Len(v) = Size(v) /\ b \in Nat
  BY TextSize DEF IsText
<1>2. CASE b = Len(v)
  BY <1>1, <1>2 DEF DecimalFloat, HasExp
<1>3. CASE b # Len(v)
  <2>1. b < Len(v) /\ At(v, b) \in {"e", "E"}
    BY <1>3, ExponentFrom
  <2>2. PICK s \in {0, 1} : /\ b + 1 + s < Len(v)
                            /\ s = 1 => At(v, b + 1) \in Signs
                            /\ \A r \in b + 1 + s .. Len(v) - 1 : At(v, r) \in Digits
    BY <1>3, ExponentFrom
  <2>3. HasExp(v)
    BY <1>1, <2>1 DEF HasExp
  <2>4. ExpFrom(v) = b + 1 + s
    <3>1. CASE s = 1
      BY <1>1, <2>2, <3>1 DEF ExpFrom
    <3>2. CASE s = 0
      <4>1. b + 1 \in b + 1 + s .. Len(v) - 1
        BY <1>1, <2>2, <3>2
      <4>2. At(v, b + 1) \in Digits
        BY <2>2, <4>1
      <4>3. At(v, b + 1) \notin Signs
        BY <4>2, NotDigits DEF Signs
      <4> QED
        BY <1>1, <3>2, <4>3 DEF ExpFrom
    <3> QED
      BY <3>1, <3>2
  <2>5. Run(v, ExpFrom(v), Digits) = Size(v)
    <3>1. ExpFrom(v) \in 0 .. Size(v) /\ Size(v) \in ExpFrom(v) .. Size(v)
      BY <1>1, <2>2, <2>4
    <3>2. \A r \in ExpFrom(v) .. Size(v) - 1 : At(v, r) \in Digits
      BY <1>1, <2>2, <2>4
    <3>3. ~ (Size(v) < Size(v))
      BY <1>1
    <3> QED
      BY <1>1, <3>1, <3>2, <3>3, RunAt
  <2> QED
    BY <1>1, <2>2, <2>3, <2>4, <2>5 DEF DecimalFloat
<1> QED
  BY <1>2, <1>3

LEMMA CoreIsScanned ==
  ASSUME NEW v, IsText(v), CoreFloat(v)
  PROVE  PlainInt(v) \/ PlainFloat(v)
<1> DEFINE n == Len(v)
<1>1. /\ v \in Seq(STRING) /\ n \in Nat /\ n = Size(v) /\ n > 0
      /\ SignSize(v) \in {0, 1}
  BY TextSize DEF IsText
<1> HIDE DEF n
<1>2. ASSUME NEW a \in {0, 1}, OptSign(Part(v, 0, a)), Part(v, a, Len(v)) \in Infinities
      PROVE  PlainFloat(v)
  <2>1. a \in 0 .. Len(v) /\ Len(v) \in a .. Len(v)
    BY <1>1 DEF n
  <2>2. /\ Len(Part(v, a, Len(v))) = Len(v) - a
        /\ \A k \in 1 .. Len(v) - a : Part(v, a, Len(v))[k] = At(v, a + k - 1)
    BY <1>1, <2>1, PartIs
  <2>3. \A u \in Infinities : Len(u) = 4 /\ u[1] = "."
    BY DEF Infinities
  <2>4. 1 \in 1 .. Len(v) - a /\ a + 1 - 1 = a /\ a < Len(v)
    BY <1>1, <1>2, <2>1, <2>2, <2>3 DEF n
  <2>5. At(v, a) = "."
    BY <1>2, <2>2, <2>3, <2>4
  <2>6. a = SignSize(v)
    BY <1>2, <2>1, <2>4, <2>5, NotDigits, SignBefore
  <2> QED
    BY <1>1, <1>2, <2>6 DEF PlainFloat, Part, n
<1>3. ASSUME NEW a \in {0, 1}, NEW b \in 0 .. Len(v),
             OptSign(Part(v, 0, a)), CoreMantissa(Part(v, a, b)),
             CoreExponent(Part(v, b, Len(v)))
      PROVE  PlainInt(v) \/ PlainFloat(v)
  <2> DEFINE w == Part(v, a, b)
  <2>1. b \in Nat /\ b <= n /\ Len(v) = n /\ a \in Nat
    BY <1>1 DEF n
  <2>2. a <= b
    <3>1. a > b => w = << >>
      <4>1. a > b => (a + 1 > b)
        BY <2>1
      <4> QED
        BY <2>1, <4>1, SubSeqEmpty DEF Part
    <3>2. w # << >>
      BY <1>3 DEF CoreMantissa, SomeIn
    <3> QED
      BY <2>1, <3>1, <3>2
  <2>3. a \in 0 .. Len(v) /\ b \in a .. Len(v)
    BY <2>1, <2>2
  <2>4. /\ w \in Seq(STRING) /\ Len(w) = b - a
        /\ \A k \in 1 .. b - a : w[k] = At(v, a + k - 1)
    BY <1>1, <2>3, PartIs
  <2> HIDE DEF w
  <2>5. CASE SomeIn(w, Digits)
    <3>1. a < b /\ \A r \in a .. b - 1 : At(v, r) \in Digits
      BY <1>1, <2>3, <2>5, SomeDigitsIs DEF w
    <3>2. At(v, a) \in Digits
      BY <2>1, <3>1
    <3>3. a = SignSize(v)
      <4>1. At(v, a) \notin Signs
        BY <3>2, NotDigits DEF Signs
      <4> QED
        BY <1>3, <2>1, <2>2, <4>1, SignBefore
    <3>4. CASE b = n
      <4>1. AllDigits(v)
        BY <1>1, <2>1, <3>1, <3>3, <3>4 DEF AllDigits
      <4> QED
        BY <4>1, DecimalsAre, IntegersAre DEF CoreInt
    <3>5. CASE b # n
      <4>1. b < Len(v) /\ At(v, b) \in {"e", "E"}
        BY <1>3, <2>1, <3>5, ExponentFrom
      <4>2. At(v, b) \notin Digits /\ At(v, b) # "."
        BY <4>1, NotDigits
      <4>3. SignSize(v) \in 0 .. Size(v) /\ b \in SignSize(v) .. Size(v)
        BY <1>1, <2>1, <2>2, <3>3
      <4>4. WholeEnd(v) = b
        BY <1>1, <2>1, <3>1, <3>3, <4>2, <4>3, RunAt DEF WholeEnd
      <4>5. ~ HasDot(v) /\ FracEnd(v) = b
        BY <4>2, <4>4 DEF HasDot, FracEnd
      <4>6. HasDigit(v)
        BY <2>1, <3>1, <3>3, <4>4 DEF HasDigit
      <4> QED
        BY <1>3, <2>1, <3>5, <4>5, <4>6, ScanToEnd DEF PlainFloat
    <3> QED
      BY <3>4, <3>5
  <2>6. CASE ~ SomeIn(w, Digits)
    <3>1. PICK c \in 1 .. Len(w) :
            /\ w[c] = "."
            /\ AllIn(Part(w, 0, c - 1), Digits) /\ AllIn(Part(w, c, Len(w)), Digits)
            /\ Len(w) > 1
      BY <1>3, <2>6 DEF CoreMantissa, w
    <3>2. /\ c \in Nat /\ 1 <= c /\ c <= b - a /\ b - a > 1
          /\ c \in 1 .. b - a
          /\ c - 1 \in 0 .. b - a /\ 0 \in 0 .. b - a /\ c \in 0 .. b - a
          /\ b - a \in c .. b - a /\ a + (b - a) = b /\ a + 0 = a
          /\ a + c - 1 = a + (c - 1) /\ c - 1 \in 0 .. b - a
      BY <2>1, <2>2, <2>4, <3>1
    <3>3. At(v, a + (c - 1)) = "."
      BY <2>4, <3>1, <3>2
    <3>4. \A r \in a .. a + (c - 1) - 1 : At(v, r) \in Digits
      <4>1. Part(w, 0, c - 1) = Part(v, a, a + (c - 1))
        BY <1>1, <2>3, <3>2, PartOfPart DEF w
      <4>2. a + (c - 1) \in a .. Len(v)
        BY <2>1, <3>2
      <4> QED
        BY <1>1, <2>3, <3>1, <4>1, <4>2, PartIn
    <3>5. \A r \in a + c .. b - 1 : At(v, r) \in Digits
      <4>1. Part(w, c, Len(w)) = Part(v, a + c, b)
        BY <1>1, <2>3, <2>4, <3>2, PartOfPart DEF w
      <4>2. a + c \in 0 .. Len(v) /\ b \in a + c .. Len(v)
        BY <2>1, <3>2
      <4> QED
        BY <1>1, <3>1, <4>1, <4>2, PartIn
    <3>6. a = SignSize(v)
      <4>1. At(v, a) \in Digits \/ At(v, a) = "."
        <5>1. CASE c = 1
          BY <2>1, <3>3, <5>1
        <5>2. CASE c # 1
          BY <2>1, <3>2, <3>4, <5>2
        <5> QED
          BY <5>1, <5>2
      <4>2. At(v, a) \notin Signs
        BY <4>1, NotDigits DEF Signs
      <4> QED
        BY <1>3, <2>1, <2>2, <4>2, SignBefore
    <3>7. WholeEnd(v) = a + (c - 1)
      <4>1. a \in 0 .. n /\ a + (c - 1) \in a .. n
        BY <2>1, <2>2, <3>2
      <4>2. /\ SignSize(v) \in 0 .. Size(v)
            /\ a + (c - 1) \in SignSize(v) .. Size(v)
        BY <1>1, <3>6, <4>1
      <4> QED
        BY <1>1, <2>1, <3>3, <3>4, <3>6, <4>2, NotDigits, RunAt, SMTT(30) DEF WholeEnd
    <3>8. HasDot(v)
      BY <1>1, <2>1, <3>2, <3>3, <3>7 DEF HasDot
    <3>9. FracEnd(v) = b
      <4>1. WholeEnd(v) + 1 = a + c
        BY <2>1, <3>2, <3>7
      <4>2. a + c \in 0 .. Size(v) /\ b \in a + c .. Size(v)
        BY <1>1, <2>1, <3>2
      <4>3. b < Size(v) => At(v, b) \notin Digits
        <5>1. b < Size(v) => At(v, b) \in {"e", "E"}
          BY <1>1, <1>3, <2>1, ExponentFrom
        <5> QED
          BY <5>1, NotDigits
      <4>4. Run(v, a + c, Digits) = b
        BY <1>1, <2>1, <3>5, <4>2, <4>3, RunAt
      <4> QED
        BY <3>8, <4>1, <4>4 DEF FracEnd
    <3>10. HasDigit(v)
      BY <2>1, <3>2, <3>6, <3>7, <3>9 DEF HasDigit
    <3> QED
      BY <1>3, <3>8, <3>9, <3>10, ScanToEnd DEF PlainFloat
  <2> QED
    BY <2>5, <2>6
<1>4. CASE v \in NotANumbers
  BY <1>4 DEF PlainFloat
<1> QED
  BY <1>2, <1>3, <1>4 DEF CoreFloat

(***************************************************************************)
(* plain_int and plain_float together take exactly the texts that the core *)
(* schema makes numbers, and is_integer tells its integers from its        *)
(* floats.  This is about every text, of any length and characters.        *)
(***************************************************************************)
THEOREM CoreSchema ==
  ASSUME NEW v, v \in Seq(STRING), v # << >>
  PROVE  /\ PlainInt(v) \/ PlainFloat(v) <=> CoreNumber(v)
         /\ PlainInt(v) \/ PlainFloat(v) => (IsInteger(v) <=> CoreInt(v))
<1>1. /\ IsText(v) /\ Len(v) \in Nat /\ Len(v) = Size(v) /\ Len(v) > 0
      /\ SignSize(v) \in {0, 1} /\ SignSize(v) <= Len(v)
  BY TextSize DEF IsText
<1>2. PlainInt(v) \/ PlainFloat(v) <=> CoreNumber(v)
  BY <1>1, IntegersAre, FloatIsCore, CoreIsScanned DEF CoreNumber
<1>3. ASSUME CoreInt(v) PROVE IsInteger(v)
  <2>1. CASE CoreIntBase(v)
    BY <1>1, <2>1, PrefixedIs DEF CoreIntBase, IsInteger
  <2>2. CASE AllDigits(v)
    <3>1. ASSUME NEW k \in 1 .. Size(v) PROVE v[k] \notin {".", "e", "E"}
      <4>1. k - 1 + 1 = k
        BY <1>1
      <4>2. CASE k - 1 < SignSize(v)
        <5>1. v[k] \in Signs
          BY <1>1, <4>2, SignsAre DEF At
        <5> QED
          BY <5>1 DEF Signs
      <4>3. CASE ~ (k - 1 < SignSize(v))
        <5>1. k - 1 \in SignSize(v) .. Size(v) - 1
          BY <1>1, <4>3
        <5>2. At(v, k - 1) \in Digits
          BY <2>2, <5>1 DEF AllDigits
        <5> QED
          BY <4>1, <5>2, NotDigits DEF At
      <4> QED
        BY <4>2, <4>3
    <3> QED
      BY <3>1 DEF IsInteger
  <2> QED
    BY <1>1, <1>3, <2>1, <2>2, DecimalsAre DEF CoreInt
<1>4. ASSUME PlainInt(v) \/ PlainFloat(v), IsInteger(v) PROVE CoreInt(v)
  <2>1. CASE Prefixed(v, "x") \/ Prefixed(v, "o")
    <3>1. BaseAt(v, SignSize(v))
      BY <1>1, <2>1, NotDigits, SignsAre DEF Prefixed, BaseAt
    <3> QED
      BY <1>1, <1>4, <3>1, BaseIsInt, IntegersAre
  <2>2. CASE ~ (Prefixed(v, "x") \/ Prefixed(v, "o"))
    <3>1. \A k \in 1 .. Size(v) : v[k] \notin {".", "e", "E"}
      BY <1>4, <2>2 DEF IsInteger
    <3>2. \A r \in 0 .. Size(v) - 1 : At(v, r) \notin {".", "e", "E"}
      BY <1>1, <3>1 DEF At
    <3>3. ~ SpecialAt(v, SignSize(v))
      BY <1>1, <3>2 DEF SpecialAt
    <3>4. ~ DecimalFloat(v)
      <4>1. WholeEnd(v) \in Nat /\ FracEnd(v) \in Nat
        BY <1>1, FloatScan
      <4> QED
        BY <1>1, <3>2, <4>1 DEF DecimalFloat, HasDot, HasExp
    <3> QED
      BY <1>1, <1>4, <3>3, <3>4, WordsAreSpecial, IntegersAre DEF PlainFloat
  <2> QED
    BY <2>1, <2>2
<1> QED
  BY <1>2, <1>3, <1>4


-----------------------------------------------------------------------------
(***************************************************************************)
(* Where the loops stand, in the terms of the scans of plain_float.  Of    *)
(* what follows i each loop knows what resolve_plain has made sure of.     *)
(***************************************************************************)
Where ==
  /\ pc = "sign"   => PlainInt(text) \/ PlainFloat(text)
  /\ pc = "prefix" => /\ PlainInt(text) \/ PlainFloat(text)
                      /\ i = SignSize(text)
  /\ pc = "based"  => /\ 2 <= i
                      /\ \A r \in 2 .. Size(text) - 1 : At(text, r) \in HexDigits
  /\ pc = "whole"  => /\ Numeral(text)
                      /\ SignSize(text) <= i /\ i <= WholeEnd(text)
  /\ pc = "fraction" => /\ Numeral(text) /\ HasDot(text)
                        /\ WholeEnd(text) < i /\ i <= FracEnd(text)
  /\ pc = "exponent" => Numeral(text) /\ i = FracEnd(text)
  /\ pc = "digits" => /\ HasExp(text) /\ ExpFrom(text) <= i
                      /\ \A r \in ExpFrom(text) .. Size(text) - 1 : At(text, r) \in Digits
  /\ pc = "scale"  => i = Size(text)

IInv == IsText(text) /\ i \in 0 .. Size(text) /\ Where

LEMMA InitInv == Init => IInv
BY TextsAssumption DEF Init, IInv, IsText, IsScalar, Where, Size

(* The scan of plain_float in a text of digits, and in any numeral. *)
LEMMA NumeralScan ==
  ASSUME NEW v, IsText(v), Numeral(v)
  PROVE  /\ HasDot(v) => DecimalFloat(v)
         /\ HasExp(v) =>
              /\ FracEnd(v) + 1 < Size(v) /\ ExpFrom(v) < Size(v)
              /\ ExpFrom(v) \in FracEnd(v) + 1 .. FracEnd(v) + 2
              /\ \A r \in ExpFrom(v) .. Size(v) - 1 : At(v, r) \in Digits
         /\ ~ HasExp(v) => FracEnd(v) = Size(v)
<1>1. CASE AllDigits(v)
  <2>1. WholeEnd(v) = Size(v)
    BY <1>1, FloatScan, TextSize DEF AllDigits
  <2>2. ~ HasDot(v) /\ FracEnd(v) = Size(v)
    BY <2>1, TextSize DEF HasDot, FracEnd
  <2> QED
    BY <2>2, TextSize DEF HasExp
<1>2. CASE DecimalFloat(v)
  <2>1. CASE HasExp(v)
    <3>1. ExpFrom(v) < Size(v) /\ Run(v, ExpFrom(v), Digits) = Size(v)
      BY <1>2, <2>1 DEF DecimalFloat
    <3>2. FracEnd(v) \in 0 .. Size(v)
      BY FloatScan, TextSize
    <3>3. ExpFrom(v) \in FracEnd(v) + 1 .. FracEnd(v) + 2
      BY <3>2 DEF ExpFrom
    <3>4. ExpFrom(v) \in 0 .. Size(v)
      BY <3>1, <3>2, <3>3, TextSize
    <3>5. \A r \in ExpFrom(v) .. Size(v) - 1 : At(v, r) \in Digits
      BY <3>1, <3>4, RunIs, TextSize
    <3> QED
      BY <1>2, <2>1, <3>1, <3>2, <3>3, <3>5, TextSize
  <2>2. CASE ~ HasExp(v)
    BY <1>2, <2>2 DEF DecimalFloat
  <2> QED
    BY <1>2, <2>1, <2>2
<1> QED
  BY <1>1, <1>2 DEF Numeral

LEMMA Inductive == IInv /\ [Next]_vars => IInv'
<1> SUFFICES ASSUME IInv, Next PROVE IInv'
  <2>1. UNCHANGED vars /\ IInv => IInv'
    BY DEF vars, IInv, Where
  <2> QED
    BY <2>1
<1>1. /\ IsText(text) /\ Len(text) \in Nat /\ Size(text) = Len(text)
      /\ SignSize(text) \in 0 .. 1 /\ SignSize(text) <= Size(text)
      /\ i \in 0 .. Size(text) /\ Where
  BY TextSize DEF IInv
<1>2. CASE Pick
  <2>1. pc' = "sign" => PlainInt(text) \/ PlainFloat(text)
    BY <1>2 DEF Pick, Resolve
  <2> QED
    BY <1>1, <1>2, <2>1 DEF Pick, IInv, Where
<1>3. CASE Sign
  BY <1>1, <1>3 DEF Sign, IInv, Where
<1>4. CASE Special
  BY <1>1, <1>4 DEF Special, IInv, Where
<1>5. CASE Based
  <2>1. i = SignSize(text) /\ BaseAt(text, i)
    BY <1>1, <1>5 DEF Based, AtBase, MoreIn, More, Here, BaseAt, Where
  <2>2. /\ SignSize(text) = 0
        /\ \A r \in 2 .. Size(text) - 1 : At(text, r) \in HexDigits
    BY <1>1, <1>5, <2>1, BaseIsPrefix DEF Based, Where
  <2>3. i' = 2 /\ 2 <= Size(text) /\ text' = text /\ pc' = "based"
    BY <1>1, <1>5, <2>1, <2>2 DEF Based, BaseAt
  <2> QED
    BY <1>1, <2>2, <2>3 DEF IInv, Where
<1>6. CASE Decimal
  <2>1. i = SignSize(text) /\ ~ SpecialAt(text, i) /\ ~ BaseAt(text, i)
    BY <1>1, <1>6
       DEF Decimal, AtSpecial, AtBase, MoreIn, More, Here, SpecialAt, BaseAt, Where
  <2>2. Numeral(text)
    BY <1>1, <1>6, <2>1, RestIsNumeral DEF Decimal, Where
  <2>3. SignSize(text) <= WholeEnd(text)
    BY <1>1, FloatScan
  <2> QED
    BY <1>1, <1>6, <2>1, <2>2, <2>3 DEF Decimal, IInv, Where
<1>7. CASE BasedDigit
  BY <1>1, <1>7 DEF BasedDigit, More, IInv, Where
<1>8. CASE BasedEnd
  BY <1>1, <1>8 DEF BasedEnd, IInv, Where
<1>9. CASE WholeDigit
  <2>1. i < WholeEnd(text)
    <3>1. i <= WholeEnd(text) /\ WholeEnd(text) \in SignSize(text) .. Size(text)
      BY <1>1, <1>9, FloatScan DEF WholeDigit, Where
    <3>2. i # WholeEnd(text)
      BY <1>1, <1>9, FloatScan DEF WholeDigit, MoreIn, More, Here
    <3> QED
      BY <1>1, <3>1, <3>2
  <2>2. WholeEnd(text) \in SignSize(text) .. Size(text)
    BY <1>1, FloatScan
  <2>3. text' = text /\ i' = i + 1 /\ pc' = "whole" /\ pc = "whole"
    BY <1>9 DEF WholeDigit
  <2> QED
    BY <1>1, <2>1, <2>2, <2>3 DEF IInv, Where
<1>10. CASE WholeDone
  <2>1. /\ Numeral(text) /\ SignSize(text) <= i /\ i <= WholeEnd(text)
        /\ WholeEnd(text) \in SignSize(text) .. Size(text)
        /\ FracEnd(text) \in WholeEnd(text) .. Size(text)
        /\ HasDot(text) => WholeEnd(text) + 1 <= FracEnd(text)
    BY <1>1, <1>10, FloatScan DEF WholeDone, Where
  <2>2. i = WholeEnd(text)
    <3>1. i < WholeEnd(text) => i \in SignSize(text) .. WholeEnd(text) - 1
      BY <1>1, <2>1
    <3>2. i < WholeEnd(text) => MoreIn(Digits)
      BY <1>1, <2>1, <3>1, FloatScan DEF MoreIn, More, Here
    <3> QED
      BY <1>1, <1>10, <2>1, <3>2 DEF WholeDone
  <2>3. MoreIn({"."}) <=> HasDot(text)
    BY <2>2 DEF MoreIn, More, Here, HasDot
  <2>4. CASE HasDot(text)
    BY <1>1, <1>10, <2>1, <2>2, <2>3, <2>4 DEF WholeDone, IInv, Where
  <2>5. CASE ~ HasDot(text)
    <3>1. FracEnd(text) = WholeEnd(text)
      BY <2>5 DEF FracEnd
    <3> QED
      BY <1>1, <1>10, <2>1, <2>2, <2>3, <2>5, <3>1 DEF WholeDone, IInv, Where
  <2> QED
    BY <2>4, <2>5
<1>11. CASE FractionDigit
  <2>1. /\ i <= FracEnd(text) /\ WholeEnd(text) < i /\ HasDot(text)
        /\ FracEnd(text) \in WholeEnd(text) .. Size(text)
        /\ FracEnd(text) < Size(text) => At(text, FracEnd(text)) \notin Digits
        /\ WholeEnd(text) \in SignSize(text) .. Size(text)
    BY <1>1, <1>11, FloatScan DEF FractionDigit, Where
  <2>2. i # FracEnd(text)
    BY <2>1, <1>11 DEF FractionDigit, MoreIn, More, Here
  <2>3. i < FracEnd(text) /\ i + 1 <= FracEnd(text) /\ i + 1 \in 0 .. Size(text)
    BY <1>1, <2>1, <2>2
  <2>4. text' = text /\ i' = i + 1 /\ pc' = "fraction" /\ pc = "fraction"
    BY <1>11 DEF FractionDigit
  <2> QED
    BY <1>1, <2>1, <2>3, <2>4 DEF IInv, Where
<1>12. CASE FractionDone
  <2>1. /\ i <= FracEnd(text) /\ WholeEnd(text) < i /\ HasDot(text)
        /\ FracEnd(text) \in WholeEnd(text) .. Size(text)
        /\ WholeEnd(text) \in SignSize(text) .. Size(text)
        /\ \A r \in WholeEnd(text) + 1 .. FracEnd(text) - 1 : At(text, r) \in Digits
    BY <1>1, <1>12, FloatScan DEF FractionDone, Where
  <2>2. i < FracEnd(text) => MoreIn(Digits)
    <3>1. i < FracEnd(text) => /\ i \in WholeEnd(text) + 1 .. FracEnd(text) - 1
                               /\ i < Size(text)
      BY <1>1, <2>1
    <3> QED
      BY <2>1, <3>1 DEF MoreIn, More, Here
  <2>3. i = FracEnd(text)
    BY <1>1, <1>12, <2>1, <2>2 DEF FractionDone
  <2> QED
    BY <1>1, <1>12, <2>3 DEF FractionDone, IInv, Where
<1>13. CASE ExponentSign
  <2>1. Numeral(text) /\ i = FracEnd(text) /\ HasExp(text)
    BY <1>1, <1>13 DEF ExponentSign, MoreIn, More, Here, HasExp, Where
  <2>2. /\ i + 1 < Size(text) /\ ExpFrom(text) < Size(text)
        /\ ExpFrom(text) \in i + 1 .. i + 2
        /\ \A r \in ExpFrom(text) .. Size(text) - 1 : At(text, r) \in Digits
    BY <1>1, <2>1, NumeralScan
  <2>3. i' = ExpFrom(text) /\ text' = text /\ pc' = "digits"
    BY <1>13, <2>1, <2>2 DEF ExponentSign, ExpFrom
  <2> QED
    BY <1>1, <2>1, <2>2, <2>3 DEF IInv, Where
<1>14. CASE ExponentDigit
  <2>1. FracEnd(text) \in 0 .. Size(text)
    BY <1>1, FloatScan
  <2>2. ExpFrom(text) \in Nat
    BY <2>1, <1>1 DEF ExpFrom
  <2>3. text' = text /\ i' = i + 1 /\ pc' = "digits" /\ pc = "digits" /\ i < Size(text)
    BY <1>14 DEF ExponentDigit, More
  <2> QED
    BY <1>1, <2>2, <2>3 DEF IInv, Where
<1>15. CASE ToSigned
  <2>1. i = Size(text)
    <3>1. CASE pc = "exponent" /\ ~ MoreIn({"e", "E"})
      <4>1. Numeral(text) /\ i = FracEnd(text) /\ ~ HasExp(text)
        BY <1>1, <3>1 DEF MoreIn, More, Here, HasExp, Where
      <4> QED
        BY <1>1, <4>1, NumeralScan
    <3>2. CASE pc = "digits" /\ ~ More
      BY <1>1, <3>2 DEF More
    <3> QED
      BY <1>15, <3>1, <3>2 DEF ToSigned
  <2> QED
    BY <1>1, <1>15, <2>1 DEF ToSigned, IInv, Where
<1>16. CASE ScaleUp \/ ScaleDown
  BY <1>1, <1>16 DEF ScaleUp, ScaleDown, IInv, Where
<1>17. CASE Finish
  BY <1>1, <1>17 DEF Finish, IInv, Where
<1>18. CASE Terminated
  BY <1>1, <1>18 DEF Terminated, vars, IInv, Where
<1> QED
  BY <1>2, <1>3, <1>4, <1>5, <1>6, <1>7, <1>8, <1>9, <1>10, <1>11, <1>12,
     <1>13, <1>14, <1>15, <1>16, <1>17, <1>18 DEF Next

(***************************************************************************)
(* Whatever resolve_plain has made a number, the loops of to_arithmetic    *)
(* read no character behind it and take no other character for a digit:    *)
(* the two scans agree on every text.                                      *)
(***************************************************************************)
THEOREM ScansAgree == Spec => []ReadsInText
<1>1. IInv => ReadsInText
  <2> SUFFICES ASSUME IInv PROVE ReadsInText
    OBVIOUS
  <2>1. /\ IsText(text) /\ i \in 0 .. Size(text) /\ Where
        /\ Len(text) \in Nat /\ Size(text) = Len(text)
    BY TextSize DEF IInv
  <2>2. pc = "exponent" /\ MoreIn({"e", "E"}) => i + 1 < Size(text)
    <3>1. pc = "exponent" /\ MoreIn({"e", "E"}) =>
            Numeral(text) /\ i = FracEnd(text) /\ HasExp(text)
      BY <2>1 DEF Where, MoreIn, More, Here, HasExp
    <3> QED
      BY <2>1, <3>1, NumeralScan
  <2>3. pc = "digits" /\ More => Here \in Digits
    <3>1. pc = "digits" /\ More => i \in ExpFrom(text) .. Size(text) - 1
      <4>1. FracEnd(text) \in 0 .. Size(text)
        BY <2>1, FloatScan, TextSize
      <4>2. ExpFrom(text) \in Nat
        BY <2>1, <4>1 DEF ExpFrom
      <4> QED
        BY <2>1, <4>2 DEF Where, More
    <3> QED
      BY <2>1, <3>1 DEF Where, Here
  <2>4. pc = "based" /\ More => Here \in HexDigits
    BY <2>1 DEF Where, More, Here
  <2> QED
    BY <2>1, <2>2, <2>3, <2>4 DEF Where, ReadsInText
<1> QED
  BY <1>1, InitInv, Inductive, PTL DEF Spec

(* The kind, once there, is what resolve_plain makes of the text. *)
Resolved == IsText(text) /\ (kind # "unresolved" => kind = Resolve(text))

(***************************************************************************)
(* A plain scalar of any length is a number exactly when the core schema   *)
(* says so, and to_arithmetic's caller learns from is_integer which of the *)
(* two it is.                                                              *)
(***************************************************************************)
THEOREM KindsAreRight == Spec => []KindIsCoreSchema
<1>1. Init => Resolved
  BY TextsAssumption DEF Init, Resolved, IsText, IsScalar
<1>2. Resolved /\ [Next]_vars => Resolved'
  <2> SUFFICES ASSUME Resolved, [Next]_vars PROVE Resolved'
    OBVIOUS
  <2>1. CASE Pick
    BY <2>1 DEF Pick, Resolved
  <2>2. CASE UNCHANGED << text, kind >>
    BY <2>2 DEF Resolved
  <2>3. [Next]_vars => Pick \/ UNCHANGED << text, kind >>
    BY DEF Next, vars, Sign, Special, Based, BasedDigit, BasedEnd, Decimal, WholeDigit,
           WholeDone, FractionDigit, FractionDone, ExponentSign, ExponentDigit,
           ToSigned, ScaleUp, ScaleDown, Finish, Terminated
  <2> QED
    BY <2>1, <2>2, <2>3
<1>3. Resolved => KindIsCoreSchema
  <2> SUFFICES ASSUME Resolved PROVE KindIsCoreSchema
    OBVIOUS
  <2>1. /\ PlainInt(text) \/ PlainFloat(text) <=> CoreNumber(text)
        /\ PlainInt(text) \/ PlainFloat(text) => (IsInteger(text) <=> CoreInt(text))
    BY CoreSchema DEF Resolved, IsText
  <2>2. kind = "number" => PlainInt(text) \/ PlainFloat(text)
    BY DEF Resolved, Resolve
  <2>3. kind = "string" => ~ (PlainInt(text) \/ PlainFloat(text))
    BY DEF Resolved, Resolve
  <2> QED
    BY <2>1, <2>2, <2>3 DEF KindIsCoreSchema
<1> QED
  BY <1>1, <1>2, <1>3, PTL DEF Spec

-----------------------------------------------------------------------------
(* Arithmetic: the powers, and a number taken to a width. *)

(* f[n] is b to the power of n. *)
Powers(f, b) == f[0] = 1 /\ \A n \in Nat : f[n] \in Nat \ {0} /\ f[n + 1] = b * f[n]

LEMMA PowersOf ==
  ASSUME NEW b \in Nat \ {0}, NEW f,
         f = CHOOSE g : g = [n \in Nat |-> IF n = 0 THEN 1 ELSE b * g[n - 1]]
  PROVE  Powers(f, b)
<1> DEFINE X == Nat \ {0}
           Body(g) == [n \in Nat |-> IF n = 0 THEN 1 ELSE b * g[n - 1]]
           F == [q \in Nat \X X |-> b * q[2]]
<1>1. F \in [Nat \X X -> X] /\ \A n \in Nat, y \in X : F[<< n, y >>] = b * y
  <2>1. \A y \in X : b * y \in X
    OBVIOUS
  <2> QED
    BY <2>1
<1> HIDE DEF F
<1>2. PICK h : Iterates(h, X, 1, F)
  <2>1. 1 \in X
    OBVIOUS
  <2> QED
    BY <1>1, <2>1, RecursionExists
<1>3. h \in [Nat -> X] /\ h[0] = 1 /\ \A n \in Nat \ {0} : h[n] = b * h[n - 1]
  <2>1. \A n \in Nat \ {0} : n - 1 \in Nat
    OBVIOUS
  <2> QED
    BY <1>1, <1>2, <2>1 DEF Iterates
<1>4. h = Body(h)
  BY <1>3
<1>5. f = CHOOSE g : g = Body(g)
  OBVIOUS
<1> HIDE DEF Body
<1>6. f = Body(f)
  BY <1>4, <1>5
<1>7. /\ f[0] = 1
      /\ \A n \in Nat : f[n + 1] = b * f[n]
  <2>1. \A n \in Nat : n + 1 \in Nat /\ n + 1 # 0 /\ (n + 1) - 1 = n
    OBVIOUS
  <2>2. \A n \in Nat : f[n] = IF n = 0 THEN 1 ELSE b * f[n - 1]
    BY <1>6 DEF Body
  <2> QED
    BY <2>1, <2>2
<1> DEFINE G == {n \in Nat : f[n] \in X}
<1>8. G = Nat
  <2>1. \A y \in X : b * y \in X
    OBVIOUS
  <2>2. 0 \in G /\ \A n \in Nat : n \in G => n + 1 \in G
    BY <1>7, <2>1
  <2> HIDE DEF G
  <2>3. G \in SUBSET Nat
    BY DEF G
  <2> QED
    BY <2>2, <2>3, AllNumbers
<1> QED
  BY <1>7, <1>8 DEF Powers

LEMMA TwoToIs == Powers(TwoTo, 2)
<1>1. TwoTo = CHOOSE g : g = [n \in Nat |-> IF n = 0 THEN 1 ELSE 2 * g[n - 1]]
  BY DEF TwoTo
<1> QED
  BY <1>1, PowersOf

LEMMA TenToIs == Powers(TenTo, 10)
<1>1. TenTo = CHOOSE g : g = [n \in Nat |-> IF n = 0 THEN 1 ELSE 10 * g[n - 1]]
  BY DEF TenTo
<1> QED
  BY <1>1, PowersOf

LEMMA PowersRise ==
  ASSUME NEW b \in Nat \ {0}, NEW f, Powers(f, b), NEW m \in Nat, NEW k \in 0 .. m
  PROVE  f[k] \in Nat \ {0} /\ f[m] \in Nat \ {0} /\ f[k] <= f[m]
<1> DEFINE c == [n \in 0 .. m |-> f[n]]
<1>1. c \in [0 .. m -> Nat] /\ \A n \in 0 .. m : c[n] = f[n]
  BY DEF Powers
<1>2. ASSUME NEW n \in 1 .. m PROVE c[n - 1] <= c[n]
  <2> DEFINE x == f[n - 1]
  <2>1. n - 1 \in Nat /\ (n - 1) + 1 = n /\ n - 1 \in 0 .. m /\ n \in 0 .. m
    OBVIOUS
  <2>2. x \in Nat /\ f[n] = b * x
    BY <2>1 DEF Powers
  <2> HIDE DEF x
  <2>3. x <= b * x
    BY <2>2
  <2> QED
    BY <1>1, <2>1, <2>2, <2>3 DEF x
<1> HIDE DEF c
<1>3. c[k] <= c[m]
  BY <1>1, <1>2, Rising
<1>4. k \in Nat /\ m \in 0 .. m
  OBVIOUS
<1> QED
  BY <1>1, <1>3, <1>4 DEF Powers

(* The bounds of a signed type. *)
LEMMA BoundsAre ==
  ASSUME NEW b \in Nat \ {0}
  PROVE  /\ TwoTo[b] \in Nat \ {0} /\ TwoTo[b - 1] \in Nat \ {0}
         /\ TwoTo[b] = 2 * TwoTo[b - 1]
         /\ HighBound(b) = TwoTo[b - 1] - 1 /\ LowBound(b) = - TwoTo[b - 1]
<1>1. b - 1 \in Nat /\ (b - 1) + 1 = b
  OBVIOUS
<1> QED
  BY <1>1, TwoToIs DEF Powers, HighBound, LowBound

(* A number that fits stays as it is. *)
LEMMA WrapWithin ==
  ASSUME NEW b \in Nat \ {0}, NEW n \in Signed(b)
  PROVE  Wrap(n, b) = n
<1> DEFINE h == TwoTo[b - 1]
           t == TwoTo[b]
<1>1. h \in Nat \ {0} /\ t = 2 * h /\ HighBound(b) = h - 1 /\ LowBound(b) = - h
  BY BoundsAre
<1>2. n \in - h .. h - 1
  BY <1>1 DEF Signed
<1>3. Wrap(n, b) = IF n % t > h - 1 THEN (n % t) - t ELSE n % t
  BY <1>1 DEF Wrap
<1> HIDE DEF h, t
<1>4. CASE n >= 0
  <2>1. n % t = n
    BY <1>1, <1>2, <1>4
  <2> QED
    BY <1>1, <1>2, <1>3, <1>4, <2>1
<1>5. CASE n < 0
  <2>1. n % t = n + t
    BY <1>1, <1>2, <1>5
  <2> QED
    BY <1>1, <1>2, <1>3, <1>5, <2>1
<1> QED
  BY <1>1, <1>2, <1>4, <1>5

(* A number of an unsigned type, taken to as many bits or to fewer. *)
LEMMA WrapUnsigned ==
  ASSUME NEW b \in Nat \ {0}, NEW n \in 0 .. TwoTo[b] - 1
  PROVE  /\ n % TwoTo[b] = n
         /\ Wrap(n, b) \in Signed(b)
         /\ Wrap(n, b) = n \/ (Wrap(n, b) = n - TwoTo[b] /\ n >= TwoTo[b - 1])
<1> DEFINE h == TwoTo[b - 1]
           t == TwoTo[b]
<1>1. h \in Nat \ {0} /\ t = 2 * h /\ HighBound(b) = h - 1 /\ LowBound(b) = - h
  BY BoundsAre
<1>2. n \in 0 .. t - 1
  OBVIOUS
<1>3. Wrap(n, b) = IF n % t > h - 1 THEN (n % t) - t ELSE n % t
  BY <1>1 DEF Wrap
<1>4. Signed(b) = - h .. h - 1
  BY <1>1 DEF Signed
<1> HIDE DEF h, t
<1>5. n % t = n
  BY <1>1, <1>2
<1>6. /\ Wrap(n, b) \in - h .. h - 1
      /\ Wrap(n, b) = n \/ (Wrap(n, b) = n - t /\ n >= h)
  BY <1>1, <1>2, <1>3, <1>5
<1> QED
  BY <1>4, <1>5, <1>6 DEF h, t

-----------------------------------------------------------------------------
(* What a sequence of digits spells. *)

LEMMA HexValIs ==
  ASSUME NEW c
  PROVE  /\ c \in HexDigits => HexVal(c) \in 0 .. 15
         /\ c \in Digits => HexVal(c) \in 0 .. 9
<1> DEFINE P(n) == LowerHex[n + 1] = c \/ UpperHex[n + 1] = c
<1>1. ASSUME c \in HexDigits PROVE HexVal(c) \in 0 .. 15 /\ P(HexVal(c))
  <2>1. PICK n \in 1 .. 16 : LowerHex[n] = c \/ UpperHex[n] = c
    BY <1>1 DEF HexDigits
  <2>2. n - 1 \in 0 .. 15 /\ (n - 1) + 1 = n
    OBVIOUS
  <2>3. P(n - 1)
    BY <2>1, <2>2
  <2>4. HexVal(c) = CHOOSE k \in 0 .. 15 : P(k)
    BY DEF HexVal
  <2> HIDE DEF P
  <2> QED
    BY <2>2, <2>3, <2>4
<1>2. ASSUME c \in Digits PROVE HexVal(c) \in 0 .. 9
  <2>1. HexVal(c) \in 0 .. 15 /\ P(HexVal(c))
    BY <1>1, <1>2, OctalsAreHex
  <2> DEFINE h == HexVal(c)
  <2>2. h \in 0 .. 15 /\ (LowerHex[h + 1] = c \/ UpperHex[h + 1] = c)
    BY <2>1
  <2> HIDE DEF h
  <2>3. ASSUME h \notin 0 .. 9 PROVE FALSE
    <3>1. h \in {10, 11, 12, 13, 14, 15}
      BY <2>2, <2>3
    <3>2. /\ LowerHex[11] = "a" /\ LowerHex[12] = "b" /\ LowerHex[13] = "c"
          /\ LowerHex[14] = "d" /\ LowerHex[15] = "e" /\ LowerHex[16] = "f"
          /\ UpperHex[11] = "A" /\ UpperHex[12] = "B" /\ UpperHex[13] = "C"
          /\ UpperHex[14] = "D" /\ UpperHex[15] = "E" /\ UpperHex[16] = "F"
      BY DEF LowerHex, UpperHex
    <3>3. c \in {"a", "b", "c", "d", "e", "f", "A", "B", "C", "D", "E", "F"}
      BY <2>2, <3>1, <3>2
    <3> QED
      BY <1>2, <3>3 DEF Digits, Octals
  <2> QED
    BY <2>3 DEF h
<1> QED
  BY <1>1, <1>2

(* The number that the first n characters of w spell, for each n. *)
UpTo(w, S, b) ==
  CHOOSE f : f = [n \in 0 .. Len(w) |->
    IF n = 0 THEN 0
    ELSE IF w[n] \in S THEN f[n - 1] * b + HexVal(w[n])
    ELSE f[n - 1]]

Counts(f, w, S, b) ==
  /\ f \in [0 .. Len(w) -> Nat]
  /\ f[0] = 0
  /\ \A n \in 1 .. Len(w) :
       f[n] = IF w[n] \in S THEN f[n - 1] * b + HexVal(w[n]) ELSE f[n - 1]

LEMMA UpToCounts ==
  ASSUME NEW w, Len(w) \in Nat, NEW b \in Nat, NEW S \in SUBSET HexDigits
  PROVE  /\ Counts(UpTo(w, S, b), w, S, b)
         /\ DigitsValue(w, S, b) = UpTo(w, S, b)[Len(w)]
<1> DEFINE m == Len(w)
           Body(f) == [n \in 0 .. m |->
             IF n = 0 THEN 0
             ELSE IF w[n] \in S THEN f[n - 1] * b + HexVal(w[n])
             ELSE f[n - 1]]
           F == [q \in (1 .. m) \X Nat |->
                  IF w[q[1]] \in S THEN q[2] * b + HexVal(w[q[1]]) ELSE q[2]]
<1>1. m \in Nat
  OBVIOUS
<1> HIDE DEF m
<1>2. \A n \in 1 .. m : w[n] \in S => HexVal(w[n]) \in Nat
  <2>1. 0 .. 15 \subseteq Nat
    OBVIOUS
  <2> QED
    BY <2>1, HexValIs
<1>3. /\ F \in [(1 .. m) \X Nat -> Nat]
      /\ \A n \in 1 .. m, y \in Nat :
           F[<< n, y >>] = IF w[n] \in S THEN y * b + HexVal(w[n]) ELSE y
  <2>1. \A n \in 1 .. m, y \in Nat :
          (IF w[n] \in S THEN y * b + HexVal(w[n]) ELSE y) \in Nat
    <3> SUFFICES ASSUME NEW n \in 1 .. m, NEW y \in Nat
                 PROVE  (IF w[n] \in S THEN y * b + HexVal(w[n]) ELSE y) \in Nat
      OBVIOUS
    <3>1. CASE w[n] \in S
      <4> DEFINE d == HexVal(w[n])
      <4>1. d \in Nat
        BY <1>2, <3>1
      <4> HIDE DEF d
      <4>2. y * b + d \in Nat
        BY <4>1
      <4> QED
        BY <3>1, <4>2 DEF d
    <3> QED
      BY <3>1
  <2> QED
    BY <2>1
<1> HIDE DEF F
<1>4. PICK h : IteratesUpTo(h, m, Nat, 0, F)
  BY <1>1, <1>3, RecursionUpTo
<1>5. /\ h \in [0 .. m -> Nat] /\ h[0] = 0
      /\ \A n \in 1 .. m : h[n] = F[<< n, h[n - 1] >>]
  BY <1>4 DEF IteratesUpTo
<1>6. \A n \in 1 .. m : n \in 0 .. m /\ n - 1 \in 0 .. m /\ n # 0
  BY <1>1
<1>7. \A n \in 1 .. m :
        h[n] = IF w[n] \in S THEN h[n - 1] * b + HexVal(w[n]) ELSE h[n - 1]
  BY <1>3, <1>5, <1>6
<1>8. h = Body(h)
  <2>1. \A n \in 0 .. m : h[n] = Body(h)[n]
    <3> SUFFICES ASSUME NEW n \in 0 .. m PROVE h[n] = Body(h)[n]
      OBVIOUS
    <3>1. CASE n = 0
      BY <1>5, <3>1
    <3>2. CASE n # 0
      <4>1. n \in 1 .. m
        BY <1>1, <3>2
      <4> QED
        BY <1>7, <3>2, <4>1
    <3> QED
      BY <3>1, <3>2
  <2>2. h = [n \in 0 .. m |-> h[n]] /\ Body(h) = [n \in 0 .. m |-> Body(h)[n]]
    BY <1>5
  <2> QED
    BY <2>1, <2>2
<1> DEFINE g == CHOOSE f : f = Body(f)
<1>9. UpTo(w, S, b) = g
  BY DEF UpTo, m
<1>10. DigitsValue(w, S, b) = g[m]
  BY DEF DigitsValue, m
<1> HIDE DEF Body
<1>11. g = Body(g)
  BY <1>8
<1> HIDE DEF g
<1>12. /\ g[0] = 0
       /\ \A n \in 1 .. m :
            g[n] = IF w[n] \in S THEN g[n - 1] * b + HexVal(w[n]) ELSE g[n - 1]
  <2>1. \A n \in 0 .. m : g[n] =
          IF n = 0 THEN 0
          ELSE IF w[n] \in S THEN g[n - 1] * b + HexVal(w[n])
          ELSE g[n - 1]
    BY <1>11 DEF Body
  <2>2. 0 \in 0 .. m
    BY <1>1
  <2> QED
    BY <1>6, <2>1, <2>2
<1>13. g \in [0 .. m -> Nat]
  <2> DEFINE H == {n \in 0 .. m : g[n] = h[n]}
  <2>1. 0 \in H
    BY <1>1, <1>5, <1>12
  <2>2. ASSUME NEW n \in 0 .. m - 1, n \in H PROVE n + 1 \in H
    <3>1. n + 1 \in 1 .. m /\ n + 1 \in 0 .. m /\ (n + 1) - 1 = n
      BY <1>1
    <3> QED
      BY <1>7, <1>12, <2>2, <3>1
  <2> HIDE DEF H
  <2>3. 0 .. m \subseteq H
    BY <1>1, <2>1, <2>2, AllUpTo
  <2>4. \A n \in 0 .. m : g[n] = h[n]
    BY <2>3 DEF H
  <2>5. g = [n \in 0 .. m |-> g[n]]
    BY <1>11 DEF Body
  <2> QED
    BY <1>5, <2>4, <2>5
<1> QED
  BY <1>9, <1>10, <1>12, <1>13 DEF Counts, m

(* The number goes up with the characters. *)
LEMMA UpToRises ==
  ASSUME NEW w, Len(w) \in Nat, NEW b \in Nat \ {0}, NEW S \in SUBSET HexDigits,
         NEW n \in 0 .. Len(w)
  PROVE  UpTo(w, S, b)[n] <= DigitsValue(w, S, b)
<1> DEFINE m == Len(w)
           f == UpTo(w, S, b)
<1>1. Counts(f, w, S, b) /\ DigitsValue(w, S, b) = f[m] /\ m \in Nat /\ n \in 0 .. m
  BY UpToCounts
<1>2. /\ f \in [0 .. m -> Nat]
      /\ \A k \in 1 .. m : f[k] = IF w[k] \in S THEN f[k - 1] * b + HexVal(w[k]) ELSE f[k - 1]
  BY <1>1 DEF Counts
<1> HIDE DEF f, m
<1>3. ASSUME NEW k \in 1 .. m PROVE f[k - 1] <= f[k]
  <2> DEFINE x == f[k - 1]
  <2>1. x \in Nat
    BY <1>1, <1>2
  <2>2. f[k] = IF w[k] \in S THEN x * b + HexVal(w[k]) ELSE x
    BY <1>2
  <2> HIDE DEF x
  <2>3. CASE w[k] \in S
    <3> DEFINE d == HexVal(w[k])
    <3>1. d \in Nat
      <4>1. 0 .. 15 \subseteq Nat
        OBVIOUS
      <4> QED
        BY <2>3, <4>1, HexValIs
    <3>2. f[k] = x * b + d
      BY <2>2, <2>3
    <3> HIDE DEF d
    <3>3. x <= x * b
      BY <2>1
    <3>4. x <= x * b + d
      BY <2>1, <3>1, <3>3
    <3> QED
      BY <3>2, <3>4 DEF x
  <2> QED
    BY <2>1, <2>2, <2>3 DEF x
<1>4. f[n] <= f[m]
  BY <1>1, <1>2, <1>3, Rising
<1> QED
  BY <1>1, <1>4 DEF f

(* A number of n decimal digits is below 10^n. *)
LEMMA UpToBelow ==
  ASSUME NEW w, Len(w) \in Nat
  PROVE  DigitsValue(w, Digits, 10) < TenTo[Len(w)]
<1> DEFINE m == Len(w)
           f == UpTo(w, Digits, 10)
<1>1. Counts(f, w, Digits, 10) /\ DigitsValue(w, Digits, 10) = f[m] /\ m \in Nat
  BY UpToCounts, OctalsAreHex
<1>2. /\ f \in [0 .. m -> Nat] /\ f[0] = 0
      /\ \A k \in 1 .. m :
           f[k] = IF w[k] \in Digits THEN f[k - 1] * 10 + HexVal(w[k]) ELSE f[k - 1]
  BY <1>1 DEF Counts
<1> HIDE DEF f, m
<1>3. TenTo[0] = 1 /\ \A n \in Nat : TenTo[n] \in Nat \ {0} /\ TenTo[n + 1] = 10 * TenTo[n]
  BY TenToIs DEF Powers
<1> DEFINE G == {n \in 0 .. m : f[n] < TenTo[n]}
<1>4. 0 \in G
  <2>1. 0 \in 0 .. m /\ f[0] = 0 /\ TenTo[0] = 1
    BY <1>1, <1>2, <1>3
  <2> QED
    BY <2>1
<1>5. ASSUME NEW n \in 0 .. m - 1, n \in G PROVE n + 1 \in G
  <2> DEFINE x == f[n]
             t == TenTo[n]
             y == f[n + 1]
             d == HexVal(w[n + 1])
  <2>1. n + 1 \in 1 .. m /\ n + 1 \in 0 .. m /\ (n + 1) - 1 = n /\ n \in 0 .. m /\ n \in Nat
    BY <1>1
  <2>2. x \in Nat /\ t \in Nat \ {0} /\ x < t /\ TenTo[n + 1] = 10 * t
    BY <1>2, <1>3, <1>5, <2>1
  <2>3. y = IF w[n + 1] \in Digits THEN x * 10 + d ELSE x
    BY <1>2, <2>1
  <2>4. w[n + 1] \in Digits => d \in 0 .. 9
    BY HexValIs
  <2> HIDE DEF x, t, y, d
  <2>5. y < 10 * t
    BY <2>2, <2>3, <2>4
  <2> QED
    BY <2>1, <2>2, <2>5 DEF y
<1> HIDE DEF G
<1>6. 0 .. m \subseteq G
  BY <1>1, <1>4, <1>5, AllUpTo
<1>7. m \in G
  BY <1>1, <1>6
<1> QED
  BY <1>1, <1>7 DEF G, m

(***************************************************************************)
(* What the characters of v from a to each place up to e spell: its        *)
(* accumulator, when a loop has come to that place.                        *)
(***************************************************************************)
Spelt(v, a, e, S, b) == [r \in a .. e |-> UpTo(Part(v, a, e), S, b)[r - a]]

Accumulates(g, v, a, e, S, b) ==
  /\ g \in [a .. e -> Nat]
  /\ g[a] = 0
  /\ \A r \in a .. e - 1 :
       g[r + 1] = IF At(v, r) \in S THEN g[r] * b + HexVal(At(v, r)) ELSE g[r]
  /\ \A r \in a .. e : g[r] <= g[e]

LEMMA SpeltIs ==
  ASSUME NEW v, v \in Seq(STRING), NEW a \in 0 .. Len(v), NEW e \in a .. Len(v),
         NEW b \in Nat \ {0}, NEW S \in SUBSET HexDigits
  PROVE  /\ Accumulates(Spelt(v, a, e, S, b), v, a, e, S, b)
         /\ DigitsValue(Part(v, a, e), S, b) = Spelt(v, a, e, S, b)[e]
<1> DEFINE w == Part(v, a, e)
           f == UpTo(w, S, b)
           g == Spelt(v, a, e, S, b)
<1>1. /\ a \in Nat /\ e \in Nat /\ a <= e /\ e - a \in Nat
      /\ Len(w) = e - a /\ \A n \in 1 .. e - a : w[n] = At(v, a + n - 1)
  BY PartIs
<1> HIDE DEF w
<1>2. Counts(f, w, S, b) /\ DigitsValue(w, S, b) = f[e - a]
  BY <1>1, UpToCounts
<1>3. \A n \in 0 .. e - a : f[n] <= DigitsValue(w, S, b)
  BY <1>1, UpToRises
<1>4. /\ f \in [0 .. e - a -> Nat] /\ f[0] = 0
      /\ \A n \in 1 .. e - a :
           f[n] = IF w[n] \in S THEN f[n - 1] * b + HexVal(w[n]) ELSE f[n - 1]
  BY <1>1, <1>2 DEF Counts
<1> HIDE DEF f
<1>5. /\ g \in [a .. e -> Nat] /\ \A r \in a .. e : g[r] = f[r - a]
  <2>1. g = [r \in a .. e |-> f[r - a]]
    BY DEF Spelt, f, w
  <2>2. \A r \in a .. e : r - a \in 0 .. e - a
    BY <1>1
  <2> HIDE DEF g
  <2> QED
    BY <1>4, <2>1, <2>2
<1> HIDE DEF g
<1>6. g[a] = 0 /\ g[e] = f[e - a]
  <2>1. a \in a .. e /\ e \in a .. e /\ a - a = 0
    BY <1>1
  <2> QED
    BY <1>4, <1>5, <2>1
<1>7. ASSUME NEW r \in a .. e - 1
      PROVE  g[r + 1] = IF At(v, r) \in S THEN g[r] * b + HexVal(At(v, r)) ELSE g[r]
  <2>1. /\ r \in a .. e /\ r + 1 \in a .. e
        /\ r + 1 - a \in 1 .. e - a /\ (r + 1 - a) - 1 = r - a
        /\ a + (r + 1 - a) - 1 = r
    BY <1>1
  <2>2. w[r + 1 - a] = At(v, r)
    BY <1>1, <2>1
  <2>3. f[r + 1 - a] = IF At(v, r) \in S THEN f[r - a] * b + HexVal(At(v, r)) ELSE f[r - a]
    BY <1>4, <2>1, <2>2
  <2> QED
    BY <1>5, <2>1, <2>3
<1>8. \A r \in a .. e : g[r] <= g[e]
  <2>1. \A r \in a .. e : r - a \in 0 .. e - a
    BY <1>1
  <2> QED
    BY <1>2, <1>3, <1>5, <1>6, <2>1
<1> QED
  BY <1>2, <1>5, <1>6, <1>7, <1>8 DEF Accumulates, g, w

(* Where the parts of a numeral are that its meaning is read off. *)
LEMMA NumeralParts ==
  ASSUME NEW v, IsText(v), Numeral(v)
  PROVE  /\ ExpAt(v) = FracEnd(v) /\ DotAt(v) = WholeEnd(v)
         /\ HasDot(v) => Places(v) = FracEnd(v) - WholeEnd(v) - 1
         /\ ~ HasDot(v) => Places(v) = 0 /\ FracEnd(v) = WholeEnd(v)
         /\ ~ CoreIntBase(v)
<1>1. /\ v \in Seq(STRING) /\ Len(v) \in Nat /\ Size(v) = Len(v) /\ Size(v) > 0
      /\ SignSize(v) \in 0 .. 1 /\ SignSize(v) <= Size(v)
  BY TextSize DEF IsText
<1>2. /\ WholeEnd(v) \in SignSize(v) .. Size(v) /\ FracEnd(v) \in WholeEnd(v) .. Size(v)
      /\ WholeEnd(v) \in Nat /\ FracEnd(v) \in Nat
      /\ \A r \in SignSize(v) .. WholeEnd(v) - 1 : At(v, r) \in Digits
      /\ WholeEnd(v) < Size(v) => At(v, WholeEnd(v)) \notin Digits
      /\ HasDot(v) => /\ WholeEnd(v) + 1 <= FracEnd(v)
                      /\ \A r \in WholeEnd(v) + 1 .. FracEnd(v) - 1 : At(v, r) \in Digits
                      /\ FracEnd(v) < Size(v) => At(v, FracEnd(v)) \notin Digits
  BY <1>1, FloatScan
<1>3. ~ HasDot(v) => FracEnd(v) = WholeEnd(v)
  BY DEF FracEnd
<1>4. FracEnd(v) < Size(v) => HasExp(v) /\ At(v, FracEnd(v)) \in {"e", "E"}
  <2>1. HasExp(v) => At(v, FracEnd(v)) \in {"e", "E"}
    BY DEF HasExp
  <2> QED
    BY <1>1, <2>1, NumeralScan
<1>5. \A r \in 0 .. WholeEnd(v) - 1 : At(v, r) \in Digits \cup Signs
  <2> SUFFICES ASSUME NEW r \in 0 .. WholeEnd(v) - 1 PROVE At(v, r) \in Digits \cup Signs
    OBVIOUS
  <2>1. CASE r < SignSize(v)
    <3>1. r = 0 /\ SignSize(v) = 1
      BY <1>1, <2>1
    <3> QED
      BY <3>1 DEF SignSize
  <2>2. CASE ~ (r < SignSize(v))
    <3>1. r \in SignSize(v) .. WholeEnd(v) - 1
      BY <1>1, <1>2, <2>2
    <3> QED
      BY <1>2, <3>1
  <2> QED
    BY <2>1, <2>2
<1>6. "." \notin Digits \cup Signs /\ "e" \notin Digits \cup Signs \cup {"."}
      /\ "E" \notin Digits \cup Signs \cup {"."}
  BY NotDigits DEF Signs
<1>7. DotAt(v) = WholeEnd(v)
  <2>1. WholeEnd(v) < Size(v) => At(v, WholeEnd(v)) \notin Digits \cup Signs
    <3>1. CASE HasDot(v)
      BY <1>6, <3>1 DEF HasDot
    <3>2. CASE ~ HasDot(v)
      BY <1>3, <1>4, <1>6, <3>2
    <3> QED
      BY <3>1, <3>2
  <2>2. 0 \in 0 .. Size(v) /\ WholeEnd(v) \in 0 .. Size(v)
    BY <1>1, <1>2
  <2> QED
    BY <1>1, <1>5, <2>1, <2>2, RunAt DEF DotAt
<1>8. ExpAt(v) = FracEnd(v)
  <2> DEFINE S == Digits \cup Signs \cup {"."}
  <2>1. \A r \in 0 .. FracEnd(v) - 1 : At(v, r) \in S
    <3> SUFFICES ASSUME NEW r \in 0 .. FracEnd(v) - 1 PROVE At(v, r) \in S
      OBVIOUS
    <3>1. CASE r \in 0 .. WholeEnd(v) - 1
      BY <1>5, <3>1
    <3>2. CASE r = WholeEnd(v)
      <4>1. HasDot(v)
        BY <1>2, <1>3, <3>2
      <4> QED
        BY <3>2, <4>1 DEF HasDot
    <3>3. CASE r > WholeEnd(v)
      <4>1. HasDot(v) /\ r \in WholeEnd(v) + 1 .. FracEnd(v) - 1
        BY <1>2, <1>3, <3>3
      <4> QED
        BY <1>2, <4>1
    <3> QED
      BY <1>2, <3>1, <3>2, <3>3
  <2>2. FracEnd(v) < Size(v) => At(v, FracEnd(v)) \notin S
    BY <1>4, <1>6
  <2>3. 0 \in 0 .. Size(v) /\ FracEnd(v) \in 0 .. Size(v)
    BY <1>1, <1>2
  <2>4. ExpAt(v) = Run(v, 0, S)
    BY DEF ExpAt
  <2> HIDE DEF S
  <2> QED
    BY <1>1, <2>1, <2>2, <2>3, <2>4, RunAt
<1>9. HasDot(v) => Places(v) = FracEnd(v) - WholeEnd(v) - 1
  BY <1>2, <1>7, <1>8 DEF Places
<1>10. ~ HasDot(v) => Places(v) = 0 /\ FracEnd(v) = WholeEnd(v)
  BY <1>2, <1>3, <1>7, <1>8 DEF Places
<1>11. ~ CoreIntBase(v)
  <2> SUFFICES ASSUME CoreIntBase(v) PROVE FALSE
    OBVIOUS
  <2>1. (Prefixed(v, "x") \/ Prefixed(v, "o")) /\ (PlainInt(v) \/ PlainFloat(v))
    BY <1>1, PrefixedIs, IntegersAre DEF CoreIntBase, CoreInt
  <2>2. BaseAt(v, SignSize(v))
    BY <1>1, <2>1, NotDigits, SignsAre DEF Prefixed, BaseAt
  <2>3. WholeEnd(v) = SignSize(v) + 1 /\ At(v, SignSize(v) + 1) \in {"x", "o"}
        /\ SignSize(v) + 1 < Size(v)
    BY <2>1, <2>2, BaseIsInt DEF BaseAt
  <2>4. ~ AllDigits(v)
    BY <1>1, <1>2, <2>3 DEF AllDigits
  <2>5. ~ HasDot(v) /\ ~ HasExp(v) /\ FracEnd(v) = WholeEnd(v)
    BY <1>3, <2>3 DEF HasDot, HasExp
  <2> QED
    BY <2>4, <2>5 DEF Numeral, DecimalFloat
<1> QED
  BY <1>7, <1>8, <1>9, <1>10, <1>11

WholeSpelt(v)    == Spelt(v, 0, FracEnd(v), Digits, 10)
ExponentSpelt(v) == Spelt(v, FracEnd(v) + 1, Size(v), Digits, 10)
BaseOf(v)        == IF v[2] = "x" THEN 16 ELSE 8
BasedSpelt(v)    == Spelt(v, 2, Size(v), HexDigits, BaseOf(v))

(* The digits of a numeral, through the dot. *)
LEMMA WholeSpeltIs ==
  ASSUME NEW v, IsText(v), Numeral(v)
  PROVE  /\ WholeSpelt(v) \in [0 .. FracEnd(v) -> Nat]
         /\ WholeSpelt(v)[SignSize(v)] = 0
         /\ HasDot(v) => WholeSpelt(v)[WholeEnd(v) + 1] = WholeSpelt(v)[WholeEnd(v)]
         /\ \A r \in 0 .. FracEnd(v) - 1 : At(v, r) \in Digits =>
              WholeSpelt(v)[r + 1] = WholeSpelt(v)[r] * 10 + HexVal(At(v, r))
         /\ \A r \in 0 .. FracEnd(v) : WholeSpelt(v)[r] <= Whole(v)
         /\ Whole(v) = WholeSpelt(v)[FracEnd(v)] /\ Whole(v) \in Nat
         /\ Whole(v) < TenTo[Size(v)]
<1> DEFINE g == WholeSpelt(v)
           e == FracEnd(v)
           s == SignSize(v)
           d == WholeEnd(v)
<1>1. /\ v \in Seq(STRING) /\ Len(v) \in Nat /\ Size(v) = Len(v)
      /\ s \in 0 .. 1 /\ d \in s .. Len(v) /\ e \in d .. Len(v)
      /\ HasDot(v) => d + 1 <= e
      /\ 0 \in 0 .. Len(v) /\ e \in 0 .. Len(v)
  BY TextSize, FloatScan DEF IsText
<1>2. Accumulates(g, v, 0, e, Digits, 10) /\ DigitsValue(Part(v, 0, e), Digits, 10) = g[e]
  BY <1>1, OctalsAreHex, SpeltIs DEF WholeSpelt
<1>3. Whole(v) = g[e]
  BY <1>2, NumeralParts DEF Whole
<1>4. g[e] < TenTo[e] /\ TenTo[e] <= TenTo[Len(v)] /\ TenTo[e] \in Nat /\ TenTo[Len(v)] \in Nat
  <2>1. Len(Part(v, 0, e)) = e
    <3>1. Len(Part(v, 0, e)) = e - 0
      BY <1>1, PartIs
    <3> HIDE DEF e
    <3>2. e - 0 = e
      BY <1>1
    <3> QED
      BY <3>1, <3>2
  <2>2. g[e] < TenTo[e]
    <3>1. Len(Part(v, 0, e)) \in Nat
      BY <1>1, <2>1
    <3> QED
      BY <1>2, <2>1, <3>1, UpToBelow
  <2>3. TenTo[e] \in Nat \ {0} /\ TenTo[Len(v)] \in Nat \ {0} /\ TenTo[e] <= TenTo[Len(v)]
    BY <1>1, TenToIs, PowersRise
  <2> QED
    BY <2>2, <2>3
<1> HIDE DEF g, e
<1>5. /\ g \in [0 .. e -> Nat] /\ g[0] = 0
      /\ \A r \in 0 .. e - 1 :
           g[r + 1] = IF At(v, r) \in Digits THEN g[r] * 10 + HexVal(At(v, r)) ELSE g[r]
      /\ \A r \in 0 .. e : g[r] <= g[e]
  BY <1>2 DEF Accumulates
<1>6. g[e] \in Nat
  BY <1>1, <1>5
<1>7. g[s] = 0
  <2>1. CASE s = 0
    BY <1>5, <2>1
  <2>2. CASE s # 0
    <3>1. s = 1 /\ 0 \in 0 .. e - 1 /\ 0 + 1 = 1
      BY <1>1, <2>2
    <3>2. At(v, 0) \in Signs
      BY <3>1 DEF SignSize, s
    <3>3. At(v, 0) \notin Digits
      BY <3>2, NotDigits DEF Signs
    <3> QED
      BY <1>5, <3>1, <3>3
  <2> QED
    BY <2>1, <2>2
<1>8. HasDot(v) => g[d + 1] = g[d]
  <2> SUFFICES ASSUME HasDot(v) PROVE g[d + 1] = g[d]
    OBVIOUS
  <2>1. At(v, d) \notin Digits
    BY NotDigits DEF HasDot
  <2>2. d \in 0 .. e - 1
    BY <1>1
  <2> HIDE DEF d
  <2> QED
    BY <1>5, <2>1, <2>2
<1>9. g[e] < TenTo[Size(v)]
  BY <1>1, <1>4, <1>6
<1> QED
  BY <1>3, <1>5, <1>6, <1>7, <1>8, <1>9 DEF g, e

(* The digits of the exponent, behind its sign. *)
LEMMA ExponentSpeltIs ==
  ASSUME NEW v, IsText(v), Numeral(v), HasExp(v)
  PROVE  /\ ExponentSpelt(v) \in [FracEnd(v) + 1 .. Size(v) -> Nat]
         /\ ExponentSpelt(v)[ExpFrom(v)] = 0
         /\ \A r \in ExpFrom(v) .. Size(v) - 1 :
              ExponentSpelt(v)[r + 1] = ExponentSpelt(v)[r] * 10 + HexVal(At(v, r))
         /\ \A r \in ExpFrom(v) .. Size(v) : ExponentSpelt(v)[r] <= Exponent(v)
         /\ Exponent(v) = ExponentSpelt(v)[Size(v)] /\ Exponent(v) \in Nat
         /\ Power(v) = IF At(v, FracEnd(v) + 1) = "-" THEN - Exponent(v) ELSE Exponent(v)
<1> DEFINE g == ExponentSpelt(v)
           e == Len(v)
           a == FracEnd(v) + 1
           x == ExpFrom(v)
<1>1. /\ v \in Seq(STRING) /\ e \in Nat /\ Size(v) = e
      /\ FracEnd(v) \in Nat /\ a \in Nat /\ a < e /\ x \in Nat /\ x < e
      /\ x \in a .. a + 1
      /\ \A r \in x .. e - 1 : At(v, r) \in Digits
  <2>1. FracEnd(v) \in 0 .. Size(v) /\ Size(v) = Len(v) /\ Len(v) \in Nat /\ FracEnd(v) \in Nat
    BY TextSize, FloatScan
  <2>2. /\ FracEnd(v) + 1 < Size(v) /\ ExpFrom(v) < Size(v)
        /\ ExpFrom(v) \in FracEnd(v) + 1 .. FracEnd(v) + 2
        /\ \A r \in ExpFrom(v) .. Size(v) - 1 : At(v, r) \in Digits
    BY NumeralScan
  <2> QED
    BY <2>1, <2>2 DEF IsText
<1>2. Accumulates(g, v, a, e, Digits, 10) /\ DigitsValue(Part(v, a, e), Digits, 10) = g[e]
  <2>1. a \in 0 .. Len(v) /\ Len(v) \in a .. Len(v)
    BY <1>1
  <2> QED
    BY <1>1, <2>1, OctalsAreHex, SpeltIs DEF ExponentSpelt
<1>3. Exponent(v) = g[e]
  BY <1>1, <1>2, NumeralParts DEF Exponent
<1>4. Power(v) = IF At(v, a) = "-" THEN - Exponent(v) ELSE Exponent(v)
  BY <1>1, NumeralParts DEF Power
<1>5. x = a \/ (x = a + 1 /\ At(v, a) \in Signs)
  BY <1>1 DEF ExpFrom
<1> HIDE DEF g, e, a, x
<1>6. /\ g \in [a .. e -> Nat] /\ g[a] = 0
      /\ \A r \in a .. e - 1 :
           g[r + 1] = IF At(v, r) \in Digits THEN g[r] * 10 + HexVal(At(v, r)) ELSE g[r]
      /\ \A r \in a .. e : g[r] <= g[e]
  BY <1>2 DEF Accumulates
<1>7. g[x] = 0
  <2>1. CASE x = a + 1 /\ At(v, a) \in Signs
    <3>1. a \in a .. e - 1 /\ At(v, a) \notin Digits
      BY <1>1, <2>1, NotDigits DEF Signs
    <3> QED
      BY <1>6, <2>1, <3>1
  <2> QED
    BY <1>5, <1>6, <2>1
<1>8. \A r \in x .. e - 1 : r \in a .. e - 1
  BY <1>1
<1>9. \A r \in x .. e : r \in a .. e
  BY <1>1
<1>10. g[e] \in Nat
  BY <1>1, <1>6
<1>11. \A r \in x .. e - 1 : g[r + 1] = g[r] * 10 + HexVal(At(v, r))
  BY <1>1, <1>6, <1>8
<1>12. \A r \in x .. e : g[r] <= Exponent(v)
  BY <1>3, <1>6, <1>9
<1> QED
  BY <1>1, <1>3, <1>4, <1>6, <1>7, <1>10, <1>11, <1>12 DEF g, e, a, x

(* Without an exponent the number is not scaled but for its fraction. *)
LEMMA NoExponent ==
  ASSUME NEW v, IsText(v), Numeral(v), ~ HasExp(v)
  PROVE  Exponent(v) = 0 /\ Power(v) = 0
<1>1. FracEnd(v) = Size(v) /\ Size(v) = Len(v) /\ Len(v) \in Nat /\ ExpAt(v) = FracEnd(v)
  BY NumeralScan, NumeralParts, TextSize
<1>2. Part(v, ExpAt(v) + 1, Size(v)) = << >>
  <2> DEFINE n == Len(v)
  <2>1. n \in Nat /\ n + 1 + 1 > n /\ n + 1 + 1 \in Int
    BY <1>1
  <2>2. Part(v, ExpAt(v) + 1, Size(v)) = SubSeq(v, n + 1 + 1, n)
    BY <1>1 DEF Part
  <2> HIDE DEF n
  <2> QED
    BY <2>1, <2>2, SubSeqEmpty
<1>3. Exponent(v) = 0
  <2>1. Len(<< >>) = 0
    OBVIOUS
  <2> DEFINE w == << >>
  <2>2. Counts(UpTo(w, Digits, 10), w, Digits, 10) /\ DigitsValue(w, Digits, 10) = UpTo(w, Digits, 10)[Len(w)]
    BY <2>1, OctalsAreHex, UpToCounts
  <2> QED
    BY <1>2, <2>1, <2>2 DEF Exponent, Counts
<1>4. ~ (ExpAt(v) + 1 < Size(v))
  BY <1>1
<1> QED
  BY <1>3, <1>4 DEF Power

(* The digits of a number that has a base. *)
LEMMA BasedSpeltIs ==
  ASSUME NEW v, IsText(v), Size(v) >= 2
  PROVE  /\ BasedSpelt(v) \in [2 .. Size(v) -> Nat]
         /\ BasedSpelt(v)[2] = 0
         /\ \A r \in 2 .. Size(v) - 1 : At(v, r) \in HexDigits =>
              BasedSpelt(v)[r + 1] = BasedSpelt(v)[r] * BaseOf(v) + HexVal(At(v, r))
         /\ \A r \in 2 .. Size(v) : BasedSpelt(v)[r] <= BasedValue(v)
         /\ BasedValue(v) = BasedSpelt(v)[Size(v)] /\ BasedValue(v) \in Nat
<1> DEFINE g == BasedSpelt(v)
           e == Len(v)
           b == BaseOf(v)
<1>1. /\ v \in Seq(STRING) /\ e \in Nat /\ Size(v) = e /\ e >= 2 /\ b \in Nat \ {0}
      /\ 2 \in 0 .. e /\ e \in 2 .. e
  BY TextSize DEF IsText, BaseOf
<1>2. Accumulates(g, v, 2, e, HexDigits, b) /\ DigitsValue(Part(v, 2, e), HexDigits, b) = g[e]
  <2> HIDE DEF b
  <2> QED
    BY <1>1, SpeltIs DEF BasedSpelt, b
<1>3. BasedValue(v) = g[e]
  BY <1>1, <1>2 DEF BasedValue, BaseOf
<1> HIDE DEF g, e, b
<1>4. /\ g \in [2 .. e -> Nat] /\ g[2] = 0
      /\ \A r \in 2 .. e - 1 :
           g[r + 1] = IF At(v, r) \in HexDigits THEN g[r] * b + HexVal(At(v, r)) ELSE g[r]
      /\ \A r \in 2 .. e : g[r] <= g[e]
  BY <1>2 DEF Accumulates
<1>5. g[e] \in Nat
  BY <1>1, <1>4
<1>6. \A r \in 2 .. e - 1 : At(v, r) \in HexDigits => g[r + 1] = g[r] * b + HexVal(At(v, r))
  BY <1>4
<1> QED
  BY <1>1, <1>3, <1>4, <1>5, <1>6 DEF g, e, b

LEMMA DivIs ==
  ASSUME NEW n \in Nat, NEW y \in Nat \ {0}
  PROVE  n \div y \in Nat /\ (n < y => n \div y = 0)
<1> DEFINE q == n \div y
           r == n % y
<1>1. n = y * q + r /\ q \in Int /\ r \in 0 .. y - 1
  OBVIOUS
<1> HIDE DEF q, r
<1>2. q >= 0
  BY <1>1
<1>3. n < y => q = 0
  <2>1. q > 0 => y * q >= y
    BY <1>1
  <2> QED
    BY <1>1, <1>2, <2>1
<1> QED
  BY <1>1, <1>2, <1>3 DEF q

(* What the meaning of a numeral comes to, by the sign of its exponent. *)
LEMMA MagnitudeIs ==
  ASSUME NEW v, IsText(v), Numeral(v), Power(v) - Places(v) \in Int
  PROVE  /\ Magnitude(v) \in Nat
         /\ Power(v) - Places(v) = 0 => Magnitude(v) = Whole(v)
         /\ Power(v) - Places(v) > 0 /\ Magnitude(v) \in Signed(LongBits) =>
              Magnitude(v) = Whole(v) * TenTo[Power(v) - Places(v)]
         /\ Power(v) - Places(v) < 0 =>
              Magnitude(v) = Whole(v) \div TenTo[- (Power(v) - Places(v))]
<1> DEFINE x == Power(v) - Places(v)
           n == Whole(v)
           t == TwoTo[LongBits]
           h == TwoTo[LongBits - 1]
           z == Size(v)
           m == Magnitude(v)
<1>1. /\ x \in Int /\ n \in Nat /\ z \in Nat /\ n < TenTo[z] /\ TenTo[0] = 1
      /\ LongBits \in Nat /\ LongBits > 0
      /\ t \in Nat \ {0} /\ h \in Nat /\ t = 2 * h
      /\ Signed(LongBits) = - h .. h - 1
      /\ \A k \in Nat : TenTo[k] \in Nat \ {0}
  <2>1. LongBits \in Nat \ {0}
    BY BitsAssumption
  <2>2. t \in Nat \ {0} /\ h \in Nat /\ t = 2 * h /\ Signed(LongBits) = - h .. h - 1
    BY <2>1, BoundsAre DEF Signed
  <2>3. TenTo[0] = 1 /\ \A k \in Nat : TenTo[k] \in Nat \ {0}
    BY TenToIs DEF Powers
  <2>4. n \in Nat /\ n < TenTo[z] /\ z \in Nat
    BY WholeSpeltIs, TextSize
  <2>5. LongBits \in Nat /\ LongBits > 0
    BY <2>1
  <2> HIDE DEF n, t, h, z, x
  <2> QED
    BY <2>2, <2>3, <2>4, <2>5 DEF x
<1>2. m = ScaledBy(v, n, x)
  BY NumeralParts DEF Magnitude
<1>3. m = IF n = 0 \/ - x > z THEN 0
          ELSE IF x >= LongBits THEN t
          ELSE IF x >= 0 THEN n * TenTo[x]
          ELSE n \div TenTo[- x]
  BY <1>2 DEF ScaledBy
<1> HIDE DEF x, n, t, h, z, m
<1>4. x < 0 => - x \in Nat /\ TenTo[- x] \in Nat \ {0} /\ n \div TenTo[- x] \in Nat
  <2> SUFFICES ASSUME x < 0 PROVE - x \in Nat /\ TenTo[- x] \in Nat \ {0} /\ n \div TenTo[- x] \in Nat
    OBVIOUS
  <2>1. - x \in Nat
    BY <1>1
  <2>2. TenTo[- x] \in Nat \ {0}
    BY <1>1, <2>1
  <2> DEFINE y == TenTo[- x]
  <2> HIDE DEF y
  <2>3. n \div y \in Nat
    BY <1>1, <2>2, DivIs DEF y
  <2> QED
    BY <2>1, <2>2, <2>3 DEF y
<1>5. x >= 0 => x \in Nat /\ TenTo[x] \in Nat \ {0} /\ n * TenTo[x] \in Nat
  <2> SUFFICES ASSUME x >= 0 PROVE x \in Nat /\ TenTo[x] \in Nat \ {0} /\ n * TenTo[x] \in Nat
    OBVIOUS
  <2>1. x \in Nat
    BY <1>1
  <2>2. TenTo[x] \in Nat \ {0}
    BY <1>1, <2>1
  <2> DEFINE y == TenTo[x]
  <2> HIDE DEF y
  <2>3. n * y \in Nat
    BY <1>1, <2>2 DEF y
  <2> QED
    BY <2>1, <2>2, <2>3 DEF y
<1>6. m \in Nat
  <2>1. CASE n = 0 \/ - x > z
    BY <1>3, <2>1
  <2>2. CASE ~ (n = 0 \/ - x > z)
    <3>1. CASE x >= LongBits
      BY <1>1, <1>3, <2>2, <3>1
    <3>2. CASE ~ (x >= LongBits)
      BY <1>1, <1>3, <1>4, <1>5, <2>2, <3>2
    <3> QED
      BY <3>1, <3>2
  <2> QED
    BY <2>1, <2>2
<1>7. ASSUME x = 0 PROVE m = n
  BY <1>1, <1>3, <1>7
<1>8. ASSUME x > 0, m \in Signed(LongBits) PROVE m = n * TenTo[x]
  <2>1. TenTo[x] \in Nat
    BY <1>1, <1>5, <1>8
  <2>2. CASE n = 0
    <3>1. 0 * TenTo[x] = 0
      BY <2>1
    <3> QED
      BY <1>3, <2>2, <3>1
  <2>3. CASE n # 0
    <3>1. ~ (- x > z) /\ x >= 0
      BY <1>1, <1>8
    <3>2. ~ (x >= LongBits)
      <4>1. x >= LongBits => m = t
        BY <1>3, <2>3, <3>1
      <4> QED
        BY <1>1, <1>8, <4>1
    <3> QED
      BY <1>3, <2>3, <3>1, <3>2
  <2> QED
    BY <2>2, <2>3
<1>9. ASSUME x < 0 PROVE m = n \div TenTo[- x]
  <2> DEFINE y == TenTo[- x]
  <2>1. - x \in Nat /\ y \in Nat \ {0}
    BY <1>4, <1>9
  <2>2. CASE n = 0
    <3>1. m = 0
      BY <1>3, <2>2
    <3> HIDE DEF y
    <3>2. 0 \div y = 0
      BY <2>1, DivIs
    <3> QED
      BY <2>2, <3>1, <3>2 DEF y
  <2>3. CASE n # 0 /\ - x > z
    <3>1. m = 0
      BY <1>3, <2>3
    <3>2. TenTo[z] \in Nat /\ TenTo[z] <= y
      <4>1. z \in 0 .. - x
        BY <1>1, <2>1, <2>3
      <4> QED
        BY <2>1, <4>1, TenToIs, PowersRise
    <3> HIDE DEF y
    <3>3. n < y
      BY <1>1, <2>1, <3>2
    <3>4. n \div y = 0
      BY <1>1, <2>1, <3>3, DivIs
    <3> QED
      BY <3>1, <3>4 DEF y
  <2>4. CASE n # 0 /\ ~ (- x > z)
    BY <1>1, <1>3, <1>9, <2>4
  <2> QED
    BY <2>2, <2>3, <2>4
<1> QED
  BY <1>6, <1>7, <1>8, <1>9 DEF x, n, m

(* What is cast to the type it fits is what it was, out of long long too. *)
LEMMA CastIs ==
  ASSUME NEW T \in Targets, NEW n \in ValuesOf(T)
  PROVE  /\ Cast(n, T) = n
         /\ Cast(Wrap(n, LongBits), T) = n
<1>1. /\ T.bits \in Nat \ {0} /\ LongBits \in Nat \ {0} /\ T.bits <= LongBits
      /\ T.signed \in BOOLEAN
  BY BitsAssumption DEF Targets
<1> DEFINE b == T.bits
           l == LongBits
<1>2. /\ TwoTo[b] \in Nat \ {0} /\ TwoTo[l] \in Nat \ {0}
      /\ TwoTo[b - 1] \in Nat /\ TwoTo[l - 1] \in Nat
      /\ TwoTo[b] <= TwoTo[l] /\ TwoTo[b - 1] <= TwoTo[l - 1]
      /\ b # l => TwoTo[b] <= TwoTo[l - 1]
      /\ TwoTo[b] = 2 * TwoTo[b - 1] /\ TwoTo[l] = 2 * TwoTo[l - 1]
  <2>1. /\ l - 1 \in Nat /\ b \in 0 .. l /\ b - 1 \in 0 .. l - 1
        /\ b # l => b \in 0 .. l - 1
    BY <1>1
  <2>2. /\ TwoTo[b] <= TwoTo[l] /\ TwoTo[b - 1] <= TwoTo[l - 1]
        /\ b # l => TwoTo[b] <= TwoTo[l - 1]
    BY <1>1, <2>1, TwoToIs, PowersRise
  <2> QED
    BY <1>1, <2>2, BoundsAre
<1> HIDE DEF b, l
<1>3. CASE T.signed
  <2>1. n \in Signed(b)
    BY <1>3 DEF ValuesOf, b
  <2>2. Signed(b) \subseteq Signed(l)
    <3>1. Signed(b) = - TwoTo[b - 1] .. TwoTo[b - 1] - 1 /\ Signed(l) = - TwoTo[l - 1] .. TwoTo[l - 1] - 1
      BY DEF Signed, LowBound, HighBound
    <3> QED
      BY <1>2, <3>1
  <2>3. Wrap(n, b) = n /\ Wrap(n, l) = n
    BY <1>1, <2>1, <2>2, WrapWithin DEF b, l
  <2>4. Cast(n, T) = Wrap(n, b)
    BY <1>3 DEF Cast, b
  <2> QED
    BY <2>3, <2>4 DEF l
<1>4. CASE ~ T.signed
  <2>1. n \in 0 .. TwoTo[b] - 1 /\ n \in 0 .. TwoTo[l] - 1
    BY <1>2, <1>4 DEF ValuesOf, b
  <2>2. \A k : Cast(k, T) = k % TwoTo[b]
    BY <1>4 DEF Cast, b
  <2>3. n % TwoTo[b] = n
    BY <1>1, <2>1, WrapUnsigned DEF b
  <2>4. Wrap(n, l) = n \/ (Wrap(n, l) = n - TwoTo[l] /\ n >= TwoTo[l - 1])
    BY <1>1, <2>1, WrapUnsigned DEF l
  <2>5. CASE Wrap(n, l) = n
    BY <2>2, <2>3, <2>5 DEF l
  <2>6. CASE Wrap(n, l) = n - TwoTo[l] /\ n >= TwoTo[l - 1]
    <3>1. b = l
      BY <1>2, <2>1, <2>6
    <3> DEFINE t == TwoTo[b]
    <3>2. Wrap(n, l) = n - t /\ t \in Nat \ {0} /\ n \in 0 .. t - 1
      BY <1>2, <2>1, <2>6, <3>1
    <3> HIDE DEF t
    <3>3. (n - t) % t = n
      BY <3>2
    <3> QED
      BY <2>2, <2>3, <3>2, <3>3 DEF t, l
  <2> QED
    BY <2>4, <2>5, <2>6
<1> QED
  BY <1>1, <1>3, <1>4

-----------------------------------------------------------------------------
(* How far the loops have come, for a spelling that their types hold. *)

(* Its digits fit the mantissa, its powers int, its value long long. *)
InMantissa(v) == Whole(v) < TwoTo[LongBits]
InInt(v)      == {Exponent(v), - Places(v), Power(v) - Places(v)} \subseteq Signed(IntBits)
InLong(v)     == {Whole(v), Magnitude(v)} \subseteq Signed(LongBits)

Manageable(v) ==
  /\ InMantissa(v) /\ InInt(v)
  /\ InLong(v) \/ Power(v) - Places(v) = 0

(* y is the mantissa, scaled but for 10^e. *)
Scaled(v, y, e) ==
  /\ Power(v) - Places(v) = 0 => e = 0 /\ y = Wrap(Whole(v), LongBits)
  /\ Power(v) - Places(v) > 0 =>
       /\ e \in 0 .. Power(v) - Places(v)
       /\ y = Whole(v) * TenTo[Power(v) - Places(v) - e]
  /\ Power(v) - Places(v) < 0 =>
       /\ e \in Power(v) - Places(v) .. 0
       /\ y = Whole(v) \div TenTo[e - (Power(v) - Places(v))]

(* The bounds of int are around what an exponent goes through. *)
LEMMA InIntIs ==
  ASSUME NEW v, IsText(v), Numeral(v), InInt(v)
  PROVE  /\ Exponent(v) \in Nat /\ Places(v) \in Nat
         /\ \A k \in 0 .. Exponent(v) : k \in Signed(IntBits)
         /\ \A k \in 0 .. Places(v) : - k \in Signed(IntBits)
         /\ Power(v) - Places(v) \in Signed(IntBits) /\ Power(v) - Places(v) \in Int
<1> DEFINE h == TwoTo[IntBits - 1]
           x == Exponent(v)
           p == Places(v)
           q == Power(v) - Places(v)
<1>1. h \in Nat \ {0} /\ Signed(IntBits) = - h .. h - 1
  <2>1. IntBits \in Nat \ {0}
    BY BitsAssumption
  <2> QED
    BY <2>1, BoundsAre DEF Signed
<1>2. x \in Nat /\ p \in Nat
  <2>1. x \in Nat
    BY ExponentSpeltIs, NoExponent
  <2>2. WholeEnd(v) \in Nat /\ FracEnd(v) \in Nat /\ (HasDot(v) => WholeEnd(v) + 1 <= FracEnd(v))
    BY FloatScan, TextSize
  <2>3. p = 0 \/ (HasDot(v) /\ p = FracEnd(v) - WholeEnd(v) - 1)
    BY NumeralParts
  <2> HIDE DEF p
  <2>4. p \in Nat
    BY <2>2, <2>3
  <2> QED
    BY <2>1, <2>4
<1>3. x \in Signed(IntBits) /\ - p \in Signed(IntBits) /\ q \in Signed(IntBits)
  BY DEF InInt
<1> HIDE DEF h, x, p, q
<1>4. /\ \A k \in 0 .. x : k \in Signed(IntBits)
      /\ \A k \in 0 .. p : - k \in Signed(IntBits)
      /\ q \in Int
  BY <1>1, <1>2, <1>3
<1> QED
  BY <1>2, <1>3, <1>4 DEF x, p, q

(* Multiplying by ten comes nearer, and stays in long long. *)
LEMMA TimesTen ==
  ASSUME NEW v, IsText(v), Numeral(v), Manageable(v),
         NEW y, NEW e, Scaled(v, y, e), e > 0
  PROVE  /\ y * 10 \in Signed(LongBits)
         /\ Scaled(v, y * 10, e - 1)
<1> DEFINE q == Power(v) - Places(v)
           n == Whole(v)
           h == TwoTo[LongBits - 1]
<1>1. q \in Int
  BY InIntIs DEF Manageable
<1>2. /\ q = 0 => e = 0
      /\ q > 0 => e \in 0 .. q /\ y = n * TenTo[q - e]
      /\ q < 0 => e \in q .. 0
  BY DEF Scaled
<1>3. n \in Nat /\ (Magnitude(v) \in Nat)
  BY <1>1, WholeSpeltIs, MagnitudeIs
<1>4. /\ h \in Nat \ {0} /\ Signed(LongBits) = - h .. h - 1
  <2>1. LongBits \in Nat \ {0}
    BY BitsAssumption
  <2> QED
    BY <2>1, BoundsAre DEF Signed
<1>5. q > 0 /\ Magnitude(v) \in Signed(LongBits) => Magnitude(v) = n * TenTo[q]
  BY <1>1, MagnitudeIs
<1>6. q = 0 \/ Magnitude(v) \in Signed(LongBits)
  BY DEF Manageable, InLong
<1> HIDE DEF q, n, h
<1>7. q > 0
  BY <1>1, <1>2
<1>8. e \in 1 .. q /\ y = n * TenTo[q - e] /\ n * TenTo[q] \in - h .. h - 1
  BY <1>1, <1>2, <1>4, <1>5, <1>6, <1>7
<1> DEFINE a == TenTo[q - e]
           b == TenTo[q - (e - 1)]
           c == TenTo[q]
<1>9. a \in Nat \ {0} /\ b = 10 * a /\ c \in Nat \ {0} /\ b <= c
  <2>1. q - e \in Nat /\ (q - e) + 1 = q - (e - 1) /\ q - (e - 1) \in 0 .. q /\ q \in Nat
    BY <1>1, <1>7, <1>8
  <2>2. a \in Nat \ {0} /\ TenTo[(q - e) + 1] = 10 * a
    BY <2>1, TenToIs DEF Powers
  <2>3. c \in Nat \ {0} /\ b <= c
    BY <2>1, TenToIs, PowersRise
  <2> QED
    BY <2>1, <2>2, <2>3
<1>10. y = n * a /\ n * c \in - h .. h - 1
  BY <1>8
<1> HIDE DEF a, b, c
<1>11. y * 10 = n * b /\ y * 10 \in Nat
  <2>1. (n * a) * 10 = n * (10 * a)
    BY <1>3, <1>9
  <2>2. (n * a) * 10 \in Nat
    BY <1>3, <1>9
  <2> QED
    BY <1>9, <1>10, <2>1, <2>2
<1>12. n * b <= n * c
  BY <1>3, <1>9
<1>13. y * 10 \in Signed(LongBits)
  <2> DEFINE z == y * 10
  <2>1. z \in Nat /\ z <= n * c
    BY <1>11, <1>12
  <2> DEFINE w == n * c
  <2>2. w \in - h .. h - 1 /\ z <= w
    BY <1>10, <2>1
  <2> HIDE DEF z, w
  <2>3. z \in - h .. h - 1
    BY <1>4, <2>1, <2>2
  <2> QED
    BY <1>4, <2>3 DEF z
<1>14. e - 1 \in 0 .. q /\ ~ (q = 0) /\ ~ (q < 0)
  BY <1>1, <1>7, <1>8
<1>15. y * 10 = n * TenTo[q - (e - 1)]
  BY <1>11 DEF b
<1>16. Scaled(v, y * 10, e - 1)
  BY <1>14, <1>15 DEF Scaled, q, n
<1> QED
  BY <1>13, <1>16

(* So does dividing by ten. *)
LEMMA OverTen ==
  ASSUME NEW v, IsText(v), Numeral(v), Manageable(v),
         NEW y, NEW e, Scaled(v, y, e), e < 0
  PROVE  Scaled(v, Tenth(y), e + 1)
<1> DEFINE q == Power(v) - Places(v)
           n == Whole(v)
<1>1. q \in Int
  BY InIntIs DEF Manageable
<1>2. /\ q = 0 => e = 0
      /\ q > 0 => e \in 0 .. q
      /\ q < 0 => e \in q .. 0 /\ y = n \div TenTo[e - q]
  BY DEF Scaled
<1>3. n \in Nat
  BY WholeSpeltIs
<1> HIDE DEF q, n
<1>4. q < 0 /\ e \in q .. -1 /\ y = n \div TenTo[e - q]
  BY <1>1, <1>2
<1> DEFINE a == TenTo[e - q]
           b == TenTo[(e + 1) - q]
<1>5. a \in Nat \ {0} /\ b = 10 * a
  <2>1. e - q \in Nat /\ (e - q) + 1 = (e + 1) - q
    BY <1>1, <1>4
  <2>2. a \in Nat \ {0} /\ TenTo[(e - q) + 1] = 10 * a
    BY <2>1, TenToIs DEF Powers
  <2> QED
    BY <2>1, <2>2
<1>6. y = n \div a
  BY <1>4
<1> HIDE DEF a, b
<1>7. y \in Nat
  BY <1>3, <1>5, <1>6, DivIs
<1>8. Tenth(y) = y \div 10
  BY <1>7 DEF Tenth
<1>9. (n \div a) \div 10 = n \div (10 * a)
  BY <1>3, <1>5
<1>10. Tenth(y) = n \div TenTo[(e + 1) - q]
  BY <1>5, <1>6, <1>8, <1>9 DEF b
<1>11. e + 1 \in q .. 0 /\ ~ (q = 0) /\ ~ (q > 0)
  BY <1>1, <1>4
<1> DEFINE z == Tenth(y)
<1>12. z = n \div TenTo[(e + 1) - q]
  BY <1>10
<1> HIDE DEF z
<1> DEFINE f == e + 1
<1>13. f \in q .. 0 /\ z = n \div TenTo[f - q]
  BY <1>11, <1>12
<1> HIDE DEF f
<1>14. Scaled(v, z, f)
  BY <1>11, <1>13 DEF Scaled, q, n
<1> QED
  BY <1>14 DEF z, f

(* What T can hold and the loops too is manageable. *)
LEMMA HeldIsManageable ==
  ASSUME NEW v, IsText(v), Numeral(v), NEW T \in Targets, Fits(v, T), Holds(v, T)
  PROVE  /\ Manageable(v)
         /\ Power(v) - Places(v) \in Int
         /\ Magnitude(v) \in Signed(LongBits)
            \/ (~ T.signed /\ Power(v) - Places(v) = 0)
<1> DEFINE q == Power(v) - Places(v)
           n == Whole(v)
           h == TwoTo[LongBits - 1]
           t == TwoTo[LongBits]
<1>1. /\ h \in Nat \ {0} /\ t = 2 * h /\ Signed(LongBits) = - h .. h - 1
  <2>1. LongBits \in Nat \ {0}
    BY BitsAssumption
  <2> QED
    BY <2>1, BoundsAre DEF Signed
<1>2. n \in Nat
  BY WholeSpeltIs
<1>3. CASE /\ {Whole(v), Magnitude(v)} \subseteq Signed(LongBits)
           /\ {Exponent(v), - Places(v), Power(v) - Places(v)} \subseteq Signed(IntBits)
  <2>1. InLong(v) /\ InInt(v) /\ Magnitude(v) \in Signed(LongBits)
    BY <1>3 DEF InLong, InInt
  <2>2. q \in Int
    BY <2>1, InIntIs
  <2>3. n \in Signed(LongBits)
    BY <1>3
  <2> HIDE DEF n, h, t
  <2>4. n < t
    BY <1>1, <1>2, <2>3
  <2> QED
    BY <2>1, <2>2, <2>4 DEF Manageable, InMantissa, n, t
<1>4. CASE CoreInt10(v) /\ ~ T.signed
  <2>1. ~ HasDot(v) /\ ~ HasExp(v)
    <3>1. AllDigits(v)
      BY <1>4, DecimalsAre
    <3>2. WholeEnd(v) = Size(v)
      BY <3>1, FloatScan, TextSize DEF AllDigits
    <3>3. ~ HasDot(v) /\ FracEnd(v) = Size(v)
      BY <3>2, TextSize DEF HasDot, FracEnd
    <3> QED
      BY <3>3, TextSize DEF HasExp
  <2>2. Exponent(v) = 0 /\ Power(v) = 0 /\ Places(v) = 0
    BY <2>1, NoExponent, NumeralParts
  <2>3. q = 0
    BY <2>2
  <2>4. InInt(v)
    <3> DEFINE k == TwoTo[IntBits - 1]
    <3>1. k \in Nat \ {0} /\ Signed(IntBits) = - k .. k - 1
      <4>1. IntBits \in Nat \ {0}
        BY BitsAssumption
      <4> QED
        BY <4>1, BoundsAre DEF Signed
    <3> DEFINE p == Places(v)
    <3>2. p \in Nat /\ p <= 0 /\ Exponent(v) = 0 /\ Power(v) - Places(v) = 0
      BY <2>2, <2>3
    <3> HIDE DEF k, p
    <3>3. 0 \in Signed(IntBits) /\ - p \in Signed(IntBits)
      BY <3>1, <3>2
    <3> QED
      BY <3>2, <3>3 DEF InInt, p
  <2>5. Magnitude(v) = n
    BY <2>3, MagnitudeIs
  <2>6. Denoted(v) \in 0 .. TwoTo[T.bits] - 1
    BY <1>4 DEF Fits, ValuesOf
  <2>7. TwoTo[T.bits] \in Nat \ {0} /\ TwoTo[T.bits] <= t
    <3>1. T.bits \in 0 .. LongBits /\ LongBits \in Nat
      BY BitsAssumption DEF Targets
    <3> QED
      BY <3>1, TwoToIs, PowersRise
  <2> DEFINE d == TwoTo[T.bits]
             m == Denoted(v)
  <2>8. m = n \/ m = - n
    BY <2>5 DEF Denoted
  <2> HIDE DEF n, h, t, d, m
  <2>9. n < t
    BY <1>1, <1>2, <2>6, <2>7, <2>8 DEF d, m
  <2> QED
    BY <1>4, <2>3, <2>4, <2>9 DEF Manageable, InMantissa, n, t
<1> QED
  BY <1>3, <1>4, NumeralParts DEF Holds

(* The sign, and the cast, of what has been scaled. *)
LEMMA NumeralRight ==
  ASSUME NEW v, IsText(v), Numeral(v), NEW T \in Targets, Fits(v, T), Holds(v, T),
         NEW y, Scaled(v, y, 0), NEW n, n = IF v[1] = "-" THEN - y ELSE y
  PROVE  /\ n \in Signed(LongBits)
         /\ Cast(Wrap(n, LongBits), T) = Denoted(v)
<1> DEFINE q == Power(v) - Places(v)
           w == Whole(v)
           m == Magnitude(v)
           h == TwoTo[LongBits - 1]
           t == TwoTo[LongBits]
<1>1. LongBits \in Nat \ {0}
  BY BitsAssumption
<1>2. /\ h \in Nat \ {0} /\ t = 2 * h /\ Signed(LongBits) = - h .. h - 1
  BY <1>1, BoundsAre DEF Signed
<1>3. /\ Manageable(v) /\ q \in Int
      /\ m \in Signed(LongBits) \/ (~ T.signed /\ q = 0)
  BY HeldIsManageable
<1>4. /\ w \in Nat /\ w < t /\ m \in Nat
  BY <1>3, WholeSpeltIs, MagnitudeIs DEF Manageable, InMantissa
<1>5. /\ q = 0 => y = Wrap(w, LongBits) /\ m = w
      /\ q > 0 => y = w * TenTo[q - 0]
      /\ q < 0 => y = w \div TenTo[0 - q]
  BY <1>3, MagnitudeIs DEF Scaled
<1>6. /\ q > 0 /\ m \in Signed(LongBits) => m = w * TenTo[q]
      /\ q < 0 => m = w \div TenTo[- q]
  BY <1>3, MagnitudeIs
<1>7. Denoted(v) = (IF v[1] = "-" THEN - m ELSE m) /\ Denoted(v) \in ValuesOf(T)
  BY DEF Denoted, Fits
<1> HIDE DEF q, w, m, h, t
<1>8. CASE m \in Signed(LongBits)
  <2>1. y = m
    <3>1. CASE q = 0
      BY <1>1, <1>5, <1>8, <3>1, WrapWithin
    <3>2. CASE q # 0
      <4>1. q - 0 = q /\ 0 - q = - q /\ (q > 0 \/ q < 0)
        BY <1>3, <3>2
      <4> QED
        BY <1>5, <1>6, <1>8, <4>1
    <3> QED
      BY <3>1, <3>2
  <2>2. n = Denoted(v)
    BY <1>7, <2>1
  <2>3. n \in Signed(LongBits)
    BY <1>2, <1>4, <1>8, <2>1
  <2> QED
    BY <1>7, <2>2, <2>3, CastIs
<1>9. CASE ~ (m \in Signed(LongBits))
  <2>1. ~ T.signed /\ q = 0 /\ y = Wrap(w, LongBits) /\ m = w
    BY <1>3, <1>5, <1>9
  <2>2. v[1] # "-"
    <3> SUFFICES ASSUME v[1] = "-" PROVE FALSE
      OBVIOUS
    <3>1. - m \in ValuesOf(T)
      BY <1>7
    <3>2. - m >= 0
      <4>1. - m \in 0 .. TwoTo[T.bits] - 1
        BY <2>1, <3>1 DEF ValuesOf
      <4> QED
        BY <4>1
    <3>3. m = 0
      BY <1>4, <3>2
    <3> QED
      BY <1>2, <1>9, <3>3
  <2>3. n = Wrap(w, LongBits) /\ Denoted(v) = w /\ w \in ValuesOf(T)
    BY <1>7, <2>1, <2>2
  <2>4. n \in Signed(LongBits)
    <3>1. w \in 0 .. t - 1
      BY <1>2, <1>4
    <3> QED
      BY <1>1, <2>3, <3>1, WrapUnsigned DEF t
  <2>5. Wrap(n, LongBits) = n
    BY <1>1, <2>4, WrapWithin
  <2>6. Cast(n, T) = w
    BY <2>3, CastIs
  <2> QED
    BY <2>3, <2>4, <2>5, <2>6
<1> QED
  BY <1>8, <1>9

(* A number with a base, as far as its mantissa holds it. *)
LEMMA BasedRight ==
  ASSUME NEW v, IsText(v), CoreIntBase(v), NEW T \in Targets, Fits(v, T),
         NEW m, BasedValue(v) < TwoTo[LongBits] => m = BasedValue(v)
  PROVE  Cast(Wrap(m, LongBits), T) = Denoted(v)
<1> DEFINE d == BasedValue(v)
           t == TwoTo[LongBits]
           b == TwoTo[T.bits]
           c == TwoTo[T.bits - 1]
<1>1. v[1] = "0" /\ Size(v) >= 2
  <2>1. Prefixed(v, "o") \/ Prefixed(v, "x")
    BY PrefixedIs, TextSize DEF CoreIntBase
  <2> QED
    BY <2>1, TextSize DEF Prefixed, At
<1>2. Denoted(v) = d
  BY <1>1 DEF Denoted, Magnitude
<1>3. d \in Nat
  BY <1>1, BasedSpeltIs
<1>4. d \in ValuesOf(T)
  BY <1>2 DEF Fits
<1>5. /\ b \in Nat \ {0} /\ c \in Nat \ {0} /\ b = 2 * c /\ t \in Nat \ {0} /\ b <= t
      /\ Signed(T.bits) = - c .. c - 1
  <2>1. T.bits \in 0 .. LongBits /\ LongBits \in Nat \ {0} /\ T.bits \in Nat \ {0}
    BY BitsAssumption DEF Targets
  <2>2. b <= t
    BY <2>1, TwoToIs, PowersRise
  <2> QED
    BY <2>1, <2>2, BoundsAre DEF Signed
<1>6. d \in - c .. c - 1 \/ d \in 0 .. b - 1
  BY <1>4, <1>5 DEF ValuesOf
<1>7. m = d
  <2> HIDE DEF d, t, b, c
  <2>1. d < t
    BY <1>3, <1>5, <1>6
  <2> QED
    BY <2>1 DEF d, t
<1> QED
  BY <1>2, <1>4, <1>7, CastIs

(* The branch before the loops is for the words of the schema. *)
LEMMA SpecialIsWord ==
  ASSUME NEW v, IsText(v), PlainInt(v) \/ PlainFloat(v), SpecialAt(v, SignSize(v))
  PROVE  ~ IsFinite(v)
<1> DEFINE s == SignSize(v)
<1>1. /\ v \in Seq(STRING) /\ Len(v) \in Nat /\ Size(v) = Len(v) /\ s \in {0, 1} /\ s <= Size(v)
      /\ s + 1 < Size(v) /\ At(v, s) = "." /\ At(v, s + 1) \notin Digits
  BY TextSize DEF IsText, SpecialAt
<1>2. ~ PlainInt(v)
  <2> SUFFICES ASSUME PlainInt(v) PROVE FALSE
    OBVIOUS
  <2>1. ~ Prefixed(v, "x") /\ ~ Prefixed(v, "o")
    BY <1>1, NotDigits DEF Prefixed, SignSize
  <2>2. Run(v, s, Digits) = Size(v)
    BY <2>1 DEF PlainInt
  <2>3. s \in 0 .. Size(v) /\ s \in s .. Size(v) - 1
    BY <1>1
  <2>4. At(v, s) \in Digits
    BY <1>1, <2>2, <2>3, RunIs
  <2> QED
    BY <1>1, <2>4, NotDigits
<1>3. ~ DecimalFloat(v)
  <2>1. WholeEnd(v) = s
    <3>1. s \in 0 .. Size(v) /\ s \in s .. Size(v) /\ \A r \in s .. s - 1 : At(v, r) \in Digits
      BY <1>1
    <3> QED
      BY <1>1, <3>1, NotDigits, RunAt DEF WholeEnd
  <2>2. FracEnd(v) = s + 1
    <3>1. HasDot(v) /\ s + 1 \in 0 .. Size(v) /\ s + 1 \in s + 1 .. Size(v)
          /\ \A r \in s + 1 .. (s + 1) - 1 : At(v, r) \in Digits
      BY <1>1, <2>1 DEF HasDot
    <3>2. Run(v, s + 1, Digits) = s + 1
      BY <1>1, <3>1, RunAt
    <3> QED
      BY <2>1, <3>1, <3>2 DEF FracEnd
  <2> QED
    BY <1>1, <2>1, <2>2 DEF DecimalFloat, HasDigit
<1>4. CASE v \in NotANumbers
  <2>1. Part(v, 0, Size(v)) = v
    <3>1. Part(v, 0, Size(v)) = SubSeq(v, 1, Len(v))
      BY <1>1 DEF Part
    <3> QED
      BY <1>1, <3>1, SubSeqFull
  <2> QED
    BY <1>4, <2>1 DEF IsFinite
<1>5. CASE SubSeq(v, s + 1, Size(v)) \in Infinities
  <2>1. Part(v, s, Size(v)) \in Infinities
    BY <1>5 DEF Part
  <2> QED
    BY <1>1, <2>1 DEF IsFinite
<1> QED
  BY <1>2, <1>3, <1>4, <1>5 DEF PlainFloat

(***************************************************************************)
(* What the loops have made of the text so far: the accumulators are the   *)
(* numbers that the characters before i spell, as long as the types hold   *)
(* those, and constant has not been lost on the way.                       *)
(***************************************************************************)
Fresh      == mantissa = 0 /\ base = 10 /\ exponent10 = 0 /\ expValue = 0 /\ constant
SignIsRead == negative <=> At(text, 0) = "-"
WholeIsRead == InMantissa(text) => mantissa = WholeSpelt(text)[i]

CountBased ==
  /\ CoreIntBase(text) /\ base = BaseOf(text) /\ constant
  /\ BasedValue(text) < TwoTo[LongBits] => mantissa = BasedSpelt(text)[i]

CountWhole ==
  /\ SignIsRead /\ WholeIsRead
  /\ base = 10 /\ exponent10 = 0 /\ expValue = 0 /\ constant

CountFraction ==
  /\ SignIsRead /\ WholeIsRead
  /\ base = 10 /\ expValue = 0
  /\ InInt(text) => constant /\ exponent10 = - (i - WholeEnd(text) - 1)

CountExponent ==
  /\ SignIsRead /\ (InMantissa(text) => mantissa = Whole(text))
  /\ expValue = 0
  /\ InInt(text) => constant /\ exponent10 = - Places(text)

CountDigits ==
  /\ Numeral(text)
  /\ SignIsRead /\ (InMantissa(text) => mantissa = Whole(text))
  /\ expNegative <=> At(text, FracEnd(text) + 1) = "-"
  /\ InInt(text) =>
       constant /\ exponent10 = - Places(text) /\ expValue = ExponentSpelt(text)[i]

CountScale ==
  /\ Numeral(text)
  /\ SignIsRead
  /\ Manageable(text) => constant /\ Scaled(text, value, exponent10)

Count ==
  /\ pc \in {"resolve", "sign"} => Fresh
  /\ pc = "prefix" => Fresh /\ SignIsRead
  /\ pc = "based" => CountBased
  /\ pc = "whole" => CountWhole
  /\ pc = "fraction" => CountFraction
  /\ pc = "exponent" => CountExponent
  /\ pc = "digits" => CountDigits
  /\ pc = "scale" => CountScale
  /\ ConvertsWithinWidth

LEMMA InitCount == Init => Count
BY DEF Init, Count, Fresh, ConvertsWithinWidth

(* A number that long long holds is no smaller for being unsigned. *)
LEMMA UnsignedIs ==
  ASSUME NEW n \in Nat, n < TwoTo[LongBits]
  PROVE  Unsigned(n) = n
<1>1. LongBits \in Nat \ {0}
  BY BitsAssumption
<1> DEFINE t == TwoTo[LongBits]
<1>2. t \in Nat
  BY <1>1, BoundsAre
<1> HIDE DEF t
<1>3. n \in 0 .. t - 1
  BY <1>2 DEF t
<1> QED
  BY <1>1, <1>3, WrapUnsigned DEF Unsigned, t

(* One more digit of the mantissa. *)
LEMMA ShiftedIs ==
  ASSUME NEW v, IsText(v), Numeral(v), NEW r \in 0 .. FracEnd(v) - 1, At(v, r) \in Digits,
         InMantissa(v)
  PROVE  Unsigned(WholeSpelt(v)[r] * 10 + HexVal(At(v, r))) = WholeSpelt(v)[r + 1]
<1> DEFINE n == WholeSpelt(v)[r + 1]
           t == TwoTo[LongBits]
           w == Whole(v)
<1>1. WholeSpelt(v)[r] * 10 + HexVal(At(v, r)) = n
  BY WholeSpeltIs
<1>2. n \in Nat /\ n <= w /\ w \in Nat /\ t \in Nat /\ w < t
  <2>1. FracEnd(v) \in Nat
    BY FloatScan, TextSize
  <2>2. r + 1 \in 0 .. FracEnd(v)
    BY <2>1
  <2>3. LongBits \in Nat \ {0}
    BY BitsAssumption
  <2> QED
    BY <2>2, <2>3, WholeSpeltIs, BoundsAre DEF InMantissa
<1> HIDE DEF n, w, t
<1>3. n < t
  BY <1>2
<1> QED
  BY <1>1, <1>2, <1>3, UnsignedIs DEF n, t

(* What Computed leaves of a number that fits. *)
LEMMA ComputedIs ==
  ASSUME NEW b \in Nat \ {0}, NEW n \in Signed(b), NEW x, Computed(n, b, x), constant
  PROVE  x = n /\ constant'
BY WrapWithin DEF Computed

(* Before it is scaled, the mantissa is all there is to scale. *)
LEMMA ScaledAtFirst ==
  ASSUME NEW v, IsText(v), Numeral(v), Manageable(v)
  PROVE  Scaled(v, Wrap(Whole(v), LongBits), Power(v) - Places(v))
<1> DEFINE q == Power(v) - Places(v)
           n == Whole(v)
           y == Wrap(n, LongBits)
<1>1. q \in Int /\ n \in Nat /\ TenTo[0] = 1 /\ LongBits \in Nat \ {0}
  BY InIntIs, WholeSpeltIs, TenToIs, BitsAssumption DEF Manageable, Powers
<1>2. q # 0 => y = n
  BY <1>1, WrapWithin DEF Manageable, InLong
<1>3. /\ q = 0 => q = 0 /\ y = Wrap(Whole(v), LongBits)
      /\ q > 0 => q \in 0 .. q /\ y = n * TenTo[q - q]
      /\ q < 0 => q \in q .. 0 /\ y = n \div TenTo[q - q]
  <2>1. y = Wrap(Whole(v), LongBits)
    OBVIOUS
  <2> HIDE DEF q, n, y
  <2>2. q - q = 0 /\ (q > 0 => q \in 0 .. q) /\ (q < 0 => q \in q .. 0)
        /\ n * 1 = n /\ n \div 1 = n
    BY <1>1
  <2> QED
    BY <1>1, <1>2, <2>1, <2>2
<1> HIDE DEF q, n, y
<1>4. Scaled(v, y, q)
  BY <1>3 DEF Scaled, q, n
<1> QED
  BY <1>4 DEF y, q, n

LEMMA CountInductive == IInv /\ Count /\ [Next]_vars => Count'
<1> SUFFICES ASSUME IInv, Count, Next PROVE Count'
  <2>1. UNCHANGED vars /\ Count => Count'
    BY DEF vars, Count, Fresh, SignIsRead, WholeIsRead, CountBased, CountWhole, CountFraction,
           CountExponent, CountDigits, CountScale, ConvertsWithinWidth, Converts
  <2> QED
    BY <2>1
<1>1. /\ IsText(text) /\ Len(text) \in Nat /\ Size(text) = Len(text)
      /\ SignSize(text) \in 0 .. 1 /\ SignSize(text) <= Size(text)
      /\ i \in 0 .. Size(text) /\ Where
      /\ WholeEnd(text) \in Nat /\ WholeEnd(text) \in SignSize(text) .. Size(text)
      /\ FracEnd(text) \in Nat /\ FracEnd(text) \in WholeEnd(text) .. Size(text)
      /\ HasDot(text) => WholeEnd(text) + 1 <= FracEnd(text)
  BY TextSize, FloatScan DEF IInv
<1>2. IntBits \in Nat \ {0} /\ LongBits \in Nat \ {0}
  BY BitsAssumption
<1>3. CASE Pick
  BY <1>3 DEF Pick, Count, Fresh, ConvertsWithinWidth
<1>4. CASE Sign
  BY <1>4 DEF Sign, Count, Fresh, SignIsRead, ConvertsWithinWidth
<1>5. CASE Special
  <2>1. SpecialAt(text, SignSize(text)) /\ (PlainInt(text) \/ PlainFloat(text))
    BY <1>1, <1>5 DEF Special, AtSpecial, MoreIn, More, Here, SpecialAt, Where
  <2>2. ~ IsFinite(text)
    BY <1>1, <2>1, SpecialIsWord
  <2>3. pc' = "done" /\ text' = text
    BY <1>5 DEF Special
  <2>4. ConvertsWithinWidth'
    BY <2>2, <2>3 DEF ConvertsWithinWidth, Fits
  <2> QED
    BY <2>3, <2>4 DEF Count
<1>6. CASE Based
  <2>1. i = SignSize(text) /\ BaseAt(text, i) /\ (PlainInt(text) \/ PlainFloat(text))
    BY <1>1, <1>6 DEF Based, AtBase, MoreIn, More, Here, BaseAt, Where
  <2>2. SignSize(text) = 0 /\ PlainInt(text) /\ WholeEnd(text) = SignSize(text) + 1
    BY <1>1, <2>1, BaseIsPrefix, BaseIsInt
  <2>3. i = 0 /\ i' = 2 /\ At(text, 1) = text[2] /\ Size(text) >= 2
        /\ At(text, 0) = "0" /\ At(text, 1) \in {"x", "o"}
    BY <1>1, <1>6, <2>1, <2>2 DEF Based, BaseAt, At
  <2>4. CoreIntBase(text)
    <3>1. ~ CoreInt10(text)
      <4>1. 1 \in 0 .. Size(text) - 1 /\ At(text, 1) \notin Digits
        BY <1>1, <2>1, <2>2, <2>3, NotDigits DEF BaseAt
      <4>2. ~ AllDigits(text)
        BY <2>2, <4>1, <1>1 DEF AllDigits
      <4> QED
        BY <1>1, <4>2, DecimalsAre
    <3> QED
      BY <1>1, <2>2, <3>1, IntegersAre DEF CoreInt
  <2>5. /\ pc = "prefix" /\ pc' = "based" /\ text' = text
        /\ base' = (IF text[2] = "x" THEN 16 ELSE 8)
        /\ mantissa' = mantissa /\ constant' = constant
    BY <1>6, <2>3 DEF Based
  <2>6. mantissa = 0 /\ constant
    BY <2>5 DEF Count, Fresh
  <2>7. BasedSpelt(text)[2] = 0
    BY <1>1, <2>3, BasedSpeltIs
  <2>8. CountBased'
    BY <2>3, <2>4, <2>5, <2>6, <2>7 DEF CountBased, BaseOf
  <2> QED
    BY <2>5, <2>8 DEF Count, ConvertsWithinWidth
<1>7. CASE Decimal
  <2>1. i = SignSize(text) /\ ~ SpecialAt(text, i) /\ ~ BaseAt(text, i)
    BY <1>1, <1>7
       DEF Decimal, AtSpecial, AtBase, MoreIn, More, Here, SpecialAt, BaseAt, Where
  <2>2. Numeral(text)
    BY <1>1, <1>7, <2>1, RestIsNumeral DEF Decimal, Where
  <2>3. WholeSpelt(text)[i] = 0
    BY <1>1, <2>1, <2>2, WholeSpeltIs
  <2>4. /\ pc = "prefix" /\ pc' = "whole"
        /\ UNCHANGED << text, i, negative, base, mantissa, expValue, exponent10, constant >>
    BY <1>7 DEF Decimal
  <2>5. CountWhole'
    BY <2>3, <2>4 DEF CountWhole, Count, Fresh, SignIsRead, WholeIsRead
  <2> QED
    BY <2>4, <2>5 DEF Count, ConvertsWithinWidth
<1>8. CASE BasedDigit
  <2> DEFINE n == BasedSpelt(text)[i + 1]
             t == TwoTo[LongBits]
             d == BasedValue(text)
  <2>1. /\ pc = "based" /\ pc' = "based" /\ mantissa' = Shifted /\ i' = i + 1 /\ i < Size(text)
        /\ UNCHANGED << text, base, constant >>
    BY <1>8 DEF BasedDigit, More
  <2>2. CountBased /\ i \in 2 .. Size(text) - 1 /\ At(text, i) \in HexDigits /\ Size(text) >= 2
        /\ i + 1 \in 2 .. Size(text)
    BY <1>1, <2>1 DEF Count, Where
  <2>3. /\ n = BasedSpelt(text)[i] * BaseOf(text) + HexVal(At(text, i))
        /\ n \in Nat /\ n <= d /\ d \in Nat /\ t \in Nat
    BY <1>1, <1>2, <2>2, BasedSpeltIs, BoundsAre
  <2>4. ASSUME d < t PROVE mantissa' = n
    <3>1. mantissa = BasedSpelt(text)[i] /\ base = BaseOf(text)
      BY <2>2, <2>4 DEF CountBased
    <3>2. mantissa' = Unsigned(n)
      BY <2>1, <2>3, <3>1 DEF Shifted, Here
    <3> HIDE DEF n, d
    <3>3. n < t
      BY <2>3, <2>4
    <3> QED
      BY <2>3, <3>2, <3>3, UnsignedIs
  <2>5. CountBased'
    BY <2>1, <2>2, <2>4 DEF CountBased
  <2> QED
    BY <2>1, <2>5 DEF Count, ConvertsWithinWidth
<1>9. CASE BasedEnd
  <2>1. /\ pc = "based" /\ pc' = "done" /\ value' = Wrap(mantissa, LongBits) /\ i = Size(text)
        /\ UNCHANGED << text, constant >>
    BY <1>1, <1>9 DEF BasedEnd, More
  <2>2. CountBased /\ Size(text) >= 2
    BY <1>1, <2>1 DEF Count, Where
  <2>3. BasedValue(text) < TwoTo[LongBits] => mantissa = BasedValue(text)
    BY <1>1, <2>1, <2>2, BasedSpeltIs DEF CountBased
  <2>4. ASSUME NEW T \in Targets, Fits(text, T)
        PROVE  Cast(value', T) = Denoted(text)
    BY <1>1, <2>1, <2>2, <2>3, <2>4, BasedRight DEF CountBased
  <2>5. ConvertsWithinWidth'
    BY <2>1, <2>2, <2>4 DEF ConvertsWithinWidth, Converts, CountBased
  <2> QED
    BY <2>1, <2>5 DEF Count
<1>10. CASE WholeDigit
  <2>1. /\ pc = "whole" /\ pc' = "whole" /\ mantissa' = Shifted /\ i' = i + 1
        /\ i < Size(text) /\ At(text, i) \in Digits
        /\ UNCHANGED << text, negative, base, expValue, exponent10, constant >>
    BY <1>10 DEF WholeDigit, MoreIn, More, Here
  <2>2. CountWhole /\ Numeral(text) /\ i <= WholeEnd(text)
    BY <1>1, <2>1 DEF Count, Where
  <2>3. i \in 0 .. FracEnd(text) - 1
    <3>1. i # WholeEnd(text)
      BY <1>1, <2>1, FloatScan
    <3> QED
      BY <1>1, <2>2, <3>1
  <2>4. ASSUME InMantissa(text) PROVE mantissa' = WholeSpelt(text)[i + 1]
    <3>1. mantissa' = Unsigned(WholeSpelt(text)[i] * 10 + HexVal(At(text, i)))
      BY <2>1, <2>2, <2>4 DEF CountWhole, WholeIsRead, Shifted, Here
    <3> QED
      BY <1>1, <2>1, <2>2, <2>3, <2>4, <3>1, ShiftedIs
  <2>5. CountWhole'
    BY <2>1, <2>2, <2>4 DEF CountWhole, SignIsRead, WholeIsRead
  <2> QED
    BY <2>1, <2>5 DEF Count, ConvertsWithinWidth
<1>11. CASE WholeDone
  <2>1. /\ pc = "whole" /\ ~ MoreIn(Digits)
        /\ IF MoreIn({"."}) THEN i' = i + 1 /\ pc' = "fraction" ELSE i' = i /\ pc' = "exponent"
        /\ UNCHANGED << text, negative, base, mantissa, expValue, exponent10, constant >>
    BY <1>11 DEF WholeDone
  <2>2. CountWhole /\ Numeral(text) /\ SignSize(text) <= i /\ i <= WholeEnd(text)
    BY <1>1, <2>1 DEF Count, Where
  <2>3. i = WholeEnd(text)
    <3>1. i < WholeEnd(text) => i \in SignSize(text) .. WholeEnd(text) - 1 /\ i < Size(text)
      BY <1>1, <2>2
    <3>2. i < WholeEnd(text) => MoreIn(Digits)
      BY <1>1, <3>1, FloatScan DEF MoreIn, More, Here
    <3> QED
      BY <1>1, <2>1, <2>2, <3>2
  <2>4. MoreIn({"."}) <=> HasDot(text)
    BY <2>3 DEF MoreIn, More, Here, HasDot
  <2>5. CASE HasDot(text)
    <3>1. i' = i + 1 /\ pc' = "fraction"
      BY <2>1, <2>4, <2>5
    <3>2. WholeSpelt(text)[i + 1] = WholeSpelt(text)[i]
      BY <1>1, <2>2, <2>3, <2>5, WholeSpeltIs
    <3>3. - (i' - WholeEnd(text) - 1) = 0
      <4> DEFINE z == i' - WholeEnd(text) - 1
      <4>1. z = 0
        BY <1>1, <2>3, <3>1
      <4> QED
        BY <4>1
    <3>4. CountFraction'
      BY <2>1, <2>2, <3>1, <3>2, <3>3 DEF CountWhole, CountFraction, SignIsRead, WholeIsRead
    <3> QED
      BY <3>1, <3>4 DEF Count, ConvertsWithinWidth
  <2>6. CASE ~ HasDot(text)
    <3>1. i' = i /\ pc' = "exponent"
      BY <2>1, <2>4, <2>6
    <3>2. WholeSpelt(text)[i] = Whole(text)
      BY <1>1, <2>2, <2>3, <2>6, WholeSpeltIs, NumeralParts
    <3>3. - Places(text) = 0
      BY <1>1, <2>2, <2>6, NumeralParts
    <3>4. CountExponent'
      BY <2>1, <2>2, <3>1, <3>2, <3>3 DEF CountWhole, CountExponent, SignIsRead, WholeIsRead
    <3> QED
      BY <3>1, <3>4 DEF Count, ConvertsWithinWidth
  <2> QED
    BY <2>5, <2>6
<1>12. CASE FractionDigit
  <2> DEFINE k == i - WholeEnd(text) - 1
  <2>1. /\ pc = "fraction" /\ pc' = "fraction" /\ mantissa' = Shifted /\ i' = i + 1
        /\ i < Size(text) /\ At(text, i) \in Digits
        /\ Computed(exponent10 - 1, IntBits, exponent10')
        /\ UNCHANGED << text, negative, base, expValue >>
    BY <1>12 DEF FractionDigit, MoreIn, More, Here
  <2>2. /\ CountFraction /\ Numeral(text) /\ HasDot(text)
        /\ WholeEnd(text) < i /\ i <= FracEnd(text)
    BY <1>1, <2>1 DEF Count, Where
  <2>3. i \in 0 .. FracEnd(text) - 1
    <3>1. i # FracEnd(text)
      BY <1>1, <2>1, <2>2, FloatScan
    <3> QED
      BY <1>1, <2>2, <3>1
  <2>4. ASSUME InMantissa(text) PROVE mantissa' = WholeSpelt(text)[i + 1]
    <3>1. mantissa' = Unsigned(WholeSpelt(text)[i] * 10 + HexVal(At(text, i)))
      BY <2>1, <2>2, <2>4 DEF CountFraction, WholeIsRead, Shifted, Here
    <3> QED
      BY <1>1, <2>1, <2>2, <2>3, <2>4, <3>1, ShiftedIs
  <2>5. k + 1 \in 0 .. Places(text) /\ k \in Int /\ i' - WholeEnd(text) - 1 = k + 1
    <3>1. Places(text) = FracEnd(text) - WholeEnd(text) - 1
      BY <1>1, <2>2, NumeralParts
    <3> QED
      BY <1>1, <2>1, <2>2, <2>3, <3>1
  <2>6. ASSUME InInt(text) PROVE constant' /\ exponent10' = - (i' - WholeEnd(text) - 1)
    <3>1. constant /\ exponent10 = - k
      BY <2>2, <2>6 DEF CountFraction
    <3>2. - (k + 1) \in Signed(IntBits)
      BY <1>1, <2>2, <2>5, <2>6, InIntIs
    <3> HIDE DEF k
    <3>3. exponent10 - 1 = - (k + 1)
      BY <2>5, <3>1
    <3>4. exponent10' = - (k + 1) /\ constant'
      BY <1>2, <2>1, <3>1, <3>2, <3>3, ComputedIs
    <3> QED
      BY <2>5, <3>4
  <2>7. CountFraction'
    BY <2>1, <2>2, <2>4, <2>6 DEF CountFraction, SignIsRead, WholeIsRead
  <2> QED
    BY <2>1, <2>7 DEF Count, ConvertsWithinWidth
<1>13. CASE FractionDone
  <2>1. /\ pc = "fraction" /\ pc' = "exponent" /\ ~ MoreIn(Digits)
        /\ UNCHANGED << text, i, negative, mantissa, expValue, exponent10, constant >>
    BY <1>13 DEF FractionDone
  <2>2. /\ CountFraction /\ Numeral(text) /\ HasDot(text)
        /\ WholeEnd(text) < i /\ i <= FracEnd(text)
    BY <1>1, <2>1 DEF Count, Where
  <2>3. i = FracEnd(text)
    <3>1. i < FracEnd(text) => i \in WholeEnd(text) + 1 .. FracEnd(text) - 1 /\ i < Size(text)
      BY <1>1, <2>2
    <3>2. i < FracEnd(text) => MoreIn(Digits)
      BY <1>1, <2>2, <3>1, FloatScan DEF MoreIn, More, Here
    <3> QED
      BY <1>1, <2>1, <2>2, <3>2
  <2>4. /\ WholeSpelt(text)[i] = Whole(text)
        /\ Places(text) = i - WholeEnd(text) - 1
    BY <1>1, <2>2, <2>3, WholeSpeltIs, NumeralParts
  <2>5. CountExponent'
    BY <2>1, <2>2, <2>4 DEF CountFraction, CountExponent, SignIsRead, WholeIsRead
  <2> QED
    BY <2>1, <2>5 DEF Count, ConvertsWithinWidth
<1>14. CASE ExponentSign
  <2>1. /\ pc = "exponent" /\ pc' = "digits" /\ MoreIn({"e", "E"})
        /\ expNegative' = (At(text, i + 1) = "-")
        /\ i' = IF At(text, i + 1) \in Signs THEN i + 2 ELSE i + 1
        /\ UNCHANGED << text, negative, mantissa, expValue, exponent10, constant >>
    BY <1>14 DEF ExponentSign
  <2>2. CountExponent /\ Numeral(text) /\ i = FracEnd(text) /\ HasExp(text)
    BY <1>1, <2>1 DEF Count, Where, MoreIn, More, Here, HasExp
  <2>3. FracEnd(text) + 1 < Size(text)
    BY <1>1, <2>2, NumeralScan
  <2>4. i' = ExpFrom(text)
    BY <2>1, <2>2, <2>3 DEF ExpFrom
  <2>5. ExponentSpelt(text)[i'] = 0
    BY <1>1, <2>2, <2>4, ExponentSpeltIs
  <2>6. expNegative' <=> At(text, FracEnd(text) + 1) = "-"
    BY <2>1, <2>2
  <2>7. CountDigits'
    BY <2>1, <2>2, <2>5, <2>6 DEF CountExponent, CountDigits, SignIsRead
  <2> QED
    BY <2>1, <2>7 DEF Count, ConvertsWithinWidth
<1>15. CASE ExponentDigit
  <2> DEFINE n == ExponentSpelt(text)[i + 1]
  <2>1. /\ pc = "digits" /\ pc' = "digits" /\ i' = i + 1 /\ i < Size(text)
        /\ Computed(expValue * 10 + HexVal(At(text, i)), IntBits, expValue')
        /\ UNCHANGED << text, negative, mantissa, expNegative, exponent10 >>
    BY <1>15 DEF ExponentDigit, More, Here
  <2>2. CountDigits /\ Numeral(text) /\ HasExp(text) /\ ExpFrom(text) <= i
    BY <1>1, <2>1 DEF Count, Where, CountDigits
  <2>3. i \in ExpFrom(text) .. Size(text) - 1 /\ i + 1 \in ExpFrom(text) .. Size(text)
    <3>1. ExpFrom(text) \in Nat
      BY <1>1 DEF ExpFrom
    <3> QED
      BY <1>1, <2>1, <2>2, <3>1
  <2>4. /\ n = ExponentSpelt(text)[i] * 10 + HexVal(At(text, i))
        /\ n \in Nat /\ n <= Exponent(text) /\ Exponent(text) \in Nat
    <3>1. i + 1 \in FracEnd(text) + 1 .. Size(text)
      BY <1>1, <2>2, <2>3, NumeralScan
    <3> QED
      BY <1>1, <2>2, <2>3, <3>1, ExponentSpeltIs
  <2>5. ASSUME InInt(text) PROVE constant' /\ expValue' = n
    <3>1. constant /\ expValue = ExponentSpelt(text)[i]
      BY <2>2, <2>5 DEF CountDigits
    <3>2. Computed(n, IntBits, expValue')
      BY <2>1, <2>4, <3>1
    <3>3. n \in Signed(IntBits)
      <4>1. n \in 0 .. Exponent(text)
        BY <2>4
      <4> QED
        BY <1>1, <2>2, <2>5, <4>1, InIntIs
    <3> HIDE DEF n
    <3> QED
      BY <1>2, <3>1, <3>2, <3>3, ComputedIs
  <2>6. CountDigits'
    BY <2>1, <2>2, <2>5 DEF CountDigits, SignIsRead
  <2> QED
    BY <2>1, <2>6 DEF Count, ConvertsWithinWidth
<1>16. CASE ToSigned
  <2>1. pc' = "scale" /\ value' = Wrap(mantissa, LongBits) /\ UNCHANGED << text, negative >>
    BY <1>16 DEF ToSigned
  <2>2. CASE pc = "exponent" /\ ~ MoreIn({"e", "E"}) /\ UNCHANGED << exponent10, constant >>
    <3>1. CountExponent /\ Numeral(text) /\ ~ HasExp(text)
      BY <1>1, <2>2 DEF Count, Where, MoreIn, More, Here, HasExp
    <3>2. Power(text) = 0
      BY <1>1, <3>1, NoExponent
    <3>3. ASSUME Manageable(text) PROVE constant' /\ Scaled(text, value', exponent10')
      <4>1. constant /\ exponent10 = - Places(text) /\ mantissa = Whole(text)
        BY <3>1, <3>3 DEF CountExponent, Manageable
      <4>2. Scaled(text, Wrap(Whole(text), LongBits), Power(text) - Places(text))
        BY <1>1, <3>1, <3>3, ScaledAtFirst
      <4>3. Power(text) - Places(text) = - Places(text)
        <5>1. Places(text) \in Nat
          BY <1>1, <3>1, <3>3, InIntIs DEF Manageable
        <5> QED
          BY <3>2, <5>1
      <4> QED
        BY <2>1, <2>2, <4>1, <4>2, <4>3
    <3>4. CountScale'
      BY <2>1, <3>1, <3>3 DEF CountScale, CountExponent, SignIsRead
    <3> QED
      BY <2>1, <3>4 DEF Count, ConvertsWithinWidth
  <2>3. CASE /\ pc = "digits" /\ ~ More
             /\ Computed(exponent10 + (IF expNegative THEN - expValue ELSE expValue),
                         IntBits, exponent10')
    <3>1. CountDigits /\ Numeral(text) /\ HasExp(text) /\ i = Size(text)
      BY <1>1, <2>3 DEF Count, Where, CountDigits, More
    <3>2. ASSUME Manageable(text) PROVE constant' /\ Scaled(text, value', exponent10')
      <4>1. /\ constant /\ exponent10 = - Places(text) /\ mantissa = Whole(text)
            /\ expValue = ExponentSpelt(text)[i]
        BY <3>1, <3>2 DEF CountDigits, Manageable
      <4>2. Scaled(text, Wrap(Whole(text), LongBits), Power(text) - Places(text))
        BY <1>1, <3>1, <3>2, ScaledAtFirst
      <4>3. /\ Places(text) \in Nat /\ Exponent(text) \in Nat
            /\ Power(text) - Places(text) \in Signed(IntBits)
        BY <1>1, <3>1, <3>2, InIntIs DEF Manageable
      <4>4. /\ expValue = Exponent(text)
            /\ Power(text) = IF At(text, FracEnd(text) + 1) = "-" THEN - Exponent(text) ELSE Exponent(text)
        BY <1>1, <3>1, <4>1, ExponentSpeltIs
      <4>5. (IF expNegative THEN - expValue ELSE expValue) = Power(text)
        BY <3>1, <4>4 DEF CountDigits
      <4>6. exponent10 + Power(text) = Power(text) - Places(text)
        <5>1. Power(text) \in Int
          BY <4>3, <4>4
        <5> QED
          BY <4>1, <4>3, <5>1
      <4>7. Computed(Power(text) - Places(text), IntBits, exponent10')
        BY <2>3, <4>5, <4>6
      <4>8. exponent10' = Power(text) - Places(text) /\ constant'
        BY <1>2, <4>1, <4>3, <4>7, ComputedIs
      <4> QED
        BY <2>1, <4>1, <4>2, <4>8
    <3>3. CountScale'
      BY <2>1, <3>1, <3>2 DEF CountScale, CountDigits, SignIsRead
    <3> QED
      BY <2>1, <3>3 DEF Count, ConvertsWithinWidth
  <2> QED
    BY <1>16, <2>2, <2>3 DEF ToSigned
<1>17. CASE ScaleUp
  <2>1. /\ pc = "scale" /\ pc' = "scale" /\ exponent10 > 0
        /\ Computed(value * 10, LongBits, value') /\ exponent10' = exponent10 - 1
        /\ UNCHANGED << text, negative >>
    BY <1>17 DEF ScaleUp
  <2>2. CountScale
    BY <2>1 DEF Count
  <2>3. ASSUME Manageable(text) PROVE constant' /\ Scaled(text, value', exponent10')
    <3>1. constant /\ Numeral(text) /\ Scaled(text, value, exponent10)
      BY <2>2, <2>3 DEF CountScale
    <3>2. value * 10 \in Signed(LongBits) /\ Scaled(text, value * 10, exponent10 - 1)
      BY <1>1, <2>1, <2>3, <3>1, TimesTen
    <3>3. value' = value * 10 /\ constant'
      BY <1>2, <2>1, <3>1, <3>2, ComputedIs
    <3> QED
      BY <2>1, <3>2, <3>3
  <2>4. CountScale'
    BY <2>1, <2>2, <2>3 DEF CountScale, SignIsRead
  <2> QED
    BY <2>1, <2>4 DEF Count, ConvertsWithinWidth
<1>18. CASE ScaleDown
  <2>1. /\ pc = "scale" /\ pc' = "scale" /\ exponent10 < 0
        /\ value' = Tenth(value) /\ exponent10' = exponent10 + 1
        /\ UNCHANGED << text, negative, constant >>
    BY <1>18 DEF ScaleDown
  <2>2. CountScale
    BY <2>1 DEF Count
  <2>3. ASSUME Manageable(text) PROVE constant' /\ Scaled(text, value', exponent10')
    <3>1. constant /\ Numeral(text) /\ Scaled(text, value, exponent10)
      BY <2>2, <2>3 DEF CountScale
    <3>2. Scaled(text, Tenth(value), exponent10 + 1)
      BY <1>1, <2>1, <2>3, <3>1, OverTen
    <3> QED
      BY <2>1, <3>1, <3>2
  <2>4. CountScale'
    BY <2>1, <2>2, <2>3 DEF CountScale, SignIsRead
  <2> QED
    BY <2>1, <2>4 DEF Count, ConvertsWithinWidth
<1>19. CASE Finish
  <2> DEFINE n == IF negative THEN - value ELSE value
  <2>1. /\ pc = "scale" /\ pc' = "done" /\ exponent10 = 0 /\ text' = text
        /\ value' = Wrap(n, LongBits)
        /\ constant' = (constant /\ n \in Signed(LongBits))
    BY <1>19 DEF Finish
  <2>2. CountScale
    BY <2>1 DEF Count
  <2>3. n = IF text[1] = "-" THEN - value ELSE value
    BY <2>2 DEF CountScale, SignIsRead, At
  <2> HIDE DEF n
  <2>4. ASSUME NEW T \in Targets, Fits(text, T), Holds(text, T)
        PROVE  constant' /\ Cast(value', T) = Denoted(text)
    <3>1. Numeral(text) /\ Manageable(text)
      BY <1>1, <2>2, <2>4, HeldIsManageable DEF CountScale
    <3>2. constant /\ Scaled(text, value, 0)
      BY <2>1, <2>2, <3>1 DEF CountScale
    <3>3. n \in Signed(LongBits) /\ Cast(Wrap(n, LongBits), T) = Denoted(text)
      BY <1>1, <2>3, <2>4, <3>1, <3>2, NumeralRight
    <3> QED
      BY <2>1, <3>2, <3>3
  <2>5. ConvertsWithinWidth'
    BY <2>1, <2>4 DEF ConvertsWithinWidth, Converts
  <2> QED
    BY <2>1, <2>5 DEF Count
<1>20. CASE Terminated
  BY <1>20 DEF Terminated, vars, Count, ConvertsWithinWidth, Converts
<1> QED
  BY <1>3, <1>4, <1>5, <1>6, <1>7, <1>8, <1>9, <1>10, <1>11, <1>12, <1>13,
     <1>14, <1>15, <1>16, <1>17, <1>18, <1>19, <1>20 DEF Next

(***************************************************************************)
(* For every text and integers of every width: a number converts to the    *)
(* integer it denotes, its fraction truncated, as a constant expression,   *)
(* whenever the type can hold that and the loops of to_arithmetic can hold *)
(* its digits and its exponent; and every integer of an unsigned type      *)
(* does, although it passes through long long.                             *)
(***************************************************************************)
THEOREM ConvertsRight == Spec => []ConvertsWithinWidth
<1>1. Init => IInv /\ Count
  BY InitInv, InitCount
<1>2. IInv /\ Count /\ [Next]_vars => (IInv /\ Count)'
  BY Inductive, CountInductive
<1>3. Count => ConvertsWithinWidth
  BY DEF Count
<1> QED
  BY <1>1, <1>2, <1>3, PTL DEF Spec

=============================================================================
