---------------------------- MODULE EarleyProofs ----------------------------
(***************************************************************************)
(* The parser for every grammar and input: the chart holds items of the    *)
(* grammar that point to sets that are there and never more of them than   *)
(* it has room for, tokens fit in the input and each has its set, a text   *)
(* is accepted exactly if it is read to its end and its tokens derive from *)
(* the start symbol, three tokens never fill the chart, and the lexer      *)
(* takes the longest match of what can follow the tokens before it.        *)
(***************************************************************************)
EXTENDS EarleyProperties, FiniteSetTheorems, Induction

(* While a token is scanned it lies at pos. *)
NewestHere ==
  pc = "scan" => toks # << >> /\ Newest.off = pos /\ pos + Newest.len <= Size

IInv == TypeOK /\ TokensFit /\ NewestHere

-----------------------------------------------------------------------------
(* The capacity of the chart is a number. *)

LEMMA GrammarFacts ==
  ASSUME NEW j \in Jobs
  PROVE  /\ Len(j.grammar.prods) \in Nat
         /\ DOMAIN j.grammar.prods = 1 .. Len(j.grammar.prods)
         /\ \A p \in DOMAIN j.grammar.prods :
              /\ Len(j.grammar.prods[p].rhs) \in Nat
              /\ DOMAIN j.grammar.prods[p].rhs = 1 .. Len(j.grammar.prods[p].rhs)
         /\ Len(j.input) \in Nat
BY JobsAssumption DEF IsJob, IsGrammar

DottedSet == UNION {{p} \X (0 .. Len(Prods[p].rhs)) : p \in DOMAIN Prods}

LEMMA DottedIsFinite ==
  ASSUME job \in Jobs
  PROVE  IsFiniteSet(DottedSet) /\ Dotted = Cardinality(DottedSet)
<1> DEFINE Positions(p) == {p} \X (0 .. Len(Prods[p].rhs))
           F == [p \in DOMAIN Prods |-> Positions(p)]
           S == {Positions(p) : p \in DOMAIN Prods}
<1>1. IsFiniteSet(DOMAIN Prods)
  BY GrammarFacts, FS_Interval DEF Prods
<1>2. F \in Surjection(DOMAIN Prods, S)
  BY DEF Surjection
<1>3. IsFiniteSet(S)
  BY <1>1, <1>2, FS_Surjection
<1>4. \A T \in S : IsFiniteSet(T)
  <2> SUFFICES ASSUME NEW p \in DOMAIN Prods PROVE IsFiniteSet(Positions(p))
    OBVIOUS
  <2>1. Len(Prods[p].rhs) \in Nat
    BY GrammarFacts DEF Prods
  <2>2. IsFiniteSet({p})
    BY FS_Singleton
  <2>3. IsFiniteSet(0 .. Len(Prods[p].rhs))
    BY <2>1, FS_Interval
  <2> QED
    BY <2>2, <2>3, FS_Product
<1>5. IsFiniteSet(UNION S)
  BY <1>3, <1>4, FS_UNION
<1> QED
  BY <1>5 DEF Dotted, DottedSet

LEMMA DottedIsNat ==
  ASSUME job \in Jobs
  PROVE  Dotted \in Nat
BY DottedIsFinite, FS_CardinalityType

LEMMA ItemCapIsNat ==
  ASSUME job \in Jobs
  PROVE  ItemCap \in Nat
<1>1. Size \in Nat
  BY GrammarFacts DEF Size
<1>2. Dotted \in Nat
  BY DottedIsNat
<1> HIDE DEF Size, Dotted
<1>3. (Dotted + 16) * (Size + 2) \in Nat
  BY <1>1, <1>2
<1> QED
  BY <1>3 DEF ItemCap

-----------------------------------------------------------------------------
(* Type correctness and the tokens. *)

LEMMA InitInv == Init => IInv
<1> SUFFICES ASSUME Init PROVE IInv
  OBVIOUS
<1>1. ItemCap \in Nat /\ Size \in Nat
  BY ItemCapIsNat, GrammarFacts DEF Init, Size
<1> HIDE DEF ItemCap, Size
<1> QED
  BY <1>1 DEF Init, IInv, TypeOK, TokensFit, NewestHere

(* Pushing an item that points to a set before changes cur and count only. *)
LEMMA PushInv ==
  ASSUME IInv, NEW it \in Items, it.origin <= Len(sets),
         pc # "nullable", Push(it)
  PROVE  IInv'
<1> USE DEF IInv, Push
<1>1. ItemCap' = ItemCap /\ Items' = Items /\ Size' = Size /\ Terminals' = Terminals
  BY DEF ItemCap, Items, Size, Terminals, Dotted, Prods, Rhs
<1>2. /\ cur' \in Seq(Items) /\ Len(cur') = Len(cur) + 1
      /\ cur'[Len(cur) + 1] = it
      /\ \A k \in 1 .. Len(cur) : cur'[k] = cur[k]
  BY DEF TypeOK
<1>3. \A k \in DOMAIN cur' : cur'[k].origin <= Len(sets)
  <2> SUFFICES ASSUME NEW k \in 1 .. Len(cur) + 1 PROVE cur'[k].origin <= Len(sets)
    BY <1>2
  <2>1. CASE k = Len(cur) + 1
    BY <2>1, <1>2
  <2>2. CASE k # Len(cur) + 1
    <3>1. k \in 1 .. Len(cur)
      BY <2>2 DEF TypeOK
    <3>2. cur[k].origin <= Len(sets) /\ cur'[k] = cur[k]
      BY <3>1, <1>2 DEF TypeOK
    <3> QED
      BY <3>2
  <2> QED
    BY <2>1, <2>2
<1>4. count' \in 0 .. ItemCap
  BY ItemCapIsNat DEF TypeOK
<1>5. pc = "close" => upto <= Len(cur')
  BY <1>2 DEF TypeOK
<1>6. (nullable \subseteq {Prods[p].lhs : p \in DOMAIN Prods})'
  BY DEF TypeOK, Prods
<1>7. TypeOK'
  BY <1>1, <1>2, <1>3, <1>4, <1>5, <1>6 DEF TypeOK
<1>8. TokensFit'
  BY <1>1 DEF TokensFit, TokenEnd
<1>9. NewestHere'
  BY <1>1 DEF NewestHere, Newest
<1> QED
  BY <1>7, <1>8, <1>9

(* What only the phase, the places looked at and the end of a parse touch. *)
LEMMA Kept ==
  ASSUME UNCHANGED job
  PROVE  /\ ItemCap' = ItemCap /\ Items' = Items /\ Size' = Size
         /\ Terminals' = Terminals /\ Prods' = Prods /\ Start' = Start
BY DEF ItemCap, Items, Size, Terminals, Dotted, Prods, Rhs, Start

LEMMA TokenTypes ==
  ASSUME TypeOK
  PROVE  /\ Size \in Nat /\ pos \in Nat /\ pos <= Size
         /\ \A n \in DOMAIN toks :
              /\ toks[n].sym \in Terminals /\ toks[n].off \in Nat
              /\ toks[n].len \in Nat \ {0} /\ TokenEnd(n) \in Nat
<1>1. Size \in Nat
  BY GrammarFacts DEF TypeOK, Size
<1> HIDE DEF Size
<1>2. \A n \in DOMAIN toks : toks[n] \in [sym : Terminals, off : 0 .. Size, len : 1 .. Size]
  <2> DEFINE R == [sym : Terminals, off : 0 .. Size, len : 1 .. Size]
  <2>1. toks \in Seq(R)
    BY DEF TypeOK
  <2> HIDE DEF R
  <2>2. \A n \in DOMAIN toks : toks[n] \in R
    BY <2>1
  <2> QED
    BY <2>2 DEF R
<1>3. \A n \in DOMAIN toks : toks[n].sym \in Terminals /\ toks[n].off \in 0 .. Size /\ toks[n].len \in 1 .. Size
  BY <1>2
<1>4. \A n \in DOMAIN toks : toks[n].off + toks[n].len \in Nat
  <2>1. \A x \in 0 .. Size, y \in 1 .. Size : x + y \in Nat
    BY <1>1
  <2> QED
    BY <1>3, <2>1
<1>5. pos \in 0 .. Size
  BY DEF TypeOK
<1> QED
  BY <1>1, <1>3, <1>4, <1>5 DEF TokenEnd

LEMMA EndInv ==
  ASSUME IInv, NEW e \in {"accepted", "lex", "parse", "overflow"}, End(e)
  PROVE  IInv'
<1> USE DEF IInv, End
<1>1. TypeOK'
  BY Kept DEF TypeOK
<1>2. TokensFit'
  <2>1. \A n \in DOMAIN toks : TokenEnd(n) <= Size
    <3> SUFFICES ASSUME NEW n \in DOMAIN toks PROVE TokenEnd(n) <= Size
      OBVIOUS
    <3>1. TokenEnd(n) \in Nat /\ Size \in Nat /\ pos \in Nat /\ pos <= Size
      BY TokenTypes
    <3>2. TokenEnd(n) <= pos \/ TokenEnd(n) <= Size
      BY DEF TokensFit
    <3> QED
      BY <3>1, <3>2
  <2> QED
    BY <2>1, Kept DEF TokensFit, TokenEnd, TypeOK
<1>3. NewestHere'
  BY DEF NewestHere
<1> QED
  BY <1>1, <1>2, <1>3

(* The first item of a production, from a set that is there. *)
LEMMA FirstItem ==
  ASSUME job \in Jobs, NEW p \in DOMAIN Prods, NEW n \in Nat
  PROVE  Item(p, 0, n) \in Items /\ Item(p, 0, n).origin = n
BY GrammarFacts DEF Item, Items, Rhs, Prods

LEMMA NextItemOf ==
  ASSUME job \in Jobs, NEW it \in Items, ~ Complete(it)
  PROVE  /\ Advance(it) \in Items /\ Advance(it).origin = it.origin
         /\ Advance(it).prod = it.prod /\ Advance(it).dot = it.dot + 1
         /\ it.dot < Len(Rhs(it))
BY GrammarFacts DEF Advance, Items, Rhs, Prods, Complete

-----------------------------------------------------------------------------
(* Each action. *)

LEMMA NullableInv ==
  ASSUME IInv, MarkNullable \/ NullableDone
  PROVE  IInv'
<1> USE DEF IInv
<1>1. CASE MarkNullable
  <2> USE <1>1 DEF MarkNullable
  <2>1. PICK p \in DOMAIN Prods : nullable' = nullable \cup {Prods[p].lhs} /\ ix' = p + 1
    OBVIOUS
  <2>2. p \in Nat \ {0}
    BY GrammarFacts DEF TypeOK, Prods
  <2>3. TypeOK'
    BY <2>1, <2>2, Kept DEF TypeOK
  <2>4. TokensFit' /\ NewestHere'
    BY Kept DEF TokensFit, TokenEnd, NewestHere, Newest
  <2> QED
    BY <2>3, <2>4
<1>2. CASE NullableDone
  <2> USE <1>2 DEF NullableDone
  <2>1. TypeOK'
    BY Kept DEF TypeOK
  <2>2. TokensFit' /\ NewestHere'
    BY Kept DEF TypeOK, TokensFit, TokenEnd, NewestHere, Newest
  <2> QED
    BY <2>1, <2>2
<1> QED
  BY <1>1, <1>2

LEMMA StartInv ==
  ASSUME IInv, PushStart \/ StartDone
  PROVE  IInv'
<1> USE DEF IInv
<1>1. CASE PushStart
  <2>1. PICK p \in DOMAIN Prods : Push(Item(p, 0, 0)) /\ pc = "start"
    BY <1>1 DEF PushStart
  <2>2. Len(sets) \in Nat /\ job \in Jobs
    BY DEF TypeOK
  <2>3. Item(p, 0, 0) \in Items /\ Item(p, 0, 0).origin = 0
    BY <2>2, FirstItem
  <2>4. Item(p, 0, 0).origin <= Len(sets)
    BY <2>2, <2>3
  <2> QED
    BY <2>1, <2>3, <2>4, PushInv
<1>2. CASE StartDone
  <2> USE <1>2 DEF StartDone
  <2>1. TypeOK'
    BY Kept DEF TypeOK
  <2>2. TokensFit' /\ NewestHere'
    BY Kept DEF TypeOK, TokensFit, TokenEnd, NewestHere, Newest
  <2> QED
    BY <2>1, <2>2
<1> QED
  BY <1>1, <1>2

LEMMA HereFacts ==
  ASSUME IInv, Closing
  PROVE  /\ Here \in Items /\ Here.origin \in 0 .. Len(sets)
         /\ ParentEnd \in Nat /\ ParentEnd <= Len(OriginSet)
         /\ OriginSet \in Seq(Items)
         /\ \A j \in DOMAIN OriginSet : OriginSet[j].origin <= Here.origin
<1> USE DEF IInv, TypeOK
<1>1. ix \in 1 .. Len(cur)
  BY DEF Closing
<1>2. Here \in Items /\ Here.origin \in 0 .. Len(sets)
  <2>1. cur \in Seq(Items) /\ cur[ix].origin <= Len(sets) /\ Len(sets) \in Nat
    BY <1>1
  <2>2. cur[ix] \in Items
    BY <1>1, <2>1
  <2>3. cur[ix].origin \in Nat
    BY <2>2 DEF Items
  <2> QED
    BY <2>1, <2>2, <2>3 DEF Here
<1>3. CASE Here.origin = Len(sets)
  BY <1>2, <1>3 DEF ParentEnd, OriginSet, Closing
<1>4. CASE Here.origin # Len(sets)
  <2>1. Here.origin + 1 \in DOMAIN sets
    BY <1>2, <1>4
  <2>2. OriginSet = sets[Here.origin + 1] /\ ParentEnd = Len(OriginSet)
    BY <1>4 DEF OriginSet, ParentEnd
  <2>3. OriginSet \in Seq(Items)
    BY <2>1, <2>2
  <2>4. \A j \in DOMAIN OriginSet : OriginSet[j].origin \in Nat
    BY <2>3 DEF Items
  <2>5. \A j \in DOMAIN OriginSet : OriginSet[j].origin < Here.origin + 1
    BY <2>1, <2>2
  <2>6. Here.origin \in Nat /\ Len(OriginSet) \in Nat
    BY <1>2, <2>3
  <2>7. \A j \in DOMAIN OriginSet : OriginSet[j].origin <= Here.origin
    BY <2>4, <2>5, <2>6
  <2> QED
    BY <1>2, <2>2, <2>3, <2>6, <2>7
<1> QED
  BY <1>3, <1>4

LEMMA CloseInv ==
  ASSUME IInv, Predict \/ SkipNullable \/ CompleteItem \/ NextItem
  PROVE  IInv'
<1> USE DEF IInv
<1>1. CASE Predict
  <2>1. PICK p \in DOMAIN Prods : Push(Item(p, 0, Len(sets))) /\ pc = "close"
    BY <1>1 DEF Predict, Closing
  <2>2. Len(sets) \in Nat
    BY DEF TypeOK
  <2>3. Item(p, 0, Len(sets)) \in Items /\ Item(p, 0, Len(sets)).origin = Len(sets)
    BY <2>2, FirstItem DEF TypeOK
  <2> QED
    BY <2>1, <2>2, <2>3, PushInv
<1>2. CASE SkipNullable
  <2>1. Closing /\ ~ Complete(Here) /\ Push(Advance(Here)) /\ pc = "close"
    BY <1>2 DEF SkipNullable, SkipMissing, Closing
  <2>2. Advance(Here) \in Items /\ Advance(Here).origin = Here.origin
    BY <2>1, HereFacts, NextItemOf DEF TypeOK
  <2>3. Here.origin <= Len(sets)
    BY <2>1, HereFacts
  <2> QED
    BY <2>1, <2>2, <2>3, PushInv
<1>3. CASE CompleteItem
  <2>1. PICK j \in 1 .. ParentEnd : CompleteMissing(j) /\ Push(Advance(OriginSet[j]))
    BY <1>3 DEF CompleteItem
  <2>2. Closing /\ pc = "close"
    BY <1>3 DEF CompleteItem, Closing
  <2>3. j \in DOMAIN OriginSet /\ OriginSet[j] \in Items
    BY <2>1, <2>2, HereFacts
  <2>4. ~ Complete(OriginSet[j])
    BY <2>1 DEF CompleteMissing, Wants
  <2>5. /\ Advance(OriginSet[j]) \in Items
        /\ Advance(OriginSet[j]).origin = OriginSet[j].origin
    BY <2>3, <2>4, NextItemOf DEF TypeOK
  <2>6. OriginSet[j].origin <= Len(sets)
    <3>1. OriginSet[j].origin <= Here.origin /\ Here.origin \in 0 .. Len(sets)
      BY <2>2, <2>3, HereFacts
    <3>2. OriginSet[j].origin \in Nat /\ Len(sets) \in Nat
      BY <2>3 DEF Items, TypeOK
    <3> QED
      BY <3>1, <3>2
  <2> QED
    BY <2>1, <2>2, <2>5, <2>6, PushInv
<1>4. CASE NextItem
  <2> USE <1>4 DEF NextItem, Closing
  <2>1. TypeOK'
    BY Kept DEF TypeOK
  <2>2. TokensFit' /\ NewestHere'
    BY Kept DEF TokensFit, TokenEnd, NewestHere, Newest
  <2> QED
    BY <2>1, <2>2
<1> QED
  BY <1>1, <1>2, <1>3, <1>4

LEMMA CloseDoneInv ==
  ASSUME IInv, CloseDone
  PROVE  IInv'
<1> USE DEF IInv, CloseDone
<1>1. /\ sets' \in Seq(Seq(Items)) /\ Len(sets') = Len(sets) + 1
      /\ sets'[Len(sets) + 1] = cur
      /\ \A n \in 1 .. Len(sets) : sets'[n] = sets[n]
      /\ Len(sets) \in Nat
  BY DEF TypeOK
<1>2. \A n \in DOMAIN sets' : \A k \in DOMAIN sets'[n] : sets'[n][k].origin < n
  <2> SUFFICES ASSUME NEW n \in 1 .. Len(sets) + 1, NEW k \in DOMAIN sets'[n]
               PROVE  sets'[n][k].origin < n
    BY <1>1
  <2>1. CASE n \in 1 .. Len(sets)
    BY <2>1, <1>1 DEF TypeOK
  <2>2. CASE n = Len(sets) + 1
    <3>1. sets'[n] = cur /\ cur \in Seq(Items)
      BY <2>2, <1>1 DEF TypeOK
    <3>2. cur[k] \in Items /\ cur[k].origin <= Len(sets)
      BY <3>1 DEF TypeOK
    <3>3. cur[k].origin \in Nat
      BY <3>2 DEF Items
    <3> QED
      BY <2>2, <3>1, <3>2, <3>3, <1>1
  <2> QED
    BY <2>1, <2>2, <1>1
<1>3. cur' = << >> /\ cur' \in Seq(Items)
  OBVIOUS
<1>4. TypeOK'
  BY <1>1, <1>2, <1>3, Kept DEF TypeOK
<1>5. TokensFit'
  BY <1>1, Kept DEF TokensFit, TokenEnd
<1>6. NewestHere'
  BY DEF NewestHere
<1> QED
  BY <1>4, <1>5, <1>6

(* A match is as long as the rest of the input at most. *)
LEMMA MatchFits ==
  ASSUME TypeOK, NEW n \in DOMAIN job.grammar.terminals
  PROVE  LET t == job.grammar.terminals[n]
         IN  MatchLen(t) \in Nat /\ pos + MatchLen(t) <= Size
<1>1. job \in Jobs /\ pos \in 0 .. Len(job.input) /\ Len(job.input) \in Nat
  BY GrammarFacts DEF TypeOK, Size
<1>2. Longest(job, job.grammar.terminals[n], pos) \in 0 .. Len(job.input) - pos
  BY <1>1, LongestAssumption
<1> QED
  BY <1>1, <1>2 DEF MatchLen, Size

LEMMA SkipIgnoredInv ==
  ASSUME IInv, SkipIgnored
  PROVE  IInv'
<1> USE DEF IInv
<1>1. PICK n \in DOMAIN job.grammar.terminals :
        pos' = pos + MatchLen(job.grammar.terminals[n])
  BY DEF SkipIgnored
<1>2. /\ pc = "lex" /\ pc' = "lex"
      /\ UNCHANGED << job, nullable, sets, cur, ix, upto, count, toks, result >>
  BY DEF SkipIgnored, Lexing
<1>3. pos' \in Nat /\ pos <= pos' /\ pos' <= Size
  BY <1>1, MatchFits, TokenTypes
<1>4. TypeOK'
  <2>1. pos' \in 0 .. Size
    BY <1>3, TokenTypes
  <2> QED
    BY <1>2, <2>1, Kept DEF TypeOK
<1>5. TokensFit'
  <2>1. \A m \in DOMAIN toks : TokenEnd(m) \in Nat /\ TokenEnd(m) <= pos
    BY <1>2, TokenTypes DEF TokensFit
  <2>2. \A m \in DOMAIN toks : TokenEnd(m) <= pos'
    BY <2>1, <1>3, TokenTypes
  <2> QED
    BY <1>2, <2>2, Kept DEF TokensFit, TokenEnd
<1>6. NewestHere'
  BY <1>2 DEF NewestHere
<1> QED
  BY <1>4, <1>5, <1>6

LEMMA LexTokenInv ==
  ASSUME IInv, LexToken
  PROVE  IInv'
<1> USE DEF IInv
<1>1. PICK n \in DOMAIN job.grammar.terminals :
        /\ IsBest(n)
        /\ toks' = Append(toks, [sym |-> job.grammar.terminals[n], off |-> pos,
                                 len |-> MatchLen(job.grammar.terminals[n])])
  BY DEF LexToken
<1> DEFINE t == job.grammar.terminals[n]
           new == [sym |-> t, off |-> pos, len |-> MatchLen(t)]
           R == [sym : Terminals, off : 0 .. Size, len : 1 .. Size]
<1>2. /\ pc = "lex" /\ pc' = "scan"
      /\ UNCHANGED << job, nullable, sets, cur, ix, upto, count, pos, result >>
  BY DEF LexToken, Lexing
<1>3. /\ MatchLen(t) \in 1 .. Size /\ pos + MatchLen(t) <= Size
      /\ pos \in 0 .. Size /\ Size \in Nat /\ t \in Terminals
  <2>1. MatchLen(t) \in Nat /\ pos + MatchLen(t) <= Size
    BY MatchFits
  <2>2. MatchLen(t) > 0
    BY <1>1 DEF IsBest, Candidate
  <2> QED
    BY <2>1, <2>2, TokenTypes DEF Terminals
<1>4. new \in R /\ new.off = pos /\ new.len = MatchLen(t)
  BY <1>3
<1>5. toks \in Seq(R)
  BY DEF TypeOK
<1> HIDE DEF R, new
<1>6. /\ toks' = Append(toks, new) /\ toks' \in Seq(R) /\ toks' # << >>
      /\ Len(toks') = Len(toks) + 1 /\ Len(toks) \in Nat
      /\ toks'[Len(toks) + 1] = new
      /\ \A m \in 1 .. Len(toks) : toks'[m] = toks[m]
  BY <1>1, <1>4, <1>5 DEF new
<1>7. TypeOK'
  <2>1. R' = R
    BY <1>2, Kept DEF R
  <2>2. (toks \in Seq([sym : Terminals, off : 0 .. Size, len : 1 .. Size]))'
    BY <1>6, <2>1 DEF R
  <2> QED
    BY <1>2, <2>2, Kept DEF TypeOK
<1> DEFINE EndOf(m) == toks'[m].off + toks'[m].len
<1>8. \A m \in 1 .. Len(toks) : TokenEnd(m) \in Nat /\ TokenEnd(m) <= pos /\ m <= TokenEnd(m)
  <2>1. DOMAIN toks = 1 .. Len(toks)
    BY <1>5
  <2>2. \A m \in DOMAIN toks : TokenEnd(m) \in Nat
    BY TokenTypes
  <2>3. \A m \in DOMAIN toks : TokenEnd(m) <= pos /\ m <= TokenEnd(m)
    BY <1>2 DEF TokensFit
  <2> QED
    BY <2>1, <2>2, <2>3
<1>9. \A m \in 1 .. Len(toks) : EndOf(m) = TokenEnd(m)
  BY <1>6 DEF TokenEnd
<1>10. EndOf(Len(toks) + 1) = pos + MatchLen(t)
  BY <1>4, <1>6
<1>11. Len(toks) <= pos
  <2>1. CASE Len(toks) = 0
    BY <2>1, <1>3
  <2>2. CASE Len(toks) # 0
    <3>1. Len(toks) \in 1 .. Len(toks)
      BY <2>2, <1>6
    <3>2. Len(toks) <= TokenEnd(Len(toks)) /\ TokenEnd(Len(toks)) \in Nat /\ TokenEnd(Len(toks)) <= pos
      BY <3>1, <1>8
    <3> QED
      BY <3>2, <1>3, <1>6
  <2> QED
    BY <2>1, <2>2
<1> HIDE DEF EndOf, t
<1>12. \A m \in 1 .. Len(toks) + 1 :
         /\ m <= EndOf(m)
         /\ EndOf(m) <= (IF m = Len(toks) + 1 THEN Size ELSE pos)
         /\ m > 1 => EndOf(m - 1) <= toks'[m].off
  <2> SUFFICES ASSUME NEW m \in 1 .. Len(toks) + 1
               PROVE  /\ m <= EndOf(m)
                      /\ EndOf(m) <= (IF m = Len(toks) + 1 THEN Size ELSE pos)
                      /\ m > 1 => EndOf(m - 1) <= toks'[m].off
    OBVIOUS
  <2>1. CASE m = Len(toks) + 1
    <3>1. m <= EndOf(m) /\ EndOf(m) <= Size
      BY <2>1, <1>3, <1>10, <1>11, <1>6
    <3>2. m > 1 => EndOf(m - 1) <= pos
      <4> SUFFICES ASSUME m > 1 PROVE EndOf(m - 1) <= pos
        OBVIOUS
      <4>1. m - 1 \in 1 .. Len(toks)
        BY <2>1, <1>6
      <4> QED
        BY <4>1, <1>8, <1>9
    <3>3. toks'[m].off = pos
      BY <2>1, <1>4, <1>6
    <3> QED
      BY <2>1, <3>1, <3>2, <3>3
  <2>2. CASE m # Len(toks) + 1
    <3>1. m \in 1 .. Len(toks) /\ m \in DOMAIN toks /\ (m > 1 => m - 1 \in 1 .. Len(toks))
      BY <2>2, <1>6, <1>5
    <3>2. m > 1 => TokenEnd(m - 1) <= toks[m].off
      BY <3>1 DEF TokensFit
    <3>3. m > 1 => EndOf(m - 1) = TokenEnd(m - 1)
      BY <3>1, <1>9
    <3>4. EndOf(m) = TokenEnd(m) /\ m <= EndOf(m) /\ EndOf(m) <= pos
      BY <3>1, <1>8, <1>9
    <3> QED
      BY <2>2, <3>1, <3>2, <3>3, <3>4, <1>6
  <2> QED
    BY <2>1, <2>2
<1>13. TokensFit'
  <2>1. Len(toks') <= Size
    BY <1>3, <1>6, <1>11
  <2>2. Len(sets) = Len(toks')
    BY <1>2, <1>6 DEF TokensFit
  <2>3. DOMAIN toks' = 1 .. Len(toks) + 1
    BY <1>6
  <2> QED
    BY <1>2, <1>6, <1>12, <2>1, <2>2, <2>3, Kept DEF TokensFit, TokenEnd, EndOf
<1>14. NewestHere'
  <2>1. Newest' = new
    BY <1>6 DEF Newest
  <2> QED
    BY <2>1, <1>2, <1>3, <1>4, <1>6, Kept DEF NewestHere
<1> QED
  BY <1>7, <1>13, <1>14

(* While a token is scanned the set before is there. *)
LEMMA LastSetFacts ==
  ASSUME IInv, pc \in {"lex", "scan"}
  PROVE  /\ Len(sets) \in 1 .. Len(sets) /\ Len(sets) \in Nat
         /\ LastSet \in Seq(Items)
         /\ \A j \in DOMAIN LastSet :
              LastSet[j] \in Items /\ LastSet[j].origin \in Nat /\ LastSet[j].origin < Len(sets)
<1>1. Len(sets) \in Nat /\ Len(sets) >= 1
  <2>1. toks \in Seq([sym : Terminals, off : 0 .. Size, len : 1 .. Size])
    BY DEF IInv, TypeOK
  <2>2. Len(toks) \in Nat /\ (toks # << >> => Len(toks) >= 1)
    <3> DEFINE R == [sym : Terminals, off : 0 .. Size, len : 1 .. Size]
    <3>1. toks \in Seq(R)
      BY <2>1
    <3> HIDE DEF R
    <3> QED
      BY <3>1
  <2> QED
    BY <2>2 DEF IInv, TypeOK, TokensFit, NewestHere
<1>2. LastSet \in Seq(Items)
  BY <1>1 DEF IInv, TypeOK, LastSet
<1>3. \A j \in DOMAIN LastSet : LastSet[j] \in Items /\ LastSet[j].origin < Len(sets)
  BY <1>1, <1>2 DEF IInv, TypeOK, LastSet
<1> QED
  BY <1>1, <1>2, <1>3 DEF Items

LEMMA ScanItemInv ==
  ASSUME IInv, ScanItem
  PROVE  IInv'
<1>1. PICK j \in DOMAIN LastSet : ScanMissing(j) /\ Push(Advance(LastSet[j])) /\ pc = "scan"
  BY DEF ScanItem
<1>2. /\ LastSet[j] \in Items /\ LastSet[j].origin \in Nat
      /\ LastSet[j].origin < Len(sets) /\ Len(sets) \in Nat
  BY <1>1, LastSetFacts
<1>3. ~ Complete(LastSet[j])
  BY <1>1 DEF ScanMissing, Wants
<1>4. Advance(LastSet[j]) \in Items /\ Advance(LastSet[j]).origin = LastSet[j].origin
  BY <1>2, <1>3, NextItemOf DEF IInv, TypeOK
<1>5. Advance(LastSet[j]).origin <= Len(sets)
  BY <1>2, <1>4
<1> QED
  BY <1>1, <1>4, <1>5, PushInv

LEMMA ScanDoneInv ==
  ASSUME IInv, ScanDone
  PROVE  IInv'
<1> USE DEF IInv
<1>1. /\ pc = "scan" /\ pc' = "close" /\ pos' = pos + Newest.len
      /\ ix' = 1 /\ upto' = Len(cur)
      /\ UNCHANGED << job, nullable, sets, cur, count, toks, result >>
  BY DEF ScanDone
<1>2. /\ Len(toks) \in Nat /\ Len(toks) \in DOMAIN toks
      /\ Newest.off = pos /\ pos' <= Size
  <2>1. toks # << >> /\ Newest.off = pos /\ pos' <= Size
    BY <1>1 DEF NewestHere
  <2> DEFINE R == [sym : Terminals, off : 0 .. Size, len : 1 .. Size]
  <2>2. toks \in Seq(R)
    BY DEF TypeOK
  <2> HIDE DEF R
  <2> QED
    BY <2>1, <2>2
<1>3. Newest.len \in Nat \ {0} /\ pos \in Nat /\ pos' \in 0 .. Size /\ pos < pos'
  BY <1>1, <1>2, TokenTypes DEF Newest
<1>4. TypeOK'
  <2>1. cur \in Seq(Items) /\ Len(cur) \in Nat
    BY DEF TypeOK
  <2> QED
    BY <1>1, <1>3, <2>1, Kept DEF TypeOK
<1>5. \A m \in DOMAIN toks : TokenEnd(m) <= pos'
  <2> SUFFICES ASSUME NEW m \in DOMAIN toks PROVE TokenEnd(m) <= pos'
    OBVIOUS
  <2>1. CASE m = Len(toks)
    BY <2>1, <1>1, <1>2, <1>3 DEF TokenEnd, Newest
  <2>2. CASE m # Len(toks)
    BY <2>2, <1>1, <1>3, TokenTypes DEF TokensFit
  <2> QED
    BY <2>1, <2>2
<1>6. TokensFit'
  BY <1>1, <1>5, Kept DEF TokensFit, TokenEnd
<1>7. NewestHere'
  BY <1>1 DEF NewestHere
<1> QED
  BY <1>4, <1>6, <1>7

LEMMA StopInv ==
  ASSUME IInv, CloseOverflow \/ LexError \/ Accept \/ RejectAtEnd \/ ScanOverflow
  PROVE  IInv'
<1>1. \E e \in {"accepted", "lex", "parse", "overflow"} : End(e)
  BY DEF CloseOverflow, LexError, Accept, RejectAtEnd, ScanOverflow
<1> QED
  BY <1>1, EndInv

LEMMA NextInv == IInv /\ [Next]_vars => IInv'
<1> SUFFICES ASSUME IInv, [Next]_vars PROVE IInv'
  OBVIOUS
<1>1. CASE UNCHANGED vars
  <2> USE <1>1 DEF vars, IInv
  <2>1. TypeOK'
    BY Kept DEF TypeOK
  <2>2. TokensFit' /\ NewestHere'
    BY Kept DEF TokensFit, TokenEnd, NewestHere, Newest
  <2> QED
    BY <2>1, <2>2
<1>2. CASE Step
  BY <1>2, NullableInv, StartInv, CloseInv, CloseDoneInv, SkipIgnoredInv, LexTokenInv,
     ScanItemInv, ScanDoneInv, StopInv DEF Step
<1> QED
  BY <1>1, <1>2 DEF Next, Terminated

LEMMA InvHolds == Spec => []IInv
BY InitInv, NextInv, PTL DEF Spec

(***************************************************************************)
(* For every grammar and input: items point into the productions and to    *)
(* sets that are there, and the chart never holds more than item_cap of    *)
(* them, for all the loops that push to it.                                *)
(***************************************************************************)
THEOREM TypeCorrect == Spec => []TypeOK
<1>1. IInv => TypeOK
  BY DEF IInv
<1> QED
  BY InvHolds, <1>1, PTL

(***************************************************************************)
(* For every grammar and input: tokens lie one after the other in the      *)
(* input, none is empty, so that there are no more of them than the array  *)
(* has places, and the chart has a set for each.                           *)
(***************************************************************************)
THEOREM TokensAlwaysFit == Spec => []TokensFit
<1>1. IInv => TokensFit
  BY DEF IInv
<1> QED
  BY InvHolds, <1>1, PTL

-----------------------------------------------------------------------------
(***************************************************************************)
(* Derivations.  A relation E between symbols and spans of the tokens is   *)
(* closed if it holds of every token, and of a production's nonterminal    *)
(* wherever it holds of the symbols of its body, end to end.  What is in   *)
(* every closed relation is what derives.                                  *)
(***************************************************************************)
Closed(E) ==
  /\ \A n \in DOMAIN toks : << toks[n].sym, n - 1, n >> \in E
  /\ \A p \in DOMAIN Prods :
       \A c \in [0 .. Len(Prods[p].rhs) -> Nat] :
         (\A k \in 1 .. Len(Prods[p].rhs) : << Prods[p].rhs[k], c[k - 1], c[k] >> \in E)
           => << Prods[p].lhs, c[0], c[Len(Prods[p].rhs)] >> \in E

Spans(s, a, b) == \A E : Closed(E) => << s, a, b >> \in E

AcceptsOnlyDerivable ==
  result = "accepted" => pos = Size /\ Spans(Start, 0, Len(toks))

(* What an item says: its symbols before the dot cover origin .. to. *)
ReadsBy(prods, E, it, to) ==
  \E c \in [0 .. it.dot -> Nat] :
    /\ c[0] = it.origin /\ c[it.dot] = to
    /\ \A k \in 1 .. it.dot : << prods[it.prod].rhs[k], c[k - 1], c[k] >> \in E

Reads(E, it, to) == ReadsBy(Prods, E, it, to)

SoundFor(E) ==
  /\ \A s \in nullable : \A i \in Nat : << s, i, i >> \in E
  /\ \A n \in DOMAIN sets : \A k \in DOMAIN sets[n] : Reads(E, sets[n][k], n - 1)
  /\ \A k \in DOMAIN cur : Reads(E, cur[k], Len(sets))

Sound == \A E : Closed(E) => SoundFor(E)

Verdict == result = "accepted" => pc = "done" /\ pos = Size /\ Spans(Start, 0, Len(toks))

(* One more symbol. *)
LEMMA ReadsOn ==
  ASSUME NEW E, job \in Jobs, NEW it \in Items, ~ Complete(it), NEW m \in Nat, NEW n \in Nat,
         Reads(E, it, m), << Rhs(it)[it.dot + 1], m, n >> \in E
  PROVE  Reads(E, Advance(it), n)
<1>1. PICK c \in [0 .. it.dot -> Nat] :
        /\ c[0] = it.origin /\ c[it.dot] = m
        /\ \A k \in 1 .. it.dot : << Rhs(it)[k], c[k - 1], c[k] >> \in E
  BY DEF Reads, ReadsBy, Rhs
<1>2. it.dot \in Nat
  BY DEF Items
<1> DEFINE d == [k \in 0 .. it.dot + 1 |-> IF k = it.dot + 1 THEN n ELSE c[k]]
<1>3. d \in [0 .. it.dot + 1 -> Nat]
  BY <1>1, <1>2
<1>4. d[0] = it.origin /\ d[it.dot + 1] = n
  BY <1>1, <1>2
<1>5. \A k \in 1 .. it.dot + 1 : << Rhs(it)[k], d[k - 1], d[k] >> \in E
  <2> SUFFICES ASSUME NEW k \in 1 .. it.dot + 1
               PROVE  << Rhs(it)[k], d[k - 1], d[k] >> \in E
    OBVIOUS
  <2>1. CASE k = it.dot + 1
    <3>1. d[k - 1] = m /\ d[k] = n
      BY <2>1, <1>1, <1>2
    <3> QED
      BY <2>1, <3>1
  <2>2. CASE k # it.dot + 1
    <3>1. k \in 1 .. it.dot /\ d[k - 1] = c[k - 1] /\ d[k] = c[k]
      BY <2>2, <1>2
    <3> QED
      BY <3>1, <1>1
  <2> QED
    BY <2>1, <2>2
<1> HIDE DEF d
<1>6. Rhs(Advance(it)) = Rhs(it) /\ Advance(it).dot = it.dot + 1 /\ Advance(it).origin = it.origin
  BY NextItemOf DEF Rhs
<1> QED
  BY <1>3, <1>4, <1>5, <1>6 DEF Reads, ReadsBy, Rhs

(* A complete item covers its span with its nonterminal. *)
LEMMA CompleteReads ==
  ASSUME NEW E, Closed(E), job \in Jobs, NEW it \in Items, Complete(it), NEW to \in Nat,
         Reads(E, it, to)
  PROVE  << Lhs(it), it.origin, to >> \in E
BY GrammarFacts DEF Closed, Reads, ReadsBy, Items, Complete, Lhs, Rhs

LEMMA PushSound ==
  ASSUME NEW E, IInv, SoundFor(E), NEW it \in Items, Reads(E, it, Len(sets)), Push(it)
  PROVE  SoundFor(E)'
<1>1. UNCHANGED << job, nullable, sets >> /\ cur' = Append(cur, it)
  BY DEF Push
<1>2. /\ Len(cur') = Len(cur) + 1 /\ Len(cur) \in Nat
      /\ DOMAIN cur' = 1 .. Len(cur) + 1
      /\ cur'[Len(cur) + 1] = it
      /\ \A k \in 1 .. Len(cur) : cur'[k] = cur[k] /\ k \in DOMAIN cur
  BY <1>1 DEF IInv, TypeOK
<1>3. \A s \in nullable' : \A i \in Nat : << s, i, i >> \in E
  BY <1>1 DEF SoundFor
<1>4. (\A n \in DOMAIN sets : \A k \in DOMAIN sets[n] : Reads(E, sets[n][k], n - 1))'
  BY <1>1 DEF SoundFor, Reads, Prods
<1>5. \A k \in DOMAIN cur' : Reads(E, cur'[k], Len(sets))
  BY <1>2 DEF SoundFor
<1>6. (\A k \in DOMAIN cur : Reads(E, cur[k], Len(sets)))'
  BY <1>1, <1>5 DEF Reads, Prods
<1> QED
  BY <1>3, <1>4, <1>6 DEF SoundFor

LEMMA SameSound ==
  ASSUME NEW E, SoundFor(E), UNCHANGED << job, nullable, sets, cur >>
  PROVE  SoundFor(E)'
BY DEF SoundFor, Reads, Prods

LEMMA FirstReads ==
  ASSUME NEW E, NEW p, NEW n \in Nat
  PROVE  Reads(E, Item(p, 0, n), n)
<1> DEFINE c == [k \in 0 .. 0 |-> n]
<1>1. c \in [0 .. 0 -> Nat] /\ c[0] = n
  OBVIOUS
<1> HIDE DEF c
<1> QED
  BY <1>1 DEF Reads, ReadsBy, Item

LEMMA MarkSound ==
  ASSUME IInv, NEW E, Closed(E), SoundFor(E), MarkNullable
  PROVE  SoundFor(E)'
<1>1. PICK p \in DOMAIN Prods : Ready(p) /\ nullable' = nullable \cup {Prods[p].lhs}
  BY DEF MarkNullable
<1>2. UNCHANGED << job, sets, cur >>
  BY DEF MarkNullable
<1>3. Len(Prods[p].rhs) \in Nat /\ DOMAIN Prods[p].rhs = 1 .. Len(Prods[p].rhs)
  BY GrammarFacts DEF IInv, TypeOK, Prods
<1>4. \A i \in Nat : << Prods[p].lhs, i, i >> \in E
  <2> SUFFICES ASSUME NEW i \in Nat PROVE << Prods[p].lhs, i, i >> \in E
    OBVIOUS
  <2> DEFINE len == Len(Prods[p].rhs)
             c == [k \in 0 .. len |-> i]
  <2>1. c \in [0 .. len -> Nat] /\ \A k \in 0 .. len : c[k] = i
    OBVIOUS
  <2>2. \A k \in 1 .. len : << Prods[p].rhs[k], c[k - 1], c[k] >> \in E
    <3> SUFFICES ASSUME NEW k \in 1 .. len
                 PROVE  << Prods[p].rhs[k], c[k - 1], c[k] >> \in E
      OBVIOUS
    <3>1. Prods[p].rhs[k] \in nullable
      BY <1>1, <1>3 DEF Ready
    <3>2. c[k - 1] = i /\ c[k] = i
      BY <1>3
    <3> QED
      BY <3>1, <3>2 DEF SoundFor
  <2> HIDE DEF c
  <2>3. << Prods[p].lhs, c[0], c[len] >> \in E
    BY <2>1, <2>2 DEF Closed
  <2>4. c[0] = i /\ c[len] = i
    BY <2>1, <1>3
  <2> QED
    BY <2>3, <2>4
<1>5. \A s \in nullable' : \A i \in Nat : << s, i, i >> \in E
  BY <1>1, <1>4 DEF SoundFor
<1> QED
  BY <1>2, <1>5 DEF SoundFor, Reads, Prods

LEMMA CloseSound ==
  ASSUME IInv, NEW E, Closed(E), SoundFor(E), SkipNullable \/ CompleteItem
  PROVE  SoundFor(E)'
<1>1. Closing /\ ix \in DOMAIN cur /\ Len(sets) \in Nat /\ job \in Jobs
  BY DEF SkipNullable, CompleteItem, Closing, IInv, TypeOK
<1>2. Reads(E, Here, Len(sets)) /\ Here \in Items /\ Here.origin \in 0 .. Len(sets)
  BY <1>1, HereFacts DEF SoundFor, Here
<1>3. CASE SkipNullable
  <2>1. ~ Complete(Here) /\ Rhs(Here)[Here.dot + 1] \in nullable /\ Push(Advance(Here))
    BY <1>3 DEF SkipNullable, SkipMissing
  <2>2. << Rhs(Here)[Here.dot + 1], Len(sets), Len(sets) >> \in E
    BY <1>1, <2>1 DEF SoundFor
  <2>3. Reads(E, Advance(Here), Len(sets))
    BY <1>1, <1>2, <2>1, <2>2, ReadsOn
  <2>4. Advance(Here) \in Items
    BY <1>1, <1>2, <2>1, NextItemOf
  <2> QED
    BY <2>1, <2>3, <2>4, PushSound
<1>4. CASE CompleteItem
  <2>1. PICK j \in 1 .. ParentEnd : CompleteMissing(j) /\ Push(Advance(OriginSet[j]))
    BY <1>4 DEF CompleteItem
  <2>2. j \in DOMAIN OriginSet /\ OriginSet[j] \in Items
    BY <1>1, <2>1, HereFacts
  <2>3. Complete(Here) /\ ~ Complete(OriginSet[j])
        /\ Rhs(OriginSet[j])[OriginSet[j].dot + 1] = Lhs(Here)
    BY <2>1 DEF CompleteMissing, Wants
  <2>4. << Lhs(Here), Here.origin, Len(sets) >> \in E
    BY <1>1, <1>2, <2>3, CompleteReads
  <2>5. Reads(E, OriginSet[j], Here.origin)
    <3>1. CASE Here.origin = Len(sets)
      <4>1. OriginSet = cur
        BY <3>1 DEF OriginSet
      <4> QED
        BY <3>1, <4>1, <2>2 DEF SoundFor
    <3>2. CASE Here.origin # Len(sets)
      <4>1. OriginSet = sets[Here.origin + 1] /\ Here.origin + 1 \in DOMAIN sets
        BY <3>2, <1>1, <1>2 DEF OriginSet, IInv, TypeOK
      <4>2. Reads(E, OriginSet[j], (Here.origin + 1) - 1)
        BY <4>1, <2>2 DEF SoundFor
      <4>3. (Here.origin + 1) - 1 = Here.origin
        BY <1>2
      <4> QED
        BY <4>2, <4>3
    <3> QED
      BY <3>1, <3>2
  <2>6. Reads(E, Advance(OriginSet[j]), Len(sets))
    <3>1. Here.origin \in Nat
      BY <1>2
    <3> QED
      BY <1>1, <2>2, <2>3, <2>4, <2>5, <3>1, ReadsOn
  <2>7. Advance(OriginSet[j]) \in Items
    BY <1>1, <2>2, <2>3, NextItemOf
  <2> QED
    BY <2>1, <2>6, <2>7, PushSound
<1> QED
  BY <1>3, <1>4

LEMMA CloseDoneSound ==
  ASSUME IInv, NEW E, SoundFor(E), CloseDone
  PROVE  SoundFor(E)'
<1>1. UNCHANGED << job, nullable >> /\ sets' = Append(sets, cur) /\ cur' = << >>
  BY DEF CloseDone
<1>2. /\ Len(sets) \in Nat /\ DOMAIN sets' = 1 .. Len(sets) + 1
      /\ sets'[Len(sets) + 1] = cur
      /\ \A n \in 1 .. Len(sets) : sets'[n] = sets[n] /\ n \in DOMAIN sets
  BY <1>1 DEF IInv, TypeOK
<1>3. \A n \in DOMAIN sets' : \A k \in DOMAIN sets'[n] : Reads(E, sets'[n][k], n - 1)
  <2> SUFFICES ASSUME NEW n \in 1 .. Len(sets) + 1, NEW k \in DOMAIN sets'[n]
               PROVE  Reads(E, sets'[n][k], n - 1)
    BY <1>2
  <2>1. CASE n = Len(sets) + 1
    <3>1. n - 1 = Len(sets)
      BY <2>1, <1>2
    <3> QED
      BY <2>1, <3>1, <1>2 DEF SoundFor
  <2>2. CASE n # Len(sets) + 1
    <3>1. n \in 1 .. Len(sets)
      BY <2>2, <1>2
    <3> QED
      BY <3>1, <1>2 DEF SoundFor
  <2> QED
    BY <2>1, <2>2
<1>4. (\A n \in DOMAIN sets : \A k \in DOMAIN sets[n] : Reads(E, sets[n][k], n - 1))'
  BY <1>1, <1>3 DEF Reads, Prods
<1>5. \A s \in nullable' : \A i \in Nat : << s, i, i >> \in E
  BY <1>1 DEF SoundFor
<1>6. (\A k \in DOMAIN cur : Reads(E, cur[k], Len(sets)))'
  BY <1>1
<1> QED
  BY <1>4, <1>5, <1>6 DEF SoundFor

LEMMA ScanSound ==
  ASSUME IInv, NEW E, Closed(E), SoundFor(E), ScanItem
  PROVE  SoundFor(E)'
<1>1. PICK j \in DOMAIN LastSet : ScanMissing(j) /\ Push(Advance(LastSet[j])) /\ pc = "scan"
  BY DEF ScanItem
<1>2. /\ Len(sets) \in DOMAIN sets /\ Len(sets) \in Nat \ {0} /\ job \in Jobs
      /\ LastSet[j] \in Items /\ Len(sets) = Len(toks)
  BY <1>1, LastSetFacts DEF IInv, TypeOK, TokensFit
<1>3. ~ Complete(LastSet[j]) /\ Rhs(LastSet[j])[LastSet[j].dot + 1] = Scanned
  BY <1>1 DEF ScanMissing, Wants
<1>4. Reads(E, LastSet[j], Len(sets) - 1)
  BY <1>1, <1>2 DEF SoundFor, LastSet
<1>5. << Scanned, Len(sets) - 1, Len(sets) >> \in E
  <2>1. Len(toks) \in DOMAIN toks
    BY <1>2 DEF IInv, TypeOK
  <2> QED
    BY <2>1, <1>2 DEF Closed, Scanned, Newest
<1>6. Reads(E, Advance(LastSet[j]), Len(sets))
  <2>1. Len(sets) - 1 \in Nat
    BY <1>2
  <2> QED
    BY <1>2, <1>3, <1>4, <1>5, <2>1, ReadsOn
<1>7. Advance(LastSet[j]) \in Items
  BY <1>2, <1>3, NextItemOf
<1> QED
  BY <1>1, <1>6, <1>7, PushSound

LEMMA PredictSound ==
  ASSUME IInv, NEW E, SoundFor(E), PushStart \/ Predict
  PROVE  SoundFor(E)'
<1>1. Len(sets) \in Nat /\ job \in Jobs /\ (pc = "start" => Len(sets) = 0)
  BY DEF IInv, TypeOK
<1>2. PICK p \in DOMAIN Prods : Push(Item(p, 0, Len(sets)))
  BY <1>1 DEF PushStart, Predict
<1>3. Item(p, 0, Len(sets)) \in Items /\ Reads(E, Item(p, 0, Len(sets)), Len(sets))
  BY <1>1, FirstItem, FirstReads
<1> QED
  BY <1>2, <1>3, PushSound

(* A relation that is closed with one more token is closed without it. *)
LEMMA ClosedBefore ==
  ASSUME IInv, NEW E, [Next]_vars, Closed(E)'
  PROVE  Closed(E)
<1>1. UNCHANGED job
  BY DEF Next, Step, vars, Terminated, MarkNullable, NullableDone, PushStart, StartDone, Predict,
         SkipNullable, CompleteItem, NextItem, CloseOverflow, CloseDone, SkipIgnored, LexToken,
         LexError, Accept, RejectAtEnd, ScanItem, ScanOverflow, ScanDone, Push, End
<1>2. CASE LexToken
  <2> DEFINE R == [sym : Terminals, off : 0 .. Size, len : 1 .. Size]
  <2>1. PICK x : toks' = Append(toks, x)
    BY <1>2 DEF LexToken
  <2>2. toks \in Seq(R)
    BY DEF IInv, TypeOK
  <2> HIDE DEF R
  <2>3. \A n \in DOMAIN toks : n \in DOMAIN toks' /\ toks'[n] = toks[n]
    BY <2>1, <2>2
  <2> QED
    BY <1>1, <2>3 DEF Closed, Prods
<1>3. CASE ~ LexToken
  <2>1. UNCHANGED toks
    BY <1>3 DEF Next, Step, vars, Terminated, MarkNullable, NullableDone, PushStart, StartDone,
         Predict, SkipNullable, CompleteItem, NextItem, CloseOverflow, CloseDone, SkipIgnored,
         LexError, Accept, RejectAtEnd, ScanItem, ScanOverflow, ScanDone, Push, End
  <2> QED
    BY <1>1, <2>1 DEF Closed, Prods
<1> QED
  BY <1>2, <1>3

LEMMA SoundStep == IInv /\ Sound /\ [Next]_vars => Sound'
<1> SUFFICES ASSUME IInv, Sound, [Next]_vars, NEW E, Closed(E)' PROVE SoundFor(E)'
  BY DEF Sound
<1>1. Closed(E) /\ SoundFor(E)
  BY ClosedBefore DEF Sound
<1>2. CASE PushStart \/ Predict
  BY <1>1, <1>2, PredictSound
<1>3. CASE SkipNullable \/ CompleteItem
  BY <1>1, <1>3, CloseSound
<1>4. CASE MarkNullable
  BY <1>1, <1>4, MarkSound
<1>5. CASE CloseDone
  BY <1>1, <1>5, CloseDoneSound
<1>6. CASE ScanItem
  BY <1>1, <1>6, ScanSound
<1>7. CASE \/ NullableDone \/ StartDone \/ NextItem \/ SkipIgnored \/ LexToken \/ ScanDone
           \/ CloseOverflow \/ LexError \/ Accept \/ RejectAtEnd \/ ScanOverflow
           \/ UNCHANGED vars
  <2>1. UNCHANGED << job, nullable, sets, cur >>
    BY <1>7 DEF NullableDone, StartDone, NextItem, SkipIgnored, LexToken, ScanDone, CloseOverflow,
                LexError, Accept, RejectAtEnd, ScanOverflow, End, vars
  <2> QED
    BY <1>1, <2>1, SameSound
<1> QED
  BY <1>2, <1>3, <1>4, <1>5, <1>6, <1>7 DEF Next, Step, Terminated

LEMMA AcceptSound ==
  ASSUME IInv, Sound, Accept
  PROVE  Verdict'
<1>1. PICK n \in DOMAIN LastSet : Derives(LastSet[n])
  BY DEF Accept
<1>2. /\ pc = "lex" /\ pos = Size /\ pc' = "done"
      /\ UNCHANGED << job, nullable, sets, cur, ix, upto, count, pos, toks >>
  BY DEF Accept, End
<1>3. /\ Len(sets) \in DOMAIN sets /\ LastSet[n] \in Items /\ job \in Jobs
      /\ Len(sets) - 1 = Len(toks) /\ Len(toks) \in Nat
  <2>1. Len(sets) \in DOMAIN sets /\ Len(sets) \in Nat \ {0} /\ LastSet[n] \in Items
    BY <1>1, <1>2, LastSetFacts DEF IInv, TypeOK
  <2>2. Len(sets) = Len(toks) + 1
    BY <1>2 DEF IInv, TokensFit
  <2> DEFINE R == [sym : Terminals, off : 0 .. Size, len : 1 .. Size]
  <2>3. toks \in Seq(R)
    BY DEF IInv, TypeOK
  <2> HIDE DEF R
  <2>4. Len(toks) \in Nat
    BY <2>3
  <2> QED
    BY <2>1, <2>2, <2>4 DEF IInv, TypeOK
<1>4. ASSUME NEW E, Closed(E) PROVE << Start, 0, Len(toks) >> \in E
  <2>1. Reads(E, LastSet[n], Len(toks))
    BY <1>1, <1>3, <1>4 DEF Sound, SoundFor, LastSet
  <2> QED
    BY <1>1, <1>3, <1>4, <2>1, CompleteReads DEF Derives
<1>5. (Spans(Start, 0, Len(toks)))'
  BY <1>2, <1>4 DEF Spans, Closed, Start, Prods
<1> QED
  BY <1>2, <1>5 DEF Verdict, Size

LEMMA VerdictStep == IInv /\ Sound /\ Verdict /\ [Next]_vars => Verdict'
<1> SUFFICES ASSUME IInv, Sound, Verdict, [Next]_vars PROVE Verdict'
  OBVIOUS
<1>1. CASE Accept
  BY <1>1, AcceptSound
<1>2. CASE UNCHANGED vars
  BY <1>2 DEF vars, Verdict, Spans, Closed, Start, Prods, Size
<1>3. CASE Step /\ ~ Accept
  <2>1. result' # "accepted"
    <3>1. pc # "done" /\ result # "accepted"
      BY <1>3 DEF Verdict, Step, MarkNullable, NullableDone, PushStart, StartDone, Predict,
             SkipNullable, CompleteItem, NextItem, CloseOverflow, CloseDone, SkipIgnored, LexToken,
             LexError, RejectAtEnd, ScanItem, ScanOverflow, ScanDone, Closing, Lexing
    <3> QED
      BY <1>3, <3>1 DEF Step, MarkNullable, NullableDone, PushStart, StartDone, Predict,
             SkipNullable, CompleteItem, NextItem, CloseOverflow, CloseDone, SkipIgnored, LexToken,
             LexError, RejectAtEnd, ScanItem, ScanOverflow, ScanDone, Push, End
  <2> QED
    BY <2>1 DEF Verdict
<1> QED
  BY <1>1, <1>2, <1>3 DEF Next, Terminated

(***************************************************************************)
(* Soundness of the parser, for every grammar and input: when it accepts,  *)
(* all of the input is read and the tokens derive from the start symbol.   *)
(***************************************************************************)
THEOREM ParserSound == Spec => []AcceptsOnlyDerivable
<1>1. Init => Sound /\ Verdict
  BY DEF Init, Sound, SoundFor, Verdict
<1>2. IInv /\ Sound /\ Verdict /\ [Next]_vars => Sound' /\ Verdict'
  BY SoundStep, VerdictStep
<1>3. Verdict => AcceptsOnlyDerivable
  BY DEF Verdict, AcceptsOnlyDerivable
<1> QED
  BY InvHolds, <1>1, <1>2, <1>3, PTL DEF Spec

-----------------------------------------------------------------------------
(* The least solution of the productions (Derivations). *)

(* What EndsAfter says of itself. *)
EndsAre(ends, E, rhs, a, n) ==
  /\ ends \in [Nat -> SUBSET (0 .. n)]
  /\ ends[0] = {a}
  /\ \A k \in Nat \ {0} :
       ends[k] = {b \in 0 .. n : \E m \in ends[k - 1] : << rhs[k], m, b >> \in E}

LEMMA EndsAfterDef ==
  ASSUME NEW E, NEW rhs, NEW n \in Nat, NEW a \in 0 .. n
  PROVE  EndsAre(EndsAfter(E, rhs, a, n), E, rhs, a, n)
<1> DEFINE X == SUBSET (0 .. n)
           F == [q \in Nat \X X |-> {b \in 0 .. n : \E m \in q[2] : << rhs[q[1]], m, b >> \in E}]
           Body(f) == [k \in Nat |-> IF k = 0 THEN {a} 
                         ELSE LET before == f[k - 1]
                              IN  {b \in 0 .. n : \E m \in before : << rhs[k], m, b >> \in E}]
<1>1. F \in [Nat \X X -> X] /\ {a} \in X
  OBVIOUS
<1> HIDE DEF F, X
<1>2. PICK f : Iterates(f, X, {a}, F)
  BY <1>1, RecursionExists
<1>3. ASSUME NEW k \in Nat, k # 0 
      PROVE F[<< k, f[k - 1] >>] = {b \in 0 .. n : \E m \in f[k - 1] : << rhs[k], m, b >> \in E}
  <2>1. << k, f[k - 1] >> \in Nat \X X /\ k - 1 \in Nat
    BY <1>2, <1>3 DEF Iterates
  <2> QED
    BY <2>1 DEF F
<1>4. f = Body(f)
  BY <1>2, <1>3 DEF Iterates
<1> DEFINE ends == EndsAfter(E, rhs, a, n)
<1>5. ends = CHOOSE g : g = Body(g)
  BY DEF EndsAfter
<1>6. ends = Body(ends)
  <2> HIDE DEF Body, ends
  <2> QED
    BY <1>4, <1>5
<1>7. ends[0] = {a} /\ \A k \in Nat \ {0} : ends[k] = {b \in 0 .. n : \E m \in ends[k - 1] : << rhs[k], m, b >> \in E}
  <2> HIDE DEF ends
  <2> QED
  BY <1>6
<1>8. ends \in [Nat -> X]
  <2> HIDE DEF ends
  <2>1. \A k \in Nat : Body(ends)[k] \in X
    BY DEF X
  <2> QED
    BY <1>6, <2>1
<1> QED
  BY <1>7, <1>8 DEF X, EndsAre

(* A way to cut the span from a: where each symbol of rhs ends. *)
Cut(E, rhs, k, c, a, b) ==
  /\ c[0] = a /\ c[k] = b
  /\ \A i \in 1 .. k : << rhs[i], c[i - 1], c[i] >> \in E

LEMMA CutsEnd ==
  ASSUME NEW E, NEW rhs, NEW n \in Nat, NEW a \in 0 .. n, NEW b \in 0 .. n, NEW len \in Nat,
         NEW c \in [0 .. len -> 0 .. n], Cut(E, rhs, len, c, a, b)
  PROVE  b \in EndsAfter(E, rhs, a, n)[len]
<1> DEFINE ends == EndsAfter(E, rhs, a, n)
           G == {k \in 0 .. len : c[k] \in ends[k]}
<1>0. EndsAre(ends, E, rhs, a, n)
  BY EndsAfterDef
<1> HIDE DEF ends
<1>1. ends[0] = {a} /\ \A k \in Nat \ {0} : ends[k] = {x \in 0 .. n : \E m \in ends[k - 1] : << rhs[k], m, x >> \in E}
  BY <1>0 DEF EndsAre
<1>2. 0 \in G
  BY <1>1 DEF Cut
<1>3. ASSUME NEW k \in 0 .. len - 1, k \in G PROVE k + 1 \in G
  <2>1. k + 1 \in 1 .. len /\ (k + 1) - 1 = k /\ k + 1 \in Nat \ {0} /\ k + 1 \in 0 .. len
    OBVIOUS
  <2>2. << rhs[k + 1], c[k], c[k + 1] >> \in E /\ c[k + 1] \in 0 .. n
    BY <2>1 DEF Cut
  <2> QED
    BY <1>1, <1>3, <2>1, <2>2
<1> HIDE DEF G
<1>4. 0 .. len \subseteq G
  BY <1>2, <1>3, AllUpTo
<1>5. len \in 0 .. len
  OBVIOUS
<1> QED
  BY <1>4, <1>5 DEF G, ends, Cut

LEMMA EndsCut ==
  ASSUME NEW E, NEW rhs, NEW n \in Nat, NEW a \in 0 .. n, NEW len \in Nat,
         NEW b \in EndsAfter(E, rhs, a, n)[len]
  PROVE  b \in 0 .. n /\ \E c \in [0 .. len -> 0 .. n] : Cut(E, rhs, len, c, a, b)
<1> DEFINE ends == EndsAfter(E, rhs, a, n)
           Cuttable(k) == \A x \in ends[k] : \E c \in [0 .. k -> 0 .. n] : Cut(E, rhs, k, c, a, x)
           G == {k \in Nat : Cuttable(k)}
<1>0. EndsAre(ends, E, rhs, a, n)
  BY EndsAfterDef
<1> HIDE DEF ends
<1>1. /\ ends \in [Nat -> SUBSET (0 .. n)]
      /\ ends[0] = {a}
      /\ \A k \in Nat \ {0} : ends[k] = {x \in 0 .. n : \E m \in ends[k - 1] : << rhs[k], m, x >> \in E}
  BY <1>0 DEF EndsAre
<1>2. Cuttable(0)
  <2>1. [i \in 0 .. 0 |-> a] \in [0 .. 0 -> 0 .. n] /\ Cut(E, rhs, 0, [i \in 0 .. 0 |-> a], a, a)
    BY DEF Cut
  <2> QED
    BY <2>1, <1>1
<1>3. ASSUME NEW k \in Nat, Cuttable(k) PROVE Cuttable(k + 1)
  <2> SUFFICES ASSUME NEW x \in ends[k + 1]
               PROVE  \E c \in [0 .. k + 1 -> 0 .. n] : Cut(E, rhs, k + 1, c, a, x)
    OBVIOUS
  <2>1. k + 1 \in Nat \ {0} /\ (k + 1) - 1 = k
    OBVIOUS
  <2>2. PICK m \in ends[k] : << rhs[k + 1], m, x >> \in E /\ x \in 0 .. n
    BY <1>1, <2>1
  <2>3. PICK c \in [0 .. k -> 0 .. n] : Cut(E, rhs, k, c, a, m)
    BY <1>3
  <2> DEFINE d == [i \in 0 .. k + 1 |-> IF i = k + 1 THEN x ELSE c[i]]
  <2>4. d \in [0 .. k + 1 -> 0 .. n]
    BY <2>2, <2>3
  <2>5. d[0] = a /\ d[k + 1] = x
    BY <2>3 DEF Cut
  <2>6. ASSUME NEW i \in 1 .. k + 1 PROVE << rhs[i], d[i - 1], d[i] >> \in E
    <3>1. CASE i = k + 1
      <4>1. d[i - 1] = m /\ d[i] = x
        BY <3>1, <2>3 DEF Cut
      <4> QED
        BY <3>1, <4>1, <2>2
    <3>2. CASE i # k + 1
      <4>1. i \in 1 .. k /\ d[i - 1] = c[i - 1] /\ d[i] = c[i]
        BY <3>2
      <4> QED
        BY <4>1, <2>3 DEF Cut
    <3> QED
      BY <3>1, <3>2
  <2> HIDE DEF d
  <2>7. Cut(E, rhs, k + 1, d, a, x)
    BY <2>5, <2>6 DEF Cut
  <2> QED
    BY <2>4, <2>7
<1> HIDE DEF Cuttable
<1>4. G \in SUBSET Nat /\ 0 \in G
  BY <1>2
<1>7. ASSUME NEW k \in Nat, k \in G PROVE k + 1 \in G
  <2>1. Cuttable(k)
    BY <1>7
  <2>2. Cuttable(k + 1)
    BY <2>1, <1>3
  <2>3. k + 1 \in Nat
    OBVIOUS
  <2> QED
    BY <2>2, <2>3
<1> HIDE DEF G
<1>5. G = Nat
  BY <1>4, <1>7, AllNumbers
<1>6. Cuttable(len)
  BY <1>5 DEF G
<1> QED
  BY <1>1, <1>6 DEF Cuttable, ends

(* A grammar's productions and a word, as the parser has them. *)
Words(prods, w) ==
  /\ Len(prods) \in Nat /\ DOMAIN prods = 1 .. Len(prods)
  /\ Len(w) \in Nat /\ DOMAIN w = 1 .. Len(w)
  /\ \A p \in DOMAIN prods : Len(prods[p].rhs) \in Nat

(* What a round adds: a token, or a production that is cut into spans. *)
LEMMA GrowHas ==
  ASSUME NEW prods, NEW w, Words(prods, w), NEW E, NEW t
  PROVE  t \in Grow(prods, w, E) <=>
           \/ \E m \in DOMAIN w : t = << w[m], m - 1, m >>
           \/ \E p \in DOMAIN prods : \E a, b \in 0 .. Len(w) :
                \E c \in [0 .. Len(prods[p].rhs) -> 0 .. Len(w)] :
                  /\ Cut(E, prods[p].rhs, Len(prods[p].rhs), c, a, b)
                  /\ t = << prods[p].lhs, a, b >>
<1> DEFINE n == Len(w)
<1>1. ASSUME NEW p \in DOMAIN prods
      PROVE  t \in SpansOfProd(prods[p], E, n) <=>
               \E a \in 0 .. n : \E b \in EndsAfter(E, prods[p].rhs, a, n)[Len(prods[p].rhs)] :
                 t = << prods[p].lhs, a, b >>
  BY DEF SpansOfProd
<1>2. ASSUME NEW p \in DOMAIN prods, NEW a \in 0 .. n, NEW b
      PROVE  b \in EndsAfter(E, prods[p].rhs, a, n)[Len(prods[p].rhs)] <=>
               b \in 0 .. n /\ \E c \in [0 .. Len(prods[p].rhs) -> 0 .. n] :
                  Cut(E, prods[p].rhs, Len(prods[p].rhs), c, a, b)
  <2>1. n \in Nat /\ Len(prods[p].rhs) \in Nat
    BY DEF Words
  <2> HIDE DEF n
  <2> QED
    BY <2>1, CutsEnd, EndsCut
<1>3. t \in Grow(prods, w, E) <=>
        \/ \E m \in DOMAIN w : t = << w[m], m - 1, m >>
        \/ \E p \in DOMAIN prods : t \in SpansOfProd(prods[p], E, n)
  BY DEF Grow
<1> HIDE DEF n
<1>4. ASSUME NEW p \in DOMAIN prods
      PROVE  t \in SpansOfProd(prods[p], E, n) <=>
               \E a, b \in 0 .. n :
                \E c \in [0 .. Len(prods[p].rhs) -> 0 .. n] :
                  /\ Cut(E, prods[p].rhs, Len(prods[p].rhs), c, a, b)
                  /\ t = << prods[p].lhs, a, b >>
  BY <1>1, <1>2
<1> QED
  BY <1>3, <1>4 DEF n

LEMMA GrowMonotonic ==
  ASSUME NEW prods, NEW w, Words(prods, w), NEW D, NEW E, D \subseteq E
  PROVE  Grow(prods, w, D) \subseteq Grow(prods, w, E)
<1>1. ASSUME NEW rhs, NEW k, NEW c, NEW a, NEW b, Cut(D, rhs, k, c, a, b)
      PROVE  Cut(E, rhs, k, c, a, b)
  BY <1>1 DEF Cut
<1> QED
  BY <1>1, GrowHas

LEMMA GrowInside ==
  ASSUME NEW prods, NEW w, Words(prods, w), NEW E
  PROVE  Grow(prods, w, E) \subseteq AllSpans(prods, w)
<1>1. ASSUME NEW m \in DOMAIN w PROVE << w[m], m - 1, m >> \in AllSpans(prods, w)
  <2>1. m - 1 \in 0 .. Len(w) /\ m \in 0 .. Len(w)
    BY DEF Words
  <2> QED
    BY <2>1 DEF AllSpans
<1>2. ASSUME NEW p \in DOMAIN prods, NEW a \in 0 .. Len(w), NEW b \in 0 .. Len(w)
      PROVE  << prods[p].lhs, a, b >> \in AllSpans(prods, w)
  BY DEF AllSpans
<1> QED
  BY <1>1, <1>2, GrowHas

LEMMA AllSpansFinite ==
  ASSUME NEW prods, NEW w, Words(prods, w)
  PROVE  IsFiniteSet(AllSpans(prods, w))
<1> DEFINE L == {prods[p].lhs : p \in DOMAIN prods}
           W == {w[m] : m \in DOMAIN w}
<1>1. IsFiniteSet(L)
  <2> DEFINE f == [p \in DOMAIN prods |-> prods[p].lhs]
  <2>1. IsFiniteSet(DOMAIN prods)
    BY FS_Interval DEF Words
  <2>2. f \in Surjection(DOMAIN prods, L)
    BY DEF Surjection
  <2> QED
    BY <2>1, <2>2, FS_Surjection
<1>2. IsFiniteSet(W)
  <2> DEFINE f == [m \in DOMAIN w |-> w[m]]
  <2>1. IsFiniteSet(DOMAIN w)
    BY FS_Interval DEF Words
  <2>2. f \in Surjection(DOMAIN w, W)
    BY DEF Surjection
  <2> QED
    BY <2>1, <2>2, FS_Surjection
<1> DEFINE N == 0 .. Len(w)
<1>3. IsFiniteSet(N)
  BY FS_Interval DEF Words
<1>4. IsFiniteSet(L \cup W)
  <2> HIDE DEF L, W
  <2> QED
    BY <1>1, <1>2, FS_Union
<1> DEFINE S == L \cup W
<1> HIDE DEF S
<1>5. IsFiniteSet((S \X N) \X N)
  <2> HIDE DEF N
  <2>1. IsFiniteSet(S \X N)
    BY <1>3, <1>4, FS_Product DEF S
  <2> DEFINE P == S \X N
  <2> HIDE DEF P
  <2> QED
    BY <1>3, <2>1, FS_Product DEF P
<1> DEFINE g == [q \in (S \X N) \X N |-> << q[1][1], q[1][2], q[2] >>]
<1>6. g \in Surjection((S \X N) \X N, S \X N \X N)
  <2>1. ASSUME NEW t \in S \X N \X N PROVE \E q \in (S \X N) \X N : g[q] = t
    <3> DEFINE q == << << t[1], t[2] >>, t[3] >>
    <3>1. q \in (S \X N) \X N /\ g[q] = t
      OBVIOUS
    <3> QED
      BY <3>1
  <2>2. g \in [(S \X N) \X N -> S \X N \X N]
    OBVIOUS
  <2> QED
    BY <2>1, <2>2 DEF Surjection
<1>7. IsFiniteSet(S \X N \X N)
  <2> DEFINE A == (S \X N) \X N
             B == S \X N \X N
  <2> HIDE DEF A, B, g
  <2> QED
    BY <1>5, <1>6, FS_Surjection DEF A, B
<1> QED
  BY <1>7 DEF S, AllSpans

(* What Rounds says of itself. *)
RoundsAre(round, prods, w) ==
  /\ round \in [Nat -> SUBSET AllSpans(prods, w)]
  /\ round[0] = {}
  /\ \A k \in Nat \ {0} : round[k] = Grow(prods, w, round[k - 1])

LEMMA RoundsDef ==
  ASSUME NEW prods, NEW w, Words(prods, w)
  PROVE  RoundsAre(Rounds(prods, w), prods, w)
<1> DEFINE X == SUBSET AllSpans(prods, w)
           F == [q \in Nat \X X |-> Grow(prods, w, q[2])]
           Body(f) == [k \in Nat |-> IF k = 0 THEN {} ELSE Grow(prods, w, f[k - 1])]
<1>1. {} \in X /\ \A E : Grow(prods, w, E) \in X
  BY GrowInside
<1>2. F \in [Nat \X X -> X]
  BY <1>1
<1> HIDE DEF F, X
<1>3. PICK f : Iterates(f, X, {}, F)
  BY <1>1, <1>2, RecursionExists
<1>4. ASSUME NEW k \in Nat, k # 0 PROVE F[<< k, f[k - 1] >>] = Grow(prods, w, f[k - 1])
  <2>1. << k, f[k - 1] >> \in Nat \X X
    BY <1>3, <1>4 DEF Iterates
  <2> QED
    BY <2>1 DEF F
<1>5. f = Body(f)
  BY <1>3, <1>4 DEF Iterates
<1> DEFINE round == Rounds(prods, w)
<1>6. round = CHOOSE g : g = Body(g)
  BY DEF Rounds
<1>7. round = Body(round)
  <2> HIDE DEF Body, round
  <2> QED
    BY <1>5, <1>6
<1> HIDE DEF round
<1>8. round \in [Nat -> X]
  <2>1. \A k \in Nat : Body(round)[k] \in X
    BY <1>1
  <2> QED
    BY <1>7, <2>1
<1>9. round[0] = {} /\ \A k \in Nat \ {0} : round[k] = Grow(prods, w, round[k - 1])
  BY <1>7
<1> QED
  BY <1>8, <1>9 DEF RoundsAre, X, round

(* Rounds only add spans. *)
LEMMA RoundsGrow ==
  ASSUME NEW prods, NEW w, Words(prods, w), NEW k \in Nat
  PROVE  Rounds(prods, w)[k] \subseteq Rounds(prods, w)[k + 1]
<1> DEFINE round == Rounds(prods, w)
           G == {j \in Nat : round[j] \subseteq round[j + 1]}
<1>1. RoundsAre(round, prods, w)
  BY RoundsDef
<1> HIDE DEF round
<1>2. G \in SUBSET Nat /\ 0 \in G
  BY <1>1 DEF RoundsAre
<1>3. ASSUME NEW j \in Nat, j \in G PROVE j + 1 \in G
  <2>1. /\ j + 1 \in Nat \ {0} /\ (j + 1) - 1 = j
        /\ (j + 1) + 1 \in Nat \ {0} /\ ((j + 1) + 1) - 1 = j + 1
    OBVIOUS
  <2>2. round[j + 1] = Grow(prods, w, round[j]) /\ round[(j + 1) + 1] = Grow(prods, w, round[j + 1])
    BY <1>1, <2>1 DEF RoundsAre
  <2>3. round[j] \subseteq round[j + 1]
    BY <1>3
  <2>4. Grow(prods, w, round[j]) \subseteq Grow(prods, w, round[j + 1])
    BY <2>3, GrowMonotonic
  <2> QED
    BY <2>1, <2>2, <2>4
<1> HIDE DEF G
<1>4. G = Nat
  BY <1>2, <1>3, AllNumbers
<1> QED
  BY <1>4 DEF G, round

(* They settle: each that does not has one span more at least. *)
LEMMA RoundsSettle ==
  ASSUME NEW prods, NEW w, Words(prods, w)
  PROVE  \E k \in 0 .. Cardinality(AllSpans(prods, w)) : Settles(prods, w, k)
<1> DEFINE round == Rounds(prods, w)
           U == AllSpans(prods, w)
           B == Cardinality(U)
           G == {j \in 0 .. B + 1 : j <= Cardinality(round[j])}
<1> SUFFICES ASSUME \A k \in 0 .. B : round[k + 1] # round[k] PROVE FALSE
  BY DEF Settles
<1>1. RoundsAre(round, prods, w) /\ \A k \in Nat : round[k] \subseteq round[k + 1]
  BY RoundsDef, RoundsGrow
<1>2. IsFiniteSet(U) /\ B \in Nat
  BY AllSpansFinite, FS_CardinalityType
<1> HIDE DEF round, U
<1>3. \A k \in Nat : round[k] \in SUBSET U
  BY <1>1 DEF RoundsAre, U
<1>4. \A k \in Nat : /\ IsFiniteSet(round[k]) /\ Cardinality(round[k]) \in Nat
                     /\ Cardinality(round[k]) <= B
  BY <1>2, <1>3, FS_Subset, FS_CardinalityType
<1>5. 0 \in G
  <2>1. round[0] = {}
    BY <1>1 DEF RoundsAre
  <2>2. Cardinality(round[0]) = 0
    BY <2>1, FS_EmptySet
  <2> QED
    BY <2>2, <1>2
<1>6. ASSUME NEW j \in 0 .. (B + 1) - 1, j \in G PROVE j + 1 \in G
  <2>1. j \in 0 .. B /\ j \in Nat /\ j + 1 \in Nat /\ j + 1 \in 0 .. B + 1
    BY <1>2
  <2>2. round[j] \in SUBSET round[j + 1] /\ round[j] # round[j + 1]
    BY <1>1, <2>1
  <2>3. Cardinality(round[j]) <= Cardinality(round[j + 1])
        /\ Cardinality(round[j]) # Cardinality(round[j + 1])
    BY <1>4, <2>1, <2>2, FS_Subset
  <2>4. j <= Cardinality(round[j])
    BY <1>6
  <2>5. j + 1 <= Cardinality(round[j + 1])
    BY <1>4, <2>1, <2>3, <2>4
  <2> QED
    BY <2>1, <2>5
<1> HIDE DEF G
<1>7. 0 .. B + 1 \subseteq G
  <2>1. B + 1 \in Nat
    BY <1>2
  <2> QED
    BY <1>5, <1>6, <2>1, AllUpTo
<1>8. B + 1 <= Cardinality(round[B + 1]) /\ Cardinality(round[B + 1]) <= B
  BY <1>2, <1>4, <1>7 DEF G
<1>9. Cardinality(round[B + 1]) \in Nat
  BY <1>2, <1>4
<1> QED
  BY <1>2, <1>8, <1>9

(***************************************************************************)
(* DerivedSpans is the least solution of the productions: they make no     *)
(* more of it, and every set of spans they make no more of has all of it.  *)
(***************************************************************************)
LEMMA DerivedIsSolution ==
  ASSUME NEW prods, NEW w, Words(prods, w)
  PROVE  Grow(prods, w, DerivedSpans(prods, w)) = DerivedSpans(prods, w)
<1> DEFINE k == CHOOSE j \in 0 .. Cardinality(AllSpans(prods, w)) : Settles(prods, w, j)
<1>1. k \in 0 .. Cardinality(AllSpans(prods, w)) /\ Settles(prods, w, k)
  BY RoundsSettle
<1>2. DerivedSpans(prods, w) = Rounds(prods, w)[k]
  BY DEF DerivedSpans
<1> HIDE DEF k
<1>3. k + 1 \in Nat \ {0} /\ (k + 1) - 1 = k
  <2>1. Cardinality(AllSpans(prods, w)) \in Nat
    BY AllSpansFinite, FS_CardinalityType
  <2> QED
    BY <1>1, <2>1
<1>4. RoundsAre(Rounds(prods, w), prods, w)
  BY RoundsDef
<1>5. Rounds(prods, w)[k + 1] = Grow(prods, w, Rounds(prods, w)[k])
  BY <1>3, <1>4 DEF RoundsAre
<1> QED
  BY <1>1, <1>2, <1>5 DEF Settles

LEMMA DerivedIsLeast ==
  ASSUME NEW prods, NEW w, Words(prods, w), NEW E, Grow(prods, w, E) \subseteq E
  PROVE  DerivedSpans(prods, w) \subseteq E
<1> DEFINE round == Rounds(prods, w)
           G == {j \in Nat : round[j] \subseteq E}
<1>1. RoundsAre(round, prods, w)
  BY RoundsDef
<1> HIDE DEF round
<1>2. G \in SUBSET Nat /\ 0 \in G
  BY <1>1 DEF RoundsAre
<1>3. ASSUME NEW j \in Nat, j \in G PROVE j + 1 \in G
  <2>1. j + 1 \in Nat \ {0} /\ (j + 1) - 1 = j
    OBVIOUS
  <2>2. round[j + 1] = Grow(prods, w, round[j])
    BY <1>1, <2>1 DEF RoundsAre
  <2>3. Grow(prods, w, round[j]) \subseteq Grow(prods, w, E)
    BY <1>3, GrowMonotonic
  <2> QED
    BY <2>1, <2>2, <2>3
<1> HIDE DEF G
<1>4. G = Nat
  BY <1>2, <1>3, AllNumbers
<1> DEFINE k == CHOOSE j \in 0 .. Cardinality(AllSpans(prods, w)) : Settles(prods, w, j)
<1>5. k \in 0 .. Cardinality(AllSpans(prods, w))
  BY RoundsSettle
<1>6. DerivedSpans(prods, w) = round[k]
  BY DEF DerivedSpans, round
<1> HIDE DEF k
<1>7. k \in Nat
  <2>1. Cardinality(AllSpans(prods, w)) \in Nat
    BY AllSpansFinite, FS_CardinalityType
  <2> QED
    BY <1>5, <2>1
<1> QED
  BY <1>4, <1>6, <1>7 DEF G

(* The tokens read are such a word. *)
LEMMA ReadWords ==
  ASSUME IInv
  PROVE  /\ Words(Prods, Read)
         /\ Len(toks) \in Nat /\ DOMAIN toks = 1 .. Len(toks)
         /\ Len(Read) = Len(toks) /\ DOMAIN Read = DOMAIN toks
         /\ \A n \in DOMAIN toks : Read[n] = toks[n].sym
<1> DEFINE R == [sym : Terminals, off : 0 .. Size, len : 1 .. Size]
<1>1. toks \in Seq(R)
  BY DEF IInv, TypeOK
<1> HIDE DEF R
<1>2. /\ Len(toks) \in Nat /\ DOMAIN toks = 1 .. Len(toks)
  BY <1>1
<1>3. Len(Read) = Len(toks) /\ DOMAIN Read = 1 .. Len(toks)
      /\ \A n \in DOMAIN toks : Read[n] = toks[n].sym
  BY <1>2 DEF Read
<1>4. job \in Jobs
  BY DEF IInv, TypeOK
<1> QED
  BY <1>2, <1>3, <1>4, GrammarFacts DEF Words, Prods

(* What the tokens derive, and anything that goes beyond them. *)
Extended ==
  DerivedSpans(Prods, Read)
    \cup {t \in {Prods[p].lhs : p \in DOMAIN Prods} \X Nat \X Nat : t[3] > Len(toks)}

LEMMA DerivedInside ==
  ASSUME IInv, NEW t \in DerivedSpans(Prods, Read)
  PROVE  t[2] \in 0 .. Len(toks) /\ t[3] \in 0 .. Len(toks)
<1>1. Words(Prods, Read) /\ Len(Read) = Len(toks)
  BY ReadWords
<1>2. DerivedSpans(Prods, Read) \subseteq AllSpans(Prods, Read)
  BY <1>1, DerivedIsSolution, GrowInside
<1> QED
  BY <1>1, <1>2 DEF AllSpans

(* What ends among the tokens is cut among them. *)
LEMMA CutInside ==
  ASSUME IInv, NEW rhs, NEW len \in Nat, NEW c \in [0 .. len -> Nat], c[len] <= Len(toks),
         \A i \in 1 .. len : << rhs[i], c[i - 1], c[i] >> \in Extended
  PROVE  /\ c \in [0 .. len -> 0 .. Len(toks)]
         /\ Cut(DerivedSpans(Prods, Read), rhs, len, c, c[0], c[len])
<1> DEFINE N == Len(toks)
           D == DerivedSpans(Prods, Read)
           G == {k \in 0 .. len : c[len - k] <= N}
<1>1. N \in Nat
  BY ReadWords
<1>2. \A t \in D : t[2] \in 0 .. N /\ t[3] \in 0 .. N
  BY DerivedInside
<1>3. \A t \in Extended : ~ (t[3] > N) => t \in D
  BY DEF Extended
<1> HIDE DEF D, N
<1>4. 0 \in G
  BY DEF N
<1>5. ASSUME NEW k \in 0 .. len - 1, k \in G PROVE k + 1 \in G
  <2> DEFINE i == len - k
  <2>1. /\ i \in 1 .. len /\ i - 1 = len - (k + 1) /\ i - 1 \in 0 .. len /\ i \in 0 .. len
        /\ k + 1 \in 0 .. len
    OBVIOUS
  <2>2. c[i] <= N
    BY <1>5
  <2> HIDE DEF i
  <2>3. << rhs[i], c[i - 1], c[i] >> \in Extended /\ c[i] \in Nat
    BY <2>1
  <2>4. ~ (c[i] > N)
    BY <2>2, <2>3, <1>1
  <2>5. << rhs[i], c[i - 1], c[i] >> \in D
    BY <2>3, <2>4, <1>3
  <2>6. c[i - 1] \in 0 .. N
    BY <2>5, <1>2
  <2>7. c[i - 1] <= N
    BY <2>6, <1>1
  <2> QED
    BY <2>1, <2>7
<1> HIDE DEF G
<1>6. 0 .. len \subseteq G
  BY <1>4, <1>5, AllUpTo
<1>7. ASSUME NEW i \in 0 .. len PROVE c[i] \in 0 .. N
  <2>1. len - i \in 0 .. len /\ len - (len - i) = i
    OBVIOUS
  <2>2. len - i \in G
    BY <1>6, <2>1
  <2>3. c[len - (len - i)] <= N
    BY <2>2 DEF G
  <2> QED
    BY <2>1, <2>3, <1>1
<1>8. ASSUME NEW i \in 1 .. len PROVE << rhs[i], c[i - 1], c[i] >> \in D
  <2>1. i \in 0 .. len
    OBVIOUS
  <2>2. ~ (c[i] > N)
    BY <1>7, <2>1, <1>1
  <2> QED
    BY <2>2, <1>3
<1>9. c \in [0 .. len -> 0 .. N]
  BY <1>7
<1> QED
  BY <1>8, <1>9 DEF Cut, D, N

LEMMA ExtendedIsClosed == ASSUME IInv PROVE Closed(Extended)
<1> DEFINE N == Len(toks)
           D == DerivedSpans(Prods, Read)
<1>1. /\ Words(Prods, Read) /\ N \in Nat /\ DOMAIN toks = 1 .. N
      /\ Len(Read) = N /\ DOMAIN Read = DOMAIN toks
      /\ \A n \in DOMAIN toks : Read[n] = toks[n].sym
  BY ReadWords
<1>2. Grow(Prods, Read, D) = D
  BY <1>1, DerivedIsSolution
<1>3. D \subseteq Extended
  BY DEF Extended
<1>4. \A p \in DOMAIN Prods, x, y \in Nat : y > N => << Prods[p].lhs, x, y >> \in Extended
  BY DEF Extended
<1> HIDE DEF D
<1>5. ASSUME NEW n \in DOMAIN toks PROVE << toks[n].sym, n - 1, n >> \in Extended
  <2>1. << Read[n], n - 1, n >> \in Grow(Prods, Read, D)
    BY <1>1, GrowHas
  <2> QED
    BY <1>1, <1>2, <1>3, <2>1
<1>6. ASSUME NEW p \in DOMAIN Prods,
             NEW c \in [0 .. Len(Prods[p].rhs) -> Nat],
             \A k \in 1 .. Len(Prods[p].rhs) : << Prods[p].rhs[k], c[k - 1], c[k] >> \in Extended
      PROVE  << Prods[p].lhs, c[0], c[Len(Prods[p].rhs)] >> \in Extended
  <2> DEFINE len == Len(Prods[p].rhs)
             rhs == Prods[p].rhs
  <2>1. len \in Nat /\ 0 \in 0 .. len /\ len \in 0 .. len
    BY <1>1 DEF Words
  <2>2. c[0] \in Nat /\ c[len] \in Nat
    BY <2>1
  <2>3. CASE c[len] > N
    BY <2>2, <2>3, <1>4
  <2>4. CASE ~ (c[len] > N)
    <3>1. c[len] <= N
      BY <2>2, <2>4, <1>1
    <3>2. \A k \in 1 .. len : << rhs[k], c[k - 1], c[k] >> \in Extended
      BY <1>6
    <3> HIDE DEF len, rhs
    <3>3. c \in [0 .. len -> Nat]
      BY DEF len
    <3>4. c \in [0 .. len -> 0 .. N] /\ Cut(D, rhs, len, c, c[0], c[len])
      BY <2>1, <3>1, <3>2, <3>3, CutInside DEF D
    <3>5. c[0] \in 0 .. N /\ c[len] \in 0 .. N
      BY <2>1, <3>4
    <3>6. << Prods[p].lhs, c[0], c[len] >> \in Grow(Prods, Read, D)
      BY <1>1, <3>4, <3>5, GrowHas DEF len, rhs
    <3> QED
      BY <3>6, <1>2, <1>3 DEF len
  <2> QED
    BY <2>3, <2>4
<1> QED
  BY <1>5, <1>6 DEF Closed

(* What derives is in the least solution: nothing else is in all closed relations. *)
LEMMA SpansDerived ==
  ASSUME IInv, NEW s, NEW a \in 0 .. Len(toks), NEW b \in 0 .. Len(toks), Spans(s, a, b)
  PROVE  << s, a, b >> \in DerivedSpans(Prods, Read)
<1>1. << s, a, b >> \in Extended
  BY ExtendedIsClosed DEF Spans
<1>2. ~ (b > Len(toks))
  BY ReadWords
<1> QED
  BY <1>1, <1>2 DEF Extended

-----------------------------------------------------------------------------
(* The chart misses nothing that its items ask for. *)

Has(S, it) == \E m \in DOMAIN S : S[m] = it

(* Wants, of given productions. *)
Awaits(prods, it, s) ==
  it.dot # Len(prods[it.prod].rhs) /\ prods[it.prod].rhs[it.dot + 1] = s

(* Nothing is missing in S, set number n of a chart, for its item it. *)
FilledBy(prods, nul, chart, S, n, it) ==
  /\ \A p \in DOMAIN prods : Awaits(prods, it, prods[p].lhs) => Has(S, Item(p, 0, n))
  /\ \A s \in nul : Awaits(prods, it, s) => Has(S, Advance(it))
  /\ it.dot = Len(prods[it.prod].rhs) /\ it.origin < n =>
       \A j \in DOMAIN chart[it.origin + 1] :
         Awaits(prods, chart[it.origin + 1][j], prods[it.prod].lhs) =>
           Has(S, Advance(chart[it.origin + 1][j]))

StartedBy(prods, start, S) ==
  \A p \in DOMAIN prods : prods[p].lhs = start => Has(S, Item(p, 0, 0))

ScannedBy(prods, T, s, S) ==
  \A j \in DOMAIN T : Awaits(prods, T[j], s) => Has(S, Advance(T[j]))

(* The set at place n of a chart has what it should. *)
ClosedBy(prods, start, nul, ts, chart, n) ==
  /\ \A k \in DOMAIN chart[n] : FilledBy(prods, nul, chart, chart[n], n - 1, chart[n][k])
  /\ n = 1 => StartedBy(prods, start, chart[n])
  /\ n # 1 => n - 1 \in DOMAIN ts /\ ScannedBy(prods, chart[n - 1], ts[n - 1].sym, chart[n])

NullableKnown ==
  \A p \in DOMAIN Prods :
    (\A k \in DOMAIN Prods[p].rhs : Prods[p].rhs[k] \in nullable) => Prods[p].lhs \in nullable

ClosedSets == \A n \in DOMAIN sets : ClosedBy(Prods, Start, nullable, toks, sets, n)

(* The set being filled, up to the item looked at. *)
FilledSoFar ==
  /\ \A k \in 1 .. ix - 1 :
       k \in DOMAIN cur /\ FilledBy(Prods, nullable, sets, cur, Len(sets), cur[k])
  /\ sets = << >> => StartedBy(Prods, Start, cur)
  /\ sets # << >> => ScannedBy(Prods, sets[Len(sets)], toks[Len(sets)].sym, cur)

Chart ==
  /\ pc # "nullable" => NullableKnown
  /\ pc = "start" => ix = 1
  /\ ClosedSets
  /\ pc = "close" => FilledSoFar

LEMMA FilledMore ==
  ASSUME NEW prods, NEW nul, NEW chart, NEW S, NEW T, NEW n, NEW it,
         \A x : Has(S, x) => Has(T, x), FilledBy(prods, nul, chart, S, n, it)
  PROVE  FilledBy(prods, nul, chart, T, n, it)
BY DEF FilledBy

(* A closed set stays so when tokens and sets are added. *)
LEMMA ClosedStays ==
  ASSUME IInv, NEW n \in DOMAIN sets, NEW ts, NEW chart,
         ClosedBy(Prods, Start, nullable, toks, sets, n),
         \A m \in DOMAIN toks : m \in DOMAIN ts /\ ts[m] = toks[m],
         \A m \in DOMAIN sets : chart[m] = sets[m]
  PROVE  ClosedBy(Prods, Start, nullable, ts, chart, n)
<1>1. n \in 1 .. Len(sets) /\ Len(sets) \in Nat /\ DOMAIN sets = 1 .. Len(sets) /\ sets[n] \in Seq(Items)
  BY DEF IInv, TypeOK
<1>2. chart[n] = sets[n] /\ (n # 1 => n - 1 \in DOMAIN sets /\ chart[n - 1] = sets[n - 1])
  BY <1>1
<1>3. ASSUME NEW k \in DOMAIN sets[n] 
      PROVE  FilledBy(Prods, nullable, chart, sets[n], n - 1, sets[n][k])
  <2> DEFINE it == sets[n][k]
  <2>1. FilledBy(Prods, nullable, sets, sets[n], n - 1, it)
    BY DEF ClosedBy
  <2>2. it.origin \in Nat
    BY <1>1 DEF Items
  <2> HIDE DEF it
  <2>3. it.origin < n - 1 => chart[it.origin + 1] = sets[it.origin + 1]
    BY <1>1, <2>2
  <2> QED
    BY <2>1, <2>3 DEF FilledBy, it
<1> QED
  BY <1>2, <1>3 DEF ClosedBy

LEMMA PushHas ==
  ASSUME IInv, NEW it, Push(it)
  PROVE  /\ Has(cur', it) /\ \A x : Has(cur, x) => Has(cur', x)
         /\ \A k \in DOMAIN cur : k \in DOMAIN cur' /\ cur'[k] = cur[k]
         /\ UNCHANGED << job, nullable, sets, ix, upto, pos, toks, result, pc >>
<1>1. /\ cur' = Append(cur, it)
      /\ UNCHANGED << job, nullable, sets, ix, upto, pos, toks, result, pc >>
  BY DEF Push
<1>2. Len(cur) \in Nat /\ DOMAIN cur = 1 .. Len(cur)
  BY DEF IInv, TypeOK
<1>3. /\ DOMAIN cur' = 1 .. Len(cur) + 1 /\ cur'[Len(cur) + 1] = it
      /\ \A k \in DOMAIN cur : k \in DOMAIN cur' /\ cur'[k] = cur[k]
  <2>1. cur \in Seq(Items)
    BY DEF IInv, TypeOK
  <2> QED
    BY <1>1, <1>2, <2>1
<1>4. Has(cur', it)
  BY <1>2, <1>3 DEF Has
<1> QED
  BY <1>1, <1>3, <1>4 DEF Has

LEMMA PushChart ==
  ASSUME IInv, Chart, NEW it, Push(it), pc # "nullable"
  PROVE  Chart'
<1>1. /\ \A x : Has(cur, x) => Has(cur', x)
      /\ \A k \in DOMAIN cur : k \in DOMAIN cur' /\ cur'[k] = cur[k]
      /\ UNCHANGED << job, nullable, sets, ix, upto, pos, toks, result, pc >>
  BY PushHas
<1>2. Prods' = Prods /\ Start' = Start
  BY <1>1 DEF Prods, Start
<1>3. NullableKnown' /\ ClosedSets' /\ (pc = "start" => ix = 1)'
  BY <1>1, <1>2 DEF Chart, NullableKnown, ClosedSets
<1>4. ASSUME pc = "close" PROVE FilledSoFar'
  <2>1. FilledSoFar
    BY <1>4 DEF Chart
  <2>2. ASSUME NEW k \in 1 .. ix - 1
        PROVE  k \in DOMAIN cur' /\ FilledBy(Prods, nullable, sets, cur', Len(sets), cur'[k])
    <3>1. k \in DOMAIN cur /\ FilledBy(Prods, nullable, sets, cur, Len(sets), cur[k])
      BY <2>1 DEF FilledSoFar
    <3>2. FilledBy(Prods, nullable, sets, cur', Len(sets), cur[k])
      BY <3>1, <1>1, FilledMore
    <3> QED
      BY <3>1, <3>2, <1>1
  <2>3. sets = << >> => StartedBy(Prods, Start, cur')
    BY <2>1, <1>1 DEF FilledSoFar, StartedBy
  <2>4. sets # << >> => ScannedBy(Prods, sets[Len(sets)], toks[Len(sets)].sym, cur')
    BY <2>1, <1>1 DEF FilledSoFar, ScannedBy
  <2> QED
    BY <1>1, <1>2, <2>2, <2>3, <2>4 DEF FilledSoFar
<1> QED
  BY <1>1, <1>3, <1>4 DEF Chart

(* Steps that leave the sets, and close none. *)
LEMMA QuietChart ==
  ASSUME IInv, Chart, UNCHANGED << job, nullable, sets >>,
         pc # "nullable", pc' \notin {"nullable", "start", "close"},
         \A m \in DOMAIN toks : m \in DOMAIN toks' /\ toks'[m] = toks[m]
  PROVE  Chart'
<1>1. Prods' = Prods /\ Start' = Start
  BY DEF Prods, Start
<1>2. NullableKnown'
  BY <1>1 DEF Chart, NullableKnown
<1>3. \A n \in DOMAIN sets : ClosedBy(Prods, Start, nullable, toks', sets, n)
  <2> SUFFICES ASSUME NEW n \in DOMAIN sets PROVE ClosedBy(Prods, Start, nullable, toks', sets, n)
    OBVIOUS
  <2>1. ClosedBy(Prods, Start, nullable, toks, sets, n)
    BY DEF Chart, ClosedSets
  <2> QED
    BY <2>1, ClosedStays
<1>4. ClosedSets'
  BY <1>1, <1>3 DEF ClosedSets
<1> QED
  BY <1>2, <1>4 DEF Chart

LEMMA NullableChart ==
  ASSUME IInv, Chart, MarkNullable \/ NullableDone
  PROVE  Chart'
<1>1. pc = "nullable" /\ sets = << >> /\ UNCHANGED << job, sets >>
  BY DEF IInv, TypeOK, MarkNullable, NullableDone
<1>2. ClosedSets'
  BY <1>1 DEF ClosedSets
<1>3. CASE MarkNullable
  BY <1>1, <1>2, <1>3 DEF MarkNullable, Chart
<1>4. CASE NullableDone
  <2>1. pc' = "start" /\ ix' = 1 /\ UNCHANGED nullable /\ \A p \in DOMAIN Prods : ~ Ready(p)
    BY <1>4 DEF NullableDone
  <2>2. NullableKnown
    BY <2>1 DEF NullableKnown, Ready
  <2>3. NullableKnown'
    BY <1>1, <2>1, <2>2 DEF NullableKnown, Prods
  <2> QED
    BY <1>2, <2>1, <2>3 DEF Chart
<1> QED
  BY <1>3, <1>4

LEMMA StartDoneChart ==
  ASSUME IInv, Chart, StartDone
  PROVE  Chart'
<1>1. /\ pc = "start" /\ pc' = "close" /\ sets = << >> /\ ix = 1
      /\ UNCHANGED << job, nullable, sets, cur, ix, toks >>
      /\ \A p \in DOMAIN Prods : ~ StartMissing(p)
  BY DEF IInv, TypeOK, Chart, StartDone
<1>2. StartedBy(Prods, Start, cur)
  BY <1>1 DEF StartedBy, StartMissing, InCur, Has
<1>3. Prods' = Prods /\ Start' = Start
  BY <1>1 DEF Prods, Start
<1>4. FilledSoFar'
  <2>1. 1 .. ix - 1 = {}
    BY <1>1
  <2> QED
    BY <1>1, <1>2, <1>3, <2>1 DEF FilledSoFar
<1>5. NullableKnown' /\ ClosedSets'
  BY <1>1, <1>3 DEF Chart, NullableKnown, ClosedSets
<1> QED
  BY <1>1, <1>4, <1>5 DEF Chart

(* When nothing is missing for an item, its set has what it asks for. *)
LEMMA NothingMissingFills ==
  ASSUME IInv, Closing, NothingMissing
  PROVE  FilledBy(Prods, nullable, sets, cur, Len(sets), Here)
<1>1. \A s : Awaits(Prods, Here, s) <=> Wants(Here, s)
  BY DEF Awaits, Wants, Complete, Rhs
<1>2. \A p \in DOMAIN Prods : Awaits(Prods, Here, Prods[p].lhs) => Has(cur, Item(p, 0, Len(sets)))
  BY <1>1 DEF NothingMissing, NoPrediction, PredictMissing, InCur, Has
<1>3. \A s \in nullable : Awaits(Prods, Here, s) => Has(cur, Advance(Here))
  BY <1>1 DEF NothingMissing, SkipMissing, InCur, Has, Wants
<1>4. ASSUME Here.dot = Len(Prods[Here.prod].rhs), Here.origin < Len(sets),
             NEW j \in DOMAIN sets[Here.origin + 1],
             Awaits(Prods, sets[Here.origin + 1][j], Prods[Here.prod].lhs)
      PROVE  Has(cur, Advance(sets[Here.origin + 1][j]))
  <2>1. Here.origin \in 0 .. Len(sets) /\ Len(sets) \in Nat
    BY HereFacts DEF IInv, TypeOK
  <2>2. OriginSet = sets[Here.origin + 1] /\ ParentEnd = Len(OriginSet)
    BY <1>4, <2>1 DEF OriginSet, ParentEnd
  <2>3. OriginSet \in Seq(Items)
    BY HereFacts
  <2>4. j \in 1 .. ParentEnd
    BY <2>2, <2>3
  <2>5. ~ CompleteMissing(j)
    BY <2>4 DEF NothingMissing
  <2>6. Complete(Here) /\ Wants(OriginSet[j], Lhs(Here))
    BY <1>4, <2>2 DEF Complete, Rhs, Lhs, Wants, Awaits
  <2> QED
    BY <2>2, <2>5, <2>6 DEF CompleteMissing, InCur, Has
<1> QED
  BY <1>2, <1>3, <1>4 DEF FilledBy

LEMMA NextItemChart ==
  ASSUME IInv, Chart, NextItem
  PROVE  Chart'
<1>1. /\ pc = "close" /\ pc' = "close" /\ Closing /\ NothingMissing /\ ix' = ix + 1
      /\ UNCHANGED << job, nullable, sets, cur, toks >>
  BY DEF NextItem, Closing
<1>2. ix \in Nat \ {0} /\ ix \in DOMAIN cur
  BY <1>1 DEF Closing, IInv, TypeOK
<1>3. Prods' = Prods /\ Start' = Start
  BY <1>1 DEF Prods, Start
<1>4. FilledBy(Prods, nullable, sets, cur, Len(sets), cur[ix])
  BY <1>1, NothingMissingFills DEF Here
<1>5. FilledSoFar
  BY <1>1 DEF Chart
<1>6. \A k \in 1 .. ix' - 1 :
        k \in DOMAIN cur /\ FilledBy(Prods, nullable, sets, cur, Len(sets), cur[k])
  <2> SUFFICES ASSUME NEW k \in 1 .. ix' - 1
               PROVE  k \in DOMAIN cur /\ FilledBy(Prods, nullable, sets, cur, Len(sets), cur[k])
    OBVIOUS
  <2>1. k = ix \/ k \in 1 .. ix - 1
    BY <1>1, <1>2
  <2> QED
    BY <2>1, <1>2, <1>4, <1>5 DEF FilledSoFar
<1>7. FilledSoFar'
  BY <1>1, <1>3, <1>5, <1>6 DEF FilledSoFar
<1>8. NullableKnown' /\ ClosedSets'
  BY <1>1, <1>3 DEF Chart, NullableKnown, ClosedSets
<1> QED
  BY <1>1, <1>7, <1>8 DEF Chart

LEMMA CloseDoneChart ==
  ASSUME IInv, Chart, CloseDone
  PROVE  Chart'
<1>1. /\ pc = "close" /\ pc' = "lex" /\ ix > Len(cur) /\ sets' = Append(sets, cur)
      /\ UNCHANGED << job, nullable, toks >>
  BY DEF CloseDone
<1>2. /\ Len(sets) \in Nat /\ DOMAIN sets = 1 .. Len(sets) /\ DOMAIN sets' = 1 .. Len(sets) + 1
      /\ sets'[Len(sets) + 1] = cur
      /\ \A n \in DOMAIN sets : sets'[n] = sets[n]
      /\ Len(cur) \in Nat /\ DOMAIN cur = 1 .. Len(cur) /\ ix \in Nat
      /\ \A k \in DOMAIN cur : cur[k] \in Items
  BY <1>1 DEF IInv, TypeOK
<1>3. Prods' = Prods /\ Start' = Start
  BY <1>1 DEF Prods, Start
<1>4. FilledSoFar
  BY <1>1 DEF Chart
<1>5. ASSUME NEW n \in DOMAIN sets PROVE ClosedBy(Prods, Start, nullable, toks, sets', n)
  <2>1. ClosedBy(Prods, Start, nullable, toks, sets, n)
    BY DEF Chart, ClosedSets
  <2> QED
    BY <1>2, <2>1, ClosedStays
<1> DEFINE last == Len(sets) + 1
<1>6. ClosedBy(Prods, Start, nullable, toks, sets', last)
  <2>1. sets'[last] = cur /\ last - 1 = Len(sets) /\ (last # 1 => Len(sets) \in DOMAIN sets)
    BY <1>2
  <2> HIDE DEF last
  <2>2. ASSUME NEW k \in DOMAIN cur PROVE FilledBy(Prods, nullable, sets', cur, Len(sets), cur[k])
    <3> DEFINE it == cur[k]
    <3>1. k \in 1 .. ix - 1
      BY <1>1, <1>2
    <3>2. FilledBy(Prods, nullable, sets, cur, Len(sets), it)
      BY <3>1, <1>4 DEF FilledSoFar
    <3>3. it.origin \in Nat
      BY <1>2 DEF Items
    <3> HIDE DEF it
    <3>4. it.origin < Len(sets) => sets'[it.origin + 1] = sets[it.origin + 1]
      BY <1>2, <3>3
    <3> QED
      BY <3>2, <3>4 DEF FilledBy, it
  <2>3. CASE last = 1
    <3>1. Len(sets) = 0
      BY <2>1, <2>3, <1>2
    <3>2. sets = << >>
      BY <3>1 DEF IInv, TypeOK
    <3> QED
      BY <2>1, <2>2, <2>3, <3>2, <1>4 DEF FilledSoFar, ClosedBy
  <2>4. CASE last # 1
    <3>1. Len(sets) \in DOMAIN sets /\ sets # << >> /\ sets'[last - 1] = sets[Len(sets)]
      BY <2>1, <2>4, <1>2
    <3>2. Len(sets) \in DOMAIN toks
      <4>1. Len(sets) = Len(toks) /\ DOMAIN toks = 1 .. Len(toks)
        BY <1>1, ReadWords DEF IInv, TokensFit
      <4> QED
        BY <3>1, <4>1, <1>2
    <3>3. ScannedBy(Prods, sets'[last - 1], toks[last - 1].sym, sets'[last])
      BY <2>1, <3>1, <1>4 DEF FilledSoFar
    <3> QED
      BY <2>1, <2>2, <2>4, <3>2, <3>3 DEF ClosedBy
  <2> QED
    BY <2>3, <2>4
<1>7. \A n \in DOMAIN sets' : ClosedBy(Prods, Start, nullable, toks, sets', n)
  <2> SUFFICES ASSUME NEW n \in DOMAIN sets', n \notin DOMAIN sets
               PROVE  ClosedBy(Prods, Start, nullable, toks, sets', n)
    BY <1>5
  <2>1. n = last
    BY <1>2
  <2> QED
    BY <2>1, <1>6
<1>8. ClosedSets'
  BY <1>1, <1>3, <1>7 DEF ClosedSets
<1>9. NullableKnown'
  BY <1>1, <1>3 DEF Chart, NullableKnown
<1> QED
  BY <1>1, <1>8, <1>9 DEF Chart

LEMMA ScanDoneChart ==
  ASSUME IInv, Chart, ScanDone
  PROVE  Chart'
<1>1. /\ pc = "scan" /\ pc' = "close" /\ ix' = 1
      /\ UNCHANGED << job, nullable, sets, cur, toks >>
      /\ \A j \in DOMAIN LastSet : ~ ScanMissing(j)
  BY DEF ScanDone
<1>2. Prods' = Prods /\ Start' = Start
  BY <1>1 DEF Prods, Start
<1>3. Len(sets) = Len(toks) /\ Len(sets) \in 1 .. Len(sets)
  BY <1>1, LastSetFacts DEF IInv, TokensFit
<1>4. ScannedBy(Prods, LastSet, Scanned, cur)
  BY <1>1 DEF ScannedBy, ScanMissing, InCur, Has, Awaits, Wants, Complete, Rhs
<1>5. ScannedBy(Prods, sets[Len(sets)], toks[Len(sets)].sym, cur) /\ sets # << >>
  BY <1>3, <1>4 DEF LastSet, Scanned, Newest
<1>6. FilledSoFar'
  <2>1. 1 .. ix' - 1 = {}
    BY <1>1
  <2> QED
    BY <1>1, <1>2, <1>5, <2>1 DEF FilledSoFar
<1>7. NullableKnown' /\ ClosedSets'
  BY <1>1, <1>2 DEF Chart, NullableKnown, ClosedSets
<1> QED
  BY <1>1, <1>6, <1>7 DEF Chart

LEMMA ChartStep == IInv /\ Chart /\ [Next]_vars => Chart'
<1> SUFFICES ASSUME IInv, Chart, [Next]_vars PROVE Chart'
  OBVIOUS
<1>1. CASE PushStart \/ Predict \/ SkipNullable \/ CompleteItem \/ ScanItem
  <2>1. pc # "nullable" /\ \E it : Push(it)
    BY <1>1 DEF PushStart, Predict, SkipNullable, CompleteItem, ScanItem, Closing
  <2> QED
    BY <2>1, PushChart
<1>2. CASE SkipIgnored \/ CloseOverflow \/ LexError \/ Accept \/ RejectAtEnd \/ ScanOverflow
  <2>1. /\ UNCHANGED << job, nullable, sets, toks >>
        /\ pc # "nullable" /\ pc' \notin {"nullable", "start", "close"}
    BY <1>2 DEF SkipIgnored, CloseOverflow, LexError, Accept, RejectAtEnd, ScanOverflow, End,
                Closing, Lexing
  <2> QED
    BY <2>1, QuietChart
<1>3. CASE LexToken
  <2>1. /\ UNCHANGED << job, nullable, sets >> /\ pc = "lex" /\ pc' = "scan"
        /\ \E x : toks' = Append(toks, x)
    BY <1>3 DEF LexToken, Lexing
  <2>2. Len(toks) \in Nat /\ DOMAIN toks = 1 .. Len(toks)
    BY ReadWords
  <2>3. \A m \in DOMAIN toks : m \in DOMAIN toks' /\ toks'[m] = toks[m]
    <3> DEFINE R == [sym : Terminals, off : 0 .. Size, len : 1 .. Size]
    <3>1. toks \in Seq(R)
      BY DEF IInv, TypeOK
    <3> HIDE DEF R
    <3> QED
      BY <2>1, <2>2, <3>1
  <2> QED
    BY <2>1, <2>3, QuietChart
<1>4. CASE UNCHANGED vars
  BY <1>4 DEF vars, Chart, NullableKnown, ClosedSets, FilledSoFar, Prods, Start
<1> QED
  BY <1>1, <1>2, <1>3, <1>4, NullableChart, StartDoneChart, NextItemChart, CloseDoneChart,
     ScanDoneChart DEF Next, Step, Terminated

-----------------------------------------------------------------------------
(* What the parser refuses does not derive. *)

(* What ends a parse: with "parse", a last set in which nothing derives. *)
Refused == 
  /\ pc = "done" /\ pos = Size /\ Len(sets) = Len(toks) + 1
  /\ \A k \in DOMAIN LastSet : ~ Derives(LastSet[k])

Refusal ==
  /\ pc # "done" => result = "pending"
  /\ result = "parse" /\ ~ Full => Refused

LEMMA RefusalStep == IInv /\ Refusal /\ [Next]_vars => Refusal'
<1> SUFFICES ASSUME IInv, Refusal, [Next]_vars PROVE Refusal'
  OBVIOUS
<1>1. CASE RejectAtEnd
  <2>1. /\ pc' = "done" /\ pos = Size /\ Len(sets) = Len(toks) + 1
        /\ \A k \in DOMAIN LastSet : ~ Derives(LastSet[k])
        /\ UNCHANGED << job, pos, sets, toks >>
    BY <1>1 DEF RejectAtEnd, End, IInv, TokensFit
  <2>2. Refused'
    BY <2>1, Kept DEF Refused, LastSet, Derives, Lhs, Complete, Rhs
  <2> QED
    BY <2>1, <2>2 DEF Refusal
<1>2. CASE ScanOverflow
  <2>1. Full /\ pc' = "done" /\ UNCHANGED << job, count >>
    BY <1>2 DEF ScanOverflow, End
  <2>2. Full'
    BY <2>1, Kept DEF Full
  <2> QED
    BY <2>1, <2>2 DEF Refusal
<1>3. CASE CloseOverflow \/ LexError \/ Accept
  BY <1>3 DEF CloseOverflow, LexError, Accept, End, Refusal
<1>4. CASE UNCHANGED vars
  <2>1. UNCHANGED << job, pos, sets, toks, count, pc, result >>
    BY <1>4 DEF vars
  <2> QED
    BY <2>1, Kept DEF Refusal, Refused, LastSet, Derives, Lhs, Complete, Rhs, Full
<1>5. CASE \/ MarkNullable \/ NullableDone \/ PushStart \/ StartDone
           \/ Predict \/ SkipNullable \/ CompleteItem \/ NextItem \/ CloseDone
           \/ SkipIgnored \/ LexToken \/ ScanItem \/ ScanDone
  <2>1. pc # "done" /\ UNCHANGED result
    BY <1>5 DEF MarkNullable, NullableDone, PushStart, StartDone, Predict, SkipNullable,
          CompleteItem, NextItem, CloseDone, SkipIgnored, LexToken, ScanItem, ScanDone,
          Closing, Lexing, Push
  <2>2. result' = "pending"
    BY <2>1 DEF Refusal
  <2> QED
    BY <2>2 DEF Refusal
<1> QED
  BY <1>1, <1>2, <1>3, <1>4, <1>5 DEF Next, Step, Terminated

(* A span that the chart knows of: whoever awaits its symbol went on. *)
Charted(t) ==
  /\ t[2] <= t[3]
  /\ t[2] = t[3] => t[1] \in nullable
  /\ \A k \in DOMAIN sets[t[2] + 1] :
       Awaits(Prods, sets[t[2] + 1][k], t[1]) => Has(sets[t[3] + 1], Advance(sets[t[2] + 1][k]))

(* A chart that is closed up to set number n, after n tokens. *)
ChartTo(n) ==
  /\ NullableKnown /\ ClosedSets
  /\ n \in 0 .. Len(toks) /\ n < Len(sets)

LEMMA SetFacts ==
  ASSUME IInv, NEW N, ChartTo(N), NEW n \in 0 .. N
  PROVE  /\ ClosedBy(Prods, Start, nullable, toks, sets, n + 1)
         /\ \A k \in DOMAIN sets[n + 1] : sets[n + 1][k] \in Items
         /\ n \in Nat /\ (n + 1) - 1 = n
<1>1. n + 1 \in DOMAIN sets /\ n \in Nat /\ (n + 1) - 1 = n
  <2>1. Len(sets) \in Nat /\ N \in Nat /\ N < Len(sets)
    BY ReadWords DEF ChartTo, IInv, TypeOK
  <2>2. DOMAIN sets = 1 .. Len(sets)
    BY DEF IInv, TypeOK
  <2> QED
    BY <2>1, <2>2
<1>2. sets[n + 1] \in Seq(Items)
  BY <1>1 DEF IInv, TypeOK
<1> QED
  BY <1>1, <1>2 DEF ChartTo, ClosedSets

LEMMA TokenCharted ==
  ASSUME IInv, NEW N, ChartTo(N), NEW m \in 1 .. N
  PROVE  Charted(<< Read[m], m - 1, m >>)
<1>1. m \in 1 .. Len(toks) /\ m \in DOMAIN toks /\ Read[m] = toks[m].sym /\ Len(toks) \in Nat
  BY ReadWords DEF ChartTo
<1>2. m \in 0 .. N /\ m - 1 \in Nat /\ (m - 1) + 1 = m /\ m - 1 <= m /\ m - 1 # m /\ m + 1 # 1
  BY <1>1 DEF ChartTo
<1>3. ClosedBy(Prods, Start, nullable, toks, sets, m + 1) /\ (m + 1) - 1 = m
  BY <1>2, SetFacts
<1>4. ScannedBy(Prods, sets[m], Read[m], sets[m + 1])
  BY <1>1, <1>2, <1>3 DEF ClosedBy
<1> DEFINE t == << Read[m], m - 1, m >>
<1>6. t[1] = Read[m] /\ t[2] = m - 1 /\ t[3] = m
  OBVIOUS
<1> HIDE DEF t
<1>8. Charted(t)
  BY <1>2, <1>4, <1>6 DEF Charted, ScannedBy
<1> QED
  BY <1>8 DEF t

(* An item goes through its production along the spans of a cut. *)
LEMMA ItemWalks ==
  ASSUME IInv, NEW p \in DOMAIN Prods, NEW N \in Nat,
         NEW len \in 0 .. Len(Prods[p].rhs), NEW c \in [0 .. len -> 0 .. N],
         \A i \in 1 .. len : Charted(<< Prods[p].rhs[i], c[i - 1], c[i] >>),
         NEW a, Has(sets[c[0] + 1], Item(p, 0, a))
  PROVE  Has(sets[c[len] + 1], Item(p, len, a))
<1> DEFINE G == {k \in 0 .. len : Has(sets[c[k] + 1], Item(p, k, a))}
<1>1. len \in Nat /\ Len(Prods[p].rhs) \in Nat
  BY ReadWords DEF Words
<1>2. 0 \in G
  BY <1>1
<1>3. ASSUME NEW k \in 0 .. len - 1, k \in G PROVE k + 1 \in G
  <2>1. /\ k + 1 \in 1 .. len /\ (k + 1) - 1 = k /\ k # Len(Prods[p].rhs)
        /\ k + 1 \in 0 .. len /\ k \in 0 .. len
    BY <1>1
  <2>2. PICK m \in DOMAIN sets[c[k] + 1] : sets[c[k] + 1][m] = Item(p, k, a)
    BY <1>3 DEF Has
  <2>3. Charted(<< Prods[p].rhs[k + 1], c[k], c[k + 1] >>)
    BY <2>1
  <2>4. Awaits(Prods, Item(p, k, a), Prods[p].rhs[k + 1])
    BY <2>1 DEF Awaits, Item
  <2>5. Has(sets[c[k + 1] + 1], Advance(Item(p, k, a)))
    BY <2>2, <2>3, <2>4 DEF Charted
  <2>6. Advance(Item(p, k, a)) = Item(p, k + 1, a)
    BY DEF Advance, Item
  <2> QED
    BY <2>1, <2>5, <2>6
<1> HIDE DEF G
<1>4. 0 .. len \subseteq G
  BY <1>1, <1>2, <1>3, AllUpTo
<1>5. len \in 0 .. len
  BY <1>1
<1> QED
  BY <1>4, <1>5 DEF G

LEMMA ProductionCharted ==
  ASSUME IInv, NEW N, ChartTo(N), NEW p \in DOMAIN Prods,
         NEW c \in [0 .. Len(Prods[p].rhs) -> 0 .. N],
         \A i \in 1 .. Len(Prods[p].rhs) : Charted(<< Prods[p].rhs[i], c[i - 1], c[i] >>)
  PROVE  Charted(<< Prods[p].lhs, c[0], c[Len(Prods[p].rhs)] >>)
<1> DEFINE len == Len(Prods[p].rhs)
           lhs == Prods[p].lhs
           a == c[0]
           b == c[len]
           t == << lhs, a, b >>
           last == Item(p, len, a)
<1>1. /\ len \in Nat /\ 0 \in 0 .. len /\ len \in 0 .. len /\ N \in Nat
      /\ DOMAIN Prods[p].rhs = 1 .. len
  BY ReadWords, GrammarFacts DEF Words, IInv, TypeOK, Prods, ChartTo
<1>2. a \in 0 .. N /\ b \in 0 .. N /\ a \in Nat /\ b \in Nat
  BY <1>1
<1>3. \A i \in 1 .. len : c[i - 1] <= c[i]
  BY DEF Charted
<1>4. c \in [0 .. len -> Nat]
  BY <1>1
<1> HIDE DEF len
<1>5. \A i \in 0 .. len : a <= c[i] /\ c[i] <= b
  BY <1>1, <1>3, <1>4, Rising
<1>6. a <= b
  BY <1>1, <1>5
<1>7. a = b => lhs \in nullable
  <2> SUFFICES ASSUME a = b PROVE lhs \in nullable
    OBVIOUS
  <2>1. ASSUME NEW i \in DOMAIN Prods[p].rhs PROVE Prods[p].rhs[i] \in nullable
    <3>1. i \in 1 .. len /\ i \in 0 .. len /\ i - 1 \in 0 .. len
      BY <1>1
    <3>2. c[i - 1] = c[i]
      BY <1>4, <1>5, <3>1, <1>2
    <3> QED
      BY <3>1, <3>2 DEF Charted, len
  <2> QED
    BY <2>1 DEF ChartTo, NullableKnown
<1>8. ASSUME Has(sets[a + 1], Item(p, 0, a)) PROVE Has(sets[b + 1], last)
  BY <1>1, <1>8, ItemWalks DEF len
<1>9. ASSUME NEW k \in DOMAIN sets[a + 1], Awaits(Prods, sets[a + 1][k], lhs)
      PROVE  Has(sets[b + 1], Advance(sets[a + 1][k]))
  <2> DEFINE it == sets[a + 1][k]
  <2>1. FilledBy(Prods, nullable, sets, sets[a + 1], a, it)
    BY <1>2, SetFacts DEF ClosedBy
  <2>2. Has(sets[a + 1], Item(p, 0, a))
    BY <1>9, <2>1 DEF FilledBy
  <2>3. CASE a = b
    BY <1>7, <1>9, <2>1, <2>3 DEF FilledBy
  <2>4. CASE a # b
    <3>1. a < b
      BY <1>2, <1>6, <2>4
    <3>2. PICK j \in DOMAIN sets[b + 1] : sets[b + 1][j] = last
      BY <1>8, <2>2 DEF Has
    <3>3. FilledBy(Prods, nullable, sets, sets[b + 1], b, last)
      BY <1>2, <3>2, SetFacts DEF ClosedBy
    <3>4. last.dot = Len(Prods[last.prod].rhs) /\ last.origin = a /\ last.prod = p
      BY DEF Item, len
    <3> HIDE DEF last, a, b
    <3> QED
      BY <1>9, <3>1, <3>3, <3>4 DEF FilledBy
  <2> QED
    BY <2>3, <2>4
<1>11. t[1] = lhs /\ t[2] = a /\ t[3] = b
  OBVIOUS
<1> HIDE DEF t, a, b, lhs, last
<1>12. Charted(t)
  BY <1>6, <1>7, <1>9, <1>11 DEF Charted
<1> QED
  BY <1>12 DEF t, a, b, lhs, len

(* The chart is closed after every token. *)
WholeChart ==
  /\ NullableKnown /\ ClosedSets
  /\ Len(sets) = Len(toks) + 1

LEMMA WholeIsChart == ASSUME IInv, WholeChart PROVE ChartTo(Len(toks))
BY ReadWords DEF WholeChart, ChartTo

(* What the chart knows of is a solution of the productions. *)
LEMMA RefusesNothing ==
  ASSUME IInv, WholeChart, \A k \in DOMAIN LastSet : ~ Derives(LastSet[k])
  PROVE  ~ InLanguage(Read)
<1> DEFINE N == Len(toks)
           whole == << Start, 0, N >>
           E == {t \in AllSpans(Prods, Read) : Charted(t) /\ t # whole}
<1>1. /\ Words(Prods, Read) /\ Len(Read) = N /\ DOMAIN Read = 1 .. N /\ N \in Nat
      /\ ChartTo(N) /\ job \in Jobs
  BY ReadWords, WholeIsChart DEF IInv, TypeOK
<1>2. ASSUME NEW t \in Grow(Prods, Read, E) PROVE t \in E
  <2>1. t \in AllSpans(Prods, Read)
    BY <1>1, GrowInside
  <2>2. ASSUME NEW m \in DOMAIN Read, t = << Read[m], m - 1, m >>
        PROVE  t \in E
    <3>1. Charted(t)
      BY <1>1, <2>2, TokenCharted
    <3>2. m \in DOMAIN toks /\ Read[m] = toks[m].sym
      BY ReadWords
    <3>3. Read[m] # Start
      BY <1>1, <3>2, TokenTypes, JobsAssumption DEF IInv, TypeOK, IsJob, IsGrammar, Terminals, Start
    <3> QED
      BY <2>1, <2>2, <3>1, <3>3
  <2>3. ASSUME NEW p \in DOMAIN Prods, NEW x \in 0 .. Len(Read), NEW y \in 0 .. Len(Read),
               NEW c \in [0 .. Len(Prods[p].rhs) -> 0 .. Len(Read)],
               Cut(E, Prods[p].rhs, Len(Prods[p].rhs), c, x, y),
               t = << Prods[p].lhs, x, y >>
        PROVE  t \in E
    <3> DEFINE len == Len(Prods[p].rhs)
    <3>1. \A i \in 1 .. len : Charted(<< Prods[p].rhs[i], c[i - 1], c[i] >>)
      BY <2>3 DEF Cut
    <3>2. c \in [0 .. len -> 0 .. N]
      BY <1>1
    <3>3. Charted(<< Prods[p].lhs, c[0], c[len] >>)
      BY <1>1, <3>1, <3>2, ProductionCharted
    <3>4. c[0] = x /\ c[len] = y
      BY <2>3 DEF Cut
    <3>5. t # whole
      <4> SUFFICES ASSUME Prods[p].lhs = Start, x = 0, y = N PROVE FALSE
        BY <2>3
      <4>1. ClosedBy(Prods, Start, nullable, toks, sets, 0 + 1) /\ 0 + 1 = 1
        BY <1>1, SetFacts
      <4>2. Has(sets[0 + 1], Item(p, 0, 0))
        BY <4>1 DEF ClosedBy, StartedBy
      <4>3. len \in 0 .. len
        BY <1>1 DEF Words
      <4>4. Has(sets[N + 1], Item(p, len, 0))
        BY <1>1, <3>1, <3>2, <3>4, <4>2, <4>3, ItemWalks
      <4>5. PICK j \in DOMAIN sets[N + 1] : sets[N + 1][j] = Item(p, len, 0)
        BY <4>4 DEF Has
      <4>6. sets[N + 1] = LastSet
        BY DEF WholeChart, LastSet
      <4>7. Derives(Item(p, len, 0))
        BY DEF Derives, Lhs, Complete, Rhs, Item
      <4> QED
        BY <4>5, <4>6, <4>7
    <3> QED
      BY <2>1, <2>3, <3>3, <3>4, <3>5
  <2> HIDE DEF E
  <2>4. \/ \E m \in DOMAIN Read : t = << Read[m], m - 1, m >>
        \/ \E p \in DOMAIN Prods : \E x, y \in 0 .. Len(Read) :
             \E c \in [0 .. Len(Prods[p].rhs) -> 0 .. Len(Read)] :
               /\ Cut(E, Prods[p].rhs, Len(Prods[p].rhs), c, x, y)
               /\ t = << Prods[p].lhs, x, y >>
    BY <1>1, <1>2, GrowHas
  <2> QED
    BY <2>2, <2>3, <2>4
<1>3. whole \notin E
  OBVIOUS
<1> HIDE DEF E
<1>4. DerivedSpans(Prods, Read) \subseteq E
  BY <1>1, <1>2, DerivedIsLeast
<1> QED
  BY <1>1, <1>3, <1>4 DEF InLanguage, DerivesWord

(***************************************************************************)
(* Soundness and completeness of the parser, for every grammar and input:  *)
(* it accepts exactly what is read to its end as tokens that the start     *)
(* symbol derives, as long as the chart has room.                          *)
(***************************************************************************)
THEOREM ParserExact == Spec => []AcceptsExactly
<1>1. Init => Chart /\ Refusal
  BY DEF Init, Chart, Refusal, ClosedSets
<1>2. Init => Sound /\ Verdict
  BY DEF Init, Sound, SoundFor, Verdict
<1>3. IInv /\ Chart /\ Refusal /\ Sound /\ Verdict /\ [Next]_vars
        => Chart' /\ Refusal' /\ Sound' /\ Verdict'
  BY ChartStep, RefusalStep, SoundStep, VerdictStep
<1>4. IInv /\ Chart /\ Refusal /\ Sound /\ Verdict => AcceptsExactly
  <2> SUFFICES ASSUME IInv, Chart, Refusal, Verdict PROVE AcceptsExactly
    BY DEF Sound
  <2>1. ASSUME result = "accepted" PROVE pos = Size /\ InLanguage(Read)
    <3>1. pos = Size /\ Spans(Start, 0, Len(toks))
      BY <2>1 DEF Verdict
    <3>2. 0 \in 0 .. Len(toks) /\ Len(toks) \in 0 .. Len(toks) /\ Len(Read) = Len(toks)
      BY ReadWords
    <3>3. << Start, 0, Len(toks) >> \in DerivedSpans(Prods, Read)
      BY <3>1, <3>2, SpansDerived
    <3> QED
      BY <3>1, <3>2, <3>3 DEF InLanguage, DerivesWord
  <2>2. ASSUME result = "parse", ~ Full PROVE pos = Size /\ ~ InLanguage(Read)
    <3>1. Refused
      BY <2>2 DEF Refusal
    <3>2. WholeChart
      BY <3>1 DEF Chart, Refused, WholeChart
    <3> QED
      BY <3>1, <3>2, RefusesNothing DEF Refused
  <2> QED
    BY <2>1, <2>2 DEF AcceptsExactly
<1> QED
  BY InvHolds, <1>1, <1>2, <1>3, <1>4, PTL DEF Spec

-----------------------------------------------------------------------------
(* Room for three tokens. *)

(* An item comes into a set once. *)
Once(S) == \A i, j \in DOMAIN S : S[i] = S[j] => i = j

(* What the closed sets hold together, at most, of d positions. *)
Room(d, n) == d * (n * (n + 1))

Crowd ==
  /\ Once(cur)
  /\ 2 * (count - Len(cur)) <= Room(Dotted, Len(sets))
  /\ result = "overflow" => pc = "done" /\ Len(toks) > 3

(* A set has each dotted position from each set up to it once at most. *)
LEMMA SetIsSmall ==
  ASSUME IInv, Once(cur)
  PROVE  Len(cur) <= Dotted * (Len(sets) + 1)
<1> DEFINE D == DottedSet
           N == 0 .. Len(sets)
           f == [k \in 1 .. Len(cur) |-> << << cur[k].prod, cur[k].dot >>, cur[k].origin >>]
<1>1. Len(cur) \in Nat /\ DOMAIN cur = 1 .. Len(cur) /\ Len(sets) \in Nat /\ job \in Jobs
      /\ \A k \in DOMAIN cur : cur[k] \in Items /\ cur[k].origin <= Len(sets)
  BY DEF IInv, TypeOK
<1>2. IsFiniteSet(D) /\ Cardinality(D) = Dotted /\ Dotted \in Nat
  BY <1>1, DottedIsFinite, DottedIsNat
<1>3. IsFiniteSet(N) /\ Cardinality(N) = Len(sets) + 1
  BY <1>1, FS_Interval
<1>4. ASSUME NEW k \in 1 .. Len(cur) PROVE f[k] \in D \X N
  <2>1. cur[k].prod \in DOMAIN Prods /\ cur[k].dot \in 0 .. Len(Prods[cur[k].prod].rhs)
        /\ cur[k].origin \in N
    BY <1>1, GrammarFacts DEF Items, Rhs, Prods
  <2> QED
    BY <2>1 DEF DottedSet
<1>5. ASSUME NEW i \in 1 .. Len(cur), NEW j \in 1 .. Len(cur), f[i] = f[j] PROVE i = j
  <2>1. cur[i].prod = cur[j].prod /\ cur[i].dot = cur[j].dot /\ cur[i].origin = cur[j].origin
    BY <1>5
  <2>2. cur[i] = cur[j]
    BY <1>1, <2>1 DEF Items
  <2> QED
    BY <1>1, <2>2 DEF Once
<1> HIDE DEF D, N
<1>6. f \in Injection(1 .. Len(cur), D \X N)
  <2>1. f \in [1 .. Len(cur) -> D \X N]
    BY <1>4
  <2> QED
    BY <2>1, <1>5 DEF Injection, IsInjective
<1> HIDE DEF f
<1>7. IsFiniteSet(D \X N) /\ Cardinality(D \X N) = Cardinality(D) * Cardinality(N)
  BY <1>2, <1>3, FS_Product
<1>8. Cardinality(1 .. Len(cur)) = Len(cur)
  <2> DEFINE n == Len(cur)
  <2>1. n \in Nat
    BY <1>1
  <2> HIDE DEF n
  <2>2. Cardinality(1 .. n) = IF 1 > n THEN 0 ELSE n - 1 + 1
    BY <2>1, FS_Interval
  <2>3. Cardinality(1 .. n) = n
    BY <2>1, <2>2
  <2> QED
    BY <2>3 DEF n
<1>9. Cardinality(1 .. Len(cur)) <= Cardinality(D \X N)
  <2> DEFINE P == D \X N
  <2> HIDE DEF P
  <2> QED
    BY <1>6, <1>7, FS_Injection DEF P
<1> QED
  BY <1>2, <1>3, <1>7, <1>8, <1>9

(* One set more. *)
LEMMA RoomForOneMore ==
  ASSUME NEW d \in Nat, NEW n \in Nat, NEW x \in Int, NEW y \in Nat,
         2 * x <= Room(d, n), y <= d * (n + 1)
  PROVE  2 * (x + y) <= Room(d, n + 1)
<1>1. Room(d, n + 1) = Room(d, n) + 2 * (d * (n + 1))
  BY DEF Room
<1>2. Room(d, n) \in Int /\ d * (n + 1) \in Int
  BY DEF Room
<1> QED
  BY <1>1, <1>2

(* With three tokens it is not all taken. *)
LEMMA RoomForThree ==
  ASSUME NEW d \in Nat, NEW n \in 0 .. 3, NEW s \in Nat, n <= s, NEW c \in Nat,
         2 * c <= Room(d, n + 1)
  PROVE  c < (d + 16) * (s + 2) * 2
<1>1. (d + 16) * (s + 2) >= (d + 16) * (n + 2)
  <2>1. s - n \in Nat /\ (d + 16) * (s - n) >= 0
    OBVIOUS
  <2> QED
    BY <2>1
<1>2. Room(d, n + 1) < (d + 16) * (n + 2) * 4
  <2>1. n = 0 \/ n = 1 \/ n = 2 \/ n = 3
    OBVIOUS
  <2> QED
    BY <2>1 DEF Room
<1>3. Room(d, n + 1) \in Int /\ (d + 16) * (n + 2) \in Int /\ (d + 16) * (s + 2) \in Int
  BY DEF Room
<1> QED
  BY <1>1, <1>2, <1>3

LEMMA CrowdFacts ==
  ASSUME IInv, Crowd
  PROVE  /\ Dotted \in Nat /\ Len(sets) \in Nat /\ Len(cur) \in Nat /\ count \in Nat
         /\ Len(cur) <= Dotted * (Len(sets) + 1)
         /\ 2 * count <= Room(Dotted, Len(sets) + 1)
<1>1. /\ Dotted \in Nat /\ Len(sets) \in Nat /\ Len(cur) \in Nat /\ count \in Nat
  BY DottedIsNat, ItemCapIsNat DEF IInv, TypeOK
<1>2. Len(cur) <= Dotted * (Len(sets) + 1)
  BY SetIsSmall DEF Crowd
<1>3. 2 * ((count - Len(cur)) + Len(cur)) <= Room(Dotted, Len(sets) + 1)
  <2> DEFINE x == count - Len(cur)
             y == Len(cur)
             n == Len(sets)
             d == Dotted
  <2>1. x \in Int /\ y \in Nat /\ n \in Nat /\ d \in Nat
    BY <1>1
  <2>2. 2 * x <= Room(d, n) /\ y <= d * (n + 1)
    BY <1>2 DEF Crowd
  <2> HIDE DEF x, y, n, d
  <2>3. 2 * (x + y) <= Room(d, n + 1)
    BY <2>1, <2>2, RoomForOneMore
  <2> QED
    BY <2>3 DEF x, y, n, d
<1>4. (count - Len(cur)) + Len(cur) = count
  BY <1>1
<1> QED
  BY <1>1, <1>2, <1>3, <1>4

LEMMA OverflowIsLate ==
  ASSUME IInv, Crowd, Full, pc \in {"close", "scan"}
  PROVE  Len(toks) > 3
<1>1. Size \in Nat /\ Len(toks) \in Nat /\ Len(sets) = Len(toks) /\ Len(toks) <= Size
  BY TokenTypes, ReadWords DEF IInv, TokensFit
<1>2. count >= (Dotted + 16) * (Size + 2) * 2
  BY DEF Full, ItemCap
<1> HIDE DEF Size, Dotted
<1>3. ASSUME Len(toks) <= 3 PROVE FALSE
  <2>1. Len(sets) \in 0 .. 3 /\ Len(sets) <= Size
    BY <1>1, <1>3
  <2>2. Dotted \in Nat /\ count \in Nat /\ 2 * count <= Room(Dotted, Len(sets) + 1)
    BY CrowdFacts
  <2>3. count < (Dotted + 16) * (Size + 2) * 2
    BY <1>1, <2>1, <2>2, RoomForThree
  <2>4. (Dotted + 16) * (Size + 2) * 2 \in Int
    BY <1>1, <2>2
  <2> QED
    BY <1>2, <2>2, <2>3, <2>4
<1> QED
  BY <1>1, <1>3

LEMMA PushCrowd ==
  ASSUME IInv, Crowd, NEW it, ~ InCur(it), Push(it), pc # "done"
  PROVE  Crowd'
<1>1. /\ cur' = Append(cur, it) /\ count' = count + 1
      /\ UNCHANGED << job, sets, toks, result, pc >>
  BY DEF Push
<1>2. /\ cur \in Seq(Items) /\ Len(cur) \in Nat /\ DOMAIN cur = 1 .. Len(cur) /\ count \in Nat
  BY ItemCapIsNat DEF IInv, TypeOK
<1>3. /\ DOMAIN cur' = 1 .. Len(cur) + 1 /\ cur'[Len(cur) + 1] = it /\ Len(cur') = Len(cur) + 1
      /\ \A k \in 1 .. Len(cur) : cur'[k] = cur[k]
  BY <1>1, <1>2
<1>4. Once(cur')
  <2> SUFFICES ASSUME NEW i \in DOMAIN cur', NEW j \in DOMAIN cur', cur'[i] = cur'[j] PROVE i = j
    BY DEF Once
  <2>1. \A k \in 1 .. Len(cur) : cur'[k] # it
    BY <1>2, <1>3 DEF InCur
  <2>2. (i = Len(cur) + 1 \/ i \in 1 .. Len(cur)) /\ (j = Len(cur) + 1 \/ j \in 1 .. Len(cur))
    BY <1>2, <1>3
  <2> QED
    BY <1>2, <1>3, <2>1, <2>2 DEF Once, Crowd
<1>5. count' - Len(cur') = count - Len(cur)
  BY <1>1, <1>2, <1>3
<1>6. Dotted' = Dotted
  BY <1>1 DEF Dotted, Prods
<1> QED
  BY <1>1, <1>4, <1>5, <1>6 DEF Crowd

LEMMA CloseDoneCrowd ==
  ASSUME IInv, Crowd, CloseDone
  PROVE  Crowd'
<1>1. /\ sets' = Append(sets, cur) /\ cur' = << >> /\ pc # "done"
      /\ UNCHANGED << job, count, toks, result >>
  BY DEF CloseDone
<1>2. Len(sets') = Len(sets) + 1 /\ Len(cur') = 0 /\ Once(cur')
  BY <1>1 DEF IInv, TypeOK, Once
<1>3. count - 0 = count /\ 2 * count <= Room(Dotted, Len(sets) + 1)
  BY CrowdFacts
<1>4. Dotted' = Dotted
  BY <1>1 DEF Dotted, Prods
<1>5. 2 * (count' - Len(cur')) <= Room(Dotted', Len(sets'))
  BY <1>1, <1>2, <1>3, <1>4
<1> QED
  BY <1>1, <1>2, <1>5 DEF Crowd

LEMMA CrowdStep == IInv /\ Crowd /\ [Next]_vars => Crowd'
<1> SUFFICES ASSUME IInv, Crowd, [Next]_vars PROVE Crowd'
  OBVIOUS
<1>1. CASE PushStart \/ Predict \/ SkipNullable \/ CompleteItem \/ ScanItem
  <2>1. pc # "done" /\ \E it : ~ InCur(it) /\ Push(it)
    BY <1>1 DEF PushStart, Predict, SkipNullable, CompleteItem, ScanItem, Closing,
       StartMissing, PredictMissing, SkipMissing, CompleteMissing, ScanMissing
  <2> QED
    BY <2>1, PushCrowd
<1>2. CASE CloseOverflow \/ ScanOverflow
  <2>1. /\ Full /\ pc \in {"close", "scan"} /\ pc' = "done"
        /\ UNCHANGED << job, sets, cur, count, toks >>
    BY <1>2 DEF CloseOverflow, ScanOverflow, Closing, End
  <2>2. Len(toks) > 3
    BY <2>1, OverflowIsLate
  <2>3. Dotted' = Dotted
    BY <2>1 DEF Dotted, Prods
  <2> QED
    BY <2>1, <2>2, <2>3 DEF Crowd
<1>3. CASE \/ MarkNullable \/ NullableDone \/ StartDone \/ NextItem \/ SkipIgnored \/ LexToken
           \/ LexError \/ Accept \/ RejectAtEnd \/ ScanDone \/ UNCHANGED vars
  <2>1. /\ UNCHANGED << job, sets, cur, count >>
        /\ \/ UNCHANGED << result, pc, toks >>
           \/ pc # "done" /\ UNCHANGED result
           \/ result' # "overflow"
    BY <1>3 DEF MarkNullable, NullableDone, StartDone, NextItem, SkipIgnored, LexToken,
                LexError, Accept, RejectAtEnd, ScanDone, End, Closing, Lexing, vars
  <2>2. Dotted' = Dotted
    BY <2>1 DEF Dotted, Prods
  <2> QED
    BY <2>1, <2>2 DEF Crowd
<1> QED
  BY <1>1, <1>2, <1>3, CloseDoneCrowd DEF Next, Step, Terminated

(***************************************************************************)
(* Three tokens always fit, whatever the grammar: no set holds an item     *)
(* twice, so that set n holds at most n + 1 times the dotted positions,    *)
(* and a chart that is full has read more than three.                      *)
(***************************************************************************)
THEOREM ThreeTokensFit == Spec => []ShortInputsFit
<1>1. Init => Crowd
  <2> SUFFICES ASSUME Init PROVE Crowd
    OBVIOUS
  <2>1. Dotted \in Nat
    BY DottedIsNat DEF Init
  <2> HIDE DEF Dotted
  <2> QED
    BY <2>1 DEF Init, Crowd, Once, Room
<1>2. IInv /\ Crowd /\ [Next]_vars => Crowd'
  BY CrowdStep
<1>3. Crowd => ShortInputsFit
  BY DEF Crowd, ShortInputsFit
<1> QED
  BY InvHolds, <1>1, <1>2, <1>3, PTL DEF Spec

-----------------------------------------------------------------------------
(***************************************************************************)
(* What can follow.  A word that goes on from the first n tokens is walked *)
(* through by the items of the chart up to set n, so that its next         *)
(* terminal is awaited there; and an item that awaits a terminal has been  *)
(* asked for by what goes on to a word of the language.                    *)
(***************************************************************************)

(* Word w begins with the first n tokens. *)
Begins(n, w) == n <= Len(w) /\ \A i \in 1 .. n : w[i] = Read[i]

(* Terminal t can follow n tokens: some word of the language goes on with it. *)
CanFollow(n, t) ==
  \E w \in Seq(Terminals) : n < Len(w) /\ Begins(n, w) /\ w[n + 1] = t /\ InLanguage(w)

(* Set number n of the chart awaits it. *)
ExpectedAt(n, t) == \E k \in DOMAIN sets[n + 1] : Wants(sets[n + 1][k], t)

(* Nobody asks for symbol s in set number a. *)
Unasked(s, a) ==
  /\ \A k \in DOMAIN sets[a + 1] : ~ Awaits(Prods, sets[a + 1][k], s)
  /\ ~ (s = Start /\ a = 0)

(* Terminals in a row are a word as Derivations has it. *)
LEMMA TextIsWord ==
  ASSUME IInv, NEW w \in Seq(Terminals)
  PROVE  Words(Prods, w) /\ Len(w) \in Nat /\ DOMAIN w = 1 .. Len(w)
<1>1. job \in Jobs
  BY DEF IInv, TypeOK
<1>2. Len(w) \in Nat /\ DOMAIN w = 1 .. Len(w)
  OBVIOUS
<1> QED
  BY <1>1, <1>2, GrammarFacts DEF Words, Prods

(* Of a production that goes beyond set n, the first symbol that does is asked for. *)
LEMMA CrossingAsks ==
  ASSUME IInv, NEW n, ChartTo(n), NEW p \in DOMAIN Prods,
         NEW c \in [0 .. Len(Prods[p].rhs) -> Nat],
         c[0] <= n, n < c[Len(Prods[p].rhs)],
         \A i \in 1 .. Len(Prods[p].rhs) :
           /\ c[i - 1] <= c[i]
           /\ c[i] <= n => Charted(<< Prods[p].rhs[i], c[i - 1], c[i] >>)
           /\ c[i - 1] <= n /\ n < c[i] => Unasked(Prods[p].rhs[i], c[i - 1])
  PROVE  Unasked(Prods[p].lhs, c[0])
<1> DEFINE len == Len(Prods[p].rhs)
           rhs == Prods[p].rhs
           a == c[0]
<1>1. len \in Nat /\ n \in Nat /\ a \in 0 .. n /\ a \in Nat
  BY ReadWords DEF Words, ChartTo
<1> SUFFICES ASSUME ~ Unasked(Prods[p].lhs, c[0]) PROVE FALSE
  OBVIOUS
<1>2. Has(sets[a + 1], Item(p, 0, a))
  <2>0. ClosedBy(Prods, Start, nullable, toks, sets, a + 1) /\ (a + 1) - 1 = a
    BY <1>1, SetFacts
  <2>1. CASE Prods[p].lhs = Start /\ a = 0
    BY <2>0, <2>1 DEF ClosedBy, StartedBy
  <2>2. ASSUME NEW k \in DOMAIN sets[a + 1], Awaits(Prods, sets[a + 1][k], Prods[p].lhs)
        PROVE  Has(sets[a + 1], Item(p, 0, a))
    <3>1. FilledBy(Prods, nullable, sets, sets[a + 1], a, sets[a + 1][k])
      BY <2>0 DEF ClosedBy
    <3> QED
      BY <2>2, <3>1 DEF FilledBy
  <2> QED
    BY <2>1, <2>2 DEF Unasked
<1>3. PICK k \in 1 .. len : c[k - 1] <= n /\ n < c[k]
  <2> SUFFICES ASSUME \A k \in 1 .. len : c[k - 1] <= n => ~ (n < c[k]) PROVE FALSE
    OBVIOUS
  <2> DEFINE G == {k \in 0 .. len : c[k] <= n}
  <2>1. 0 \in G
    BY <1>1
  <2>2. ASSUME NEW k \in 0 .. len - 1, k \in G PROVE k + 1 \in G
    <3>1. k + 1 \in 1 .. len /\ (k + 1) - 1 = k /\ k + 1 \in 0 .. len
      BY <1>1
    <3>2. c[k + 1] \in Nat /\ c[k] <= n
      BY <2>2, <3>1
    <3>3. ~ (n < c[k + 1])
      BY <3>1, <3>2
    <3> QED
      BY <1>1, <3>1, <3>2, <3>3
  <2> HIDE DEF G
  <2>3. 0 .. len \subseteq G
    BY <1>1, <2>1, <2>2, AllUpTo
  <2>4. len \in G
    BY <1>1, <2>3
  <2>5. c[len] <= n /\ c[len] \in Nat
    BY <1>1, <2>4 DEF G
  <2> QED
    BY <1>1, <2>5
<1> DEFINE m == k - 1
           d == [i \in 0 .. m |-> c[i]]
<1>4. m \in 0 .. len /\ m # len /\ m \in Nat /\ m + 1 = k
  BY <1>1
<1>5. d \in [0 .. m -> Nat] /\ \A i \in 1 .. m : d[i - 1] <= d[i]
  <2>1. \A i \in 0 .. m : i \in 0 .. len /\ d[i] = c[i]
    BY <1>4, <1>1
  <2>2. \A i \in 1 .. m : i \in 1 .. len /\ i \in 0 .. m /\ i - 1 \in 0 .. m
    BY <1>4, <1>1
  <2> QED
    BY <2>1, <2>2
<1>6. d[0] = a /\ d[m] = c[m]
  BY <1>4
<1>7. c[m] <= n
  BY <1>3
<1> HIDE DEF m
<1>8. \A i \in 0 .. m : d[i] <= d[m]
  <2> HIDE DEF d
  <2> QED
    BY <1>4, <1>5, Rising
<1>9. d \in [0 .. m -> 0 .. n]
  <2>1. d = [i \in 0 .. m |-> d[i]]
    OBVIOUS
  <2> HIDE DEF d
  <2>2. ASSUME NEW i \in 0 .. m PROVE d[i] \in 0 .. n
    <3>1. d[i] \in Nat /\ d[m] \in Nat
      BY <1>4, <1>5
    <3>2. d[i] <= d[m]
      BY <1>8
    <3> QED
      BY <1>1, <1>6, <1>7, <3>1, <3>2
  <2>3. [i \in 0 .. m |-> d[i]] \in [0 .. m -> 0 .. n]
    BY <2>2
  <2> QED
    BY <2>1, <2>3
<1>10. \A i \in 1 .. m : Charted(<< rhs[i], d[i - 1], d[i] >>)
  <2> TAKE i \in 1 .. m
  <2>1. i \in 1 .. len /\ i \in 0 .. m /\ i - 1 \in 0 .. m
    BY <1>1, <1>4
  <2>2. d[i] = c[i] /\ d[i - 1] = c[i - 1]
    BY <2>1
  <2>3. d[i] <= n
    BY <1>9, <2>1, <1>1
  <2> QED
    BY <2>1, <2>2, <2>3
<1> HIDE DEF d
<1>11. Has(sets[d[m] + 1], Item(p, m, a))
  BY <1>1, <1>2, <1>4, <1>6, <1>9, <1>10, ItemWalks
<1>12. PICK j \in DOMAIN sets[c[m] + 1] : sets[c[m] + 1][j] = Item(p, m, a)
  BY <1>6, <1>11 DEF Has
<1>13. Awaits(Prods, Item(p, m, a), rhs[k])
  BY <1>4 DEF Awaits, Item
<1>14. Unasked(rhs[k], c[m])
  BY <1>3 DEF m
<1> QED
  BY <1>12, <1>13, <1>14 DEF Unasked

(***************************************************************************)
(* What a solution of the productions of a longer word can be said to be,  *)
(* when its next terminal is not expected: what ends before it is charted, *)
(* and of what goes beyond nothing is asked for.                           *)
(***************************************************************************)
Passed(n, t) ==
  /\ t[2] <= t[3]
  /\ t[3] <= n => Charted(t)
  /\ t[2] <= n /\ n < t[3] => Unasked(t[1], t[2])

(* A production of what has passed so has passed so as well. *)
LEMMA ProductionPassed ==
  ASSUME IInv, NEW n, ChartTo(n), NEW p \in DOMAIN Prods,
         NEW c \in [0 .. Len(Prods[p].rhs) -> Nat],
         \A i \in 1 .. Len(Prods[p].rhs) : Passed(n, << Prods[p].rhs[i], c[i - 1], c[i] >>)
  PROVE  Passed(n, << Prods[p].lhs, c[0], c[Len(Prods[p].rhs)] >>)
<1> DEFINE len == Len(Prods[p].rhs)
           rhs == Prods[p].rhs
           lhs == Prods[p].lhs
           t == << lhs, c[0], c[len] >>
<1>1. len \in Nat /\ n \in Nat /\ 0 \in 0 .. len /\ len \in 0 .. len
  BY ReadWords DEF Words, ChartTo
<1>2. \A i \in 1 .. len :
        /\ c[i - 1] <= c[i]
        /\ c[i] <= n => Charted(<< rhs[i], c[i - 1], c[i] >>)
        /\ c[i - 1] <= n /\ n < c[i] => Unasked(rhs[i], c[i - 1])
  BY DEF Passed
<1>3. \A i \in 0 .. len : c[0] <= c[i] /\ c[i] <= c[len]
  <2> HIDE DEF len
  <2>1. c \in [0 .. len -> Nat]
    BY DEF len
  <2> QED
    BY <1>1, <1>2, <2>1, Rising
<1>4. t[1] = lhs /\ t[2] = c[0] /\ t[3] = c[len]
  OBVIOUS
<1>5. c[0] \in Nat /\ c[len] \in Nat
  BY <1>1
<1>6. ASSUME c[len] <= n PROVE Charted(t)
  <2>1. \A i \in 0 .. len : c[i] \in 0 .. n
    <3> TAKE i \in 0 .. len
    <3>1. c[i] \in Nat /\ c[i] <= c[len]
      BY <1>3
    <3> QED
      BY <3>1, <1>1, <1>5, <1>6
  <2>2. c \in [0 .. len -> 0 .. n]
    BY <2>1
  <2>3. \A i \in 1 .. len : Charted(<< rhs[i], c[i - 1], c[i] >>)
    <3> TAKE i \in 1 .. len
    <3>1. c[i] <= n
      BY <2>1, <1>1
    <3> QED
      BY <1>2, <3>1
  <2> QED
    BY <2>2, <2>3, ProductionCharted
<1>7. ASSUME c[0] <= n, n < c[len] PROVE Unasked(lhs, c[0])
  BY <1>2, <1>7, CrossingAsks
<1>8. c[0] <= c[len]
  BY <1>1, <1>3
<1> HIDE DEF t
<1>9. Passed(n, t)
  BY <1>4, <1>6, <1>7, <1>8 DEF Passed
<1> QED
  BY <1>9 DEF t

(* Completeness of the prediction: what can follow n tokens, set n awaits. *)
LEMMA WhatFollowsIsExpected ==
  ASSUME IInv, NEW n, ChartTo(n), NEW t \in Terminals, CanFollow(n, t)
  PROVE  ExpectedAt(n, t)
<1> SUFFICES ASSUME ~ ExpectedAt(n, t) PROVE FALSE
  OBVIOUS
<1>1. PICK w \in Seq(Terminals) : n < Len(w) /\ Begins(n, w) /\ w[n + 1] = t /\ InLanguage(w)
  BY DEF CanFollow
<1> DEFINE E == {x \in AllSpans(Prods, w) : Passed(n, x)}
           whole == << Start, 0, Len(w) >>
<1>2. /\ Words(Prods, w) /\ Len(w) \in Nat /\ DOMAIN w = 1 .. Len(w)
      /\ n \in Nat /\ job \in Jobs /\ n \in 0 .. n
  BY TextIsWord, ReadWords DEF ChartTo, IInv, TypeOK
<1>3. ASSUME NEW m \in DOMAIN w PROVE Passed(n, << w[m], m - 1, m >>)
  <2> DEFINE x == << w[m], m - 1, m >>
  <2>1. x[1] = w[m] /\ x[2] = m - 1 /\ x[3] = m /\ m \in Nat /\ m - 1 \in Nat
    BY <1>2
  <2>2. ASSUME m <= n PROVE Charted(x)
    <3>1. m \in 1 .. n
      BY <1>2, <2>2
    <3>2. w[m] = Read[m]
      BY <1>1, <3>1 DEF Begins
    <3> QED
      BY <3>1, <3>2, TokenCharted
  <2>3. ASSUME m - 1 <= n, n < m PROVE Unasked(w[m], m - 1)
    <3>1. m = n + 1 /\ m - 1 = n
      BY <1>2, <2>1, <2>3
    <3>2. \A k \in DOMAIN sets[n + 1] : ~ Awaits(Prods, sets[n + 1][k], t)
      BY DEF ExpectedAt, Wants, Awaits, Complete, Rhs
    <3>3. t # Start
      BY <1>2, JobsAssumption DEF IsJob, IsGrammar, Terminals, Start
    <3> QED
      BY <1>1, <3>1, <3>2, <3>3 DEF Unasked
  <2>4. m - 1 <= m
    BY <2>1
  <2> HIDE DEF x
  <2>5. Passed(n, x)
    BY <2>1, <2>2, <2>3, <2>4 DEF Passed
  <2> QED
    BY <2>5 DEF x
<1>4. ASSUME NEW x \in Grow(Prods, w, E) PROVE x \in E
  <2>1. x \in AllSpans(Prods, w)
    BY <1>2, GrowInside
  <2>2. CASE \E m \in DOMAIN w : x = << w[m], m - 1, m >>
    BY <2>1, <2>2, <1>3
  <2>3. ASSUME NEW p \in DOMAIN Prods, NEW a \in 0 .. Len(w), NEW b \in 0 .. Len(w),
               NEW c \in [0 .. Len(Prods[p].rhs) -> 0 .. Len(w)],
               Cut(E, Prods[p].rhs, Len(Prods[p].rhs), c, a, b),
               x = << Prods[p].lhs, a, b >>
        PROVE  x \in E
    <3> DEFINE len == Len(Prods[p].rhs)
    <3>1. \A i \in 1 .. len : Passed(n, << Prods[p].rhs[i], c[i - 1], c[i] >>)
      BY <2>3 DEF Cut
    <3>2. c \in [0 .. len -> Nat]
      BY <1>2
    <3>3. Passed(n, << Prods[p].lhs, c[0], c[len] >>)
      BY <3>1, <3>2, ProductionPassed
    <3>4. c[0] = a /\ c[len] = b
      BY <2>3 DEF Cut
    <3> QED
      BY <2>1, <2>3, <3>3, <3>4
  <2> HIDE DEF E
  <2>4. \/ \E m \in DOMAIN w : x = << w[m], m - 1, m >>
        \/ \E p \in DOMAIN Prods : \E a, b \in 0 .. Len(w) :
             \E c \in [0 .. Len(Prods[p].rhs) -> 0 .. Len(w)] :
               /\ Cut(E, Prods[p].rhs, Len(Prods[p].rhs), c, a, b)
               /\ x = << Prods[p].lhs, a, b >>
    BY <1>2, <1>4, GrowHas
  <2> QED
    BY <2>2, <2>3, <2>4
<1>5. whole \notin E
  <2>1. whole[1] = Start /\ whole[2] = 0 /\ whole[3] = Len(w) /\ 0 <= n
    BY <1>2
  <2>2. ~ Unasked(Start, 0)
    BY DEF Unasked
  <2> HIDE DEF whole
  <2>3. ~ Passed(n, whole)
    BY <1>1, <2>1, <2>2 DEF Passed
  <2> QED
    BY <2>3
<1> HIDE DEF E
<1>6. DerivedSpans(Prods, w) \subseteq E
  BY <1>2, <1>4, DerivedIsLeast
<1> QED
  BY <1>1, <1>5, <1>6 DEF InLanguage, DerivesWord

-----------------------------------------------------------------------------
(* What derives of one word derives of another that has it. *)

(* Two words are the same up to h. *)
Agree(x, y, h) == h \in 0 .. Len(x) /\ h <= Len(y) /\ \A i \in 1 .. h : y[i] = x[i]

(* The first m symbols of rhs cover a .. b of a word. *)
Covers(w, rhs, m, a, b) ==
  \E c \in [0 .. m -> 0 .. Len(w)] : Cut(DerivedSpans(Prods, w), rhs, m, c, a, b)

(* What derives lies in the word, and ends where it starts or later. *)
LEMMA DerivedRises ==
  ASSUME NEW prods, NEW w, Words(prods, w), NEW t \in DerivedSpans(prods, w)
  PROVE  t[2] \in 0 .. Len(w) /\ t[3] \in 0 .. Len(w) /\ t[2] <= t[3]
<1> DEFINE n == Len(w)
           Up(x) == x[2] \in 0 .. n /\ x[3] \in 0 .. n /\ x[2] <= x[3]
           E == {x \in AllSpans(prods, w) : Up(x)}
<1>1. n \in Nat /\ DOMAIN w = 1 .. n /\ \A p \in DOMAIN prods : Len(prods[p].rhs) \in Nat
  BY DEF Words
<1>2. ASSUME NEW x \in Grow(prods, w, E) PROVE x \in E
  <2>1. x \in AllSpans(prods, w)
    BY GrowInside
  <2>2. ASSUME NEW m \in DOMAIN w, x = << w[m], m - 1, m >> PROVE x \in E
    <3>1. x[2] = m - 1 /\ x[3] = m /\ m - 1 \in 0 .. n /\ m \in 0 .. n /\ m - 1 <= m
      BY <1>1, <2>2
    <3> QED
      BY <2>1, <3>1
  <2>3. ASSUME NEW p \in DOMAIN prods, NEW a \in 0 .. n, NEW b \in 0 .. n,
               NEW c \in [0 .. Len(prods[p].rhs) -> 0 .. n],
               Cut(E, prods[p].rhs, Len(prods[p].rhs), c, a, b), x = << prods[p].lhs, a, b >>
        PROVE  x \in E
    <3> DEFINE len == Len(prods[p].rhs)
    <3>1. ASSUME NEW i \in 1 .. len PROVE c[i - 1] <= c[i]
      <4> DEFINE s == << prods[p].rhs[i], c[i - 1], c[i] >>
      <4>1. s[2] = c[i - 1] /\ s[3] = c[i] /\ s \in E
        BY <2>3 DEF Cut
      <4> HIDE DEF s
      <4> QED
        BY <4>1
    <3>2. len \in Nat /\ len \in 0 .. len
      BY <1>1
    <3>3. c \in [0 .. len -> Nat]
      BY <1>1
    <3>4. c[0] = a /\ c[len] = b
      BY <2>3 DEF Cut
    <3> HIDE DEF len
    <3>5. c[0] <= c[len]
      BY <3>1, <3>2, <3>3, Rising
    <3>6. x[2] = a /\ x[3] = b
      BY <2>3
    <3> QED
      BY <2>1, <3>4, <3>5, <3>6
  <2> HIDE DEF E
  <2>4. \/ \E m \in DOMAIN w : x = << w[m], m - 1, m >>
        \/ \E p \in DOMAIN prods : \E a, b \in 0 .. n :
             \E c \in [0 .. Len(prods[p].rhs) -> 0 .. n] :
               /\ Cut(E, prods[p].rhs, Len(prods[p].rhs), c, a, b)
               /\ x = << prods[p].lhs, a, b >>
    BY <1>2, GrowHas
  <2> QED
    BY <2>2, <2>3, <2>4
<1>3. DerivedSpans(prods, w) \subseteq E
  <2> HIDE DEF E
  <2> QED
    BY <1>2, DerivedIsLeast
<1> QED
  BY <1>3

(* What derives depends on what lies in the span only. *)
LEMMA DerivedMoves ==
  ASSUME NEW prods, NEW x, NEW y, Words(prods, x), Words(prods, y),
         NEW h \in 0 .. Len(x), NEW d \in Nat, h + d <= Len(y),
         \A i \in 1 .. h : y[i + d] = x[i],
         NEW s, NEW a, NEW b, << s, a, b >> \in DerivedSpans(prods, x), b <= h
  PROVE  << s, a + d, b + d >> \in DerivedSpans(prods, y)
<1> DEFINE D == DerivedSpans(prods, x)
           F == DerivedSpans(prods, y)
           Moves(t) == t[3] <= h => << t[1], t[2] + d, t[3] + d >> \in F
           E == {t \in D : Moves(t)}
           n == Len(x)
<1>1. /\ n \in Nat /\ DOMAIN x = 1 .. n /\ h \in Nat
      /\ Len(y) \in Nat /\ DOMAIN y = 1 .. Len(y)
      /\ \A p \in DOMAIN prods : Len(prods[p].rhs) \in Nat
  BY DEF Words
<1>2. Grow(prods, x, D) = D /\ Grow(prods, y, F) = F
  BY DerivedIsSolution
<1>3. \A t \in D : t[2] \in 0 .. n /\ t[3] \in 0 .. n /\ t[2] <= t[3]
  BY DerivedRises
<1> HIDE DEF D, F
<1>4. Grow(prods, x, E) \subseteq D
  <2>1. E \subseteq D
    OBVIOUS
  <2> HIDE DEF E
  <2> QED
    BY <1>2, <2>1, GrowMonotonic
<1>5. ASSUME NEW t \in Grow(prods, x, E) PROVE t \in E
  <2>1. t \in D
    BY <1>4
  <2>2. ASSUME NEW m \in DOMAIN x, t = << x[m], m - 1, m >> PROVE t \in E
    <3>1. t[1] = x[m] /\ t[2] = m - 1 /\ t[3] = m /\ m \in Nat /\ 1 <= m
      BY <1>1, <2>2
    <3>2. ASSUME m <= h PROVE << t[1], t[2] + d, t[3] + d >> \in F
      <4>1. m + d \in DOMAIN y /\ y[m + d] = x[m] /\ (m - 1) + d = (m + d) - 1
        BY <1>1, <3>1, <3>2
      <4>2. << y[m + d], (m + d) - 1, m + d >> \in Grow(prods, y, F)
        BY <4>1, GrowHas
      <4> QED
        BY <1>2, <3>1, <4>1, <4>2
    <3> QED
      BY <2>1, <3>1, <3>2
  <2>3. ASSUME NEW p \in DOMAIN prods, NEW u \in 0 .. n, NEW v \in 0 .. n,
               NEW c \in [0 .. Len(prods[p].rhs) -> 0 .. n],
               Cut(E, prods[p].rhs, Len(prods[p].rhs), c, u, v), t = << prods[p].lhs, u, v >>
        PROVE  t \in E
    <3> DEFINE len == Len(prods[p].rhs)
               e == [i \in 0 .. len |-> c[i] + d]
    <3>1. t[1] = prods[p].lhs /\ t[2] = u /\ t[3] = v
      BY <2>3
    <3>2. len \in Nat /\ 0 \in 0 .. len /\ len \in 0 .. len /\ c[0] = u /\ c[len] = v
      BY <1>1, <2>3 DEF Cut
    <3>3. ASSUME v <= h PROVE << prods[p].lhs, u + d, v + d >> \in F
      <4>1. ASSUME NEW i \in 1 .. len
            PROVE  /\ i \in 0 .. len /\ i - 1 \in 0 .. len
                   /\ c[i - 1] <= c[i]
                   /\ c[i] <= h => << prods[p].rhs[i], c[i - 1] + d, c[i] + d >> \in F
        <5> DEFINE q == << prods[p].rhs[i], c[i - 1], c[i] >>
        <5>1. q[1] = prods[p].rhs[i] /\ q[2] = c[i - 1] /\ q[3] = c[i] /\ q \in E
          BY <2>3 DEF Cut
        <5> HIDE DEF q
        <5>2. q \in D /\ Moves(q)
          BY <5>1
        <5>3. c[i - 1] <= c[i]
          BY <5>1, <5>2, <1>3
        <5>4. i \in 0 .. len /\ i - 1 \in 0 .. len
          BY <3>2
        <5> QED
          BY <5>1, <5>2, <5>3, <5>4
      <4>2. c \in [0 .. len -> Nat]
        BY <1>1
      <4>3. ASSUME NEW i \in 0 .. len PROVE c[i] \in Nat /\ c[i] <= h
        <5> HIDE DEF len
        <5>1. c[i] \in Nat /\ c[i] <= c[len] /\ c[len] \in Nat
          BY <3>2, <4>1, <4>2, Rising
        <5> QED
          BY <5>1, <3>2, <3>3, <1>1
      <4>4. ASSUME NEW i \in 0 .. len PROVE c[i] + d \in 0 .. Len(y)
        BY <4>3, <1>1
      <4>5. e \in [0 .. len -> 0 .. Len(y)]
        BY <4>4
      <4>6. \A i \in 1 .. len : << prods[p].rhs[i], e[i - 1], e[i] >> \in F
        BY <4>1, <4>3
      <4>7. e[0] = u + d /\ e[len] = v + d
        BY <3>2
      <4>8. u + d \in 0 .. Len(y) /\ v + d \in 0 .. Len(y)
        BY <3>2, <4>4
      <4> HIDE DEF e
      <4>9. Cut(F, prods[p].rhs, len, e, u + d, v + d)
        BY <4>6, <4>7 DEF Cut
      <4>10. << prods[p].lhs, u + d, v + d >> \in Grow(prods, y, F)
        BY <4>5, <4>8, <4>9, GrowHas
      <4> QED
        BY <1>2, <4>10
    <3> HIDE DEF len, e
    <3> QED
      BY <2>1, <3>1, <3>3
  <2> HIDE DEF E
  <2>4. \/ \E m \in DOMAIN x : t = << x[m], m - 1, m >>
        \/ \E p \in DOMAIN prods : \E u, v \in 0 .. n :
             \E c \in [0 .. Len(prods[p].rhs) -> 0 .. n] :
               /\ Cut(E, prods[p].rhs, Len(prods[p].rhs), c, u, v)
               /\ t = << prods[p].lhs, u, v >>
    BY <1>5, GrowHas
  <2> QED
    BY <2>2, <2>3, <2>4
<1>6. D \subseteq E
  <2> HIDE DEF E
  <2> QED
    BY <1>5, DerivedIsLeast DEF D
<1> DEFINE z == << s, a, b >>
<1>7. z[1] = s /\ z[2] = a /\ z[3] = b
  OBVIOUS
<1>8. z \in E
  BY <1>6 DEF D
<1> HIDE DEF z
<1>9. Moves(z)
  BY <1>8
<1> QED
  BY <1>7, <1>9 DEF F

(* A word that is the same up to there is covered in the same way. *)
LEMMA CoversMoves ==
  ASSUME IInv, NEW x, NEW y, Words(Prods, x), Words(Prods, y), NEW h, Agree(x, y, h),
         NEW rhs, NEW m \in Nat, NEW a, NEW b, b <= h, Covers(x, rhs, m, a, b)
  PROVE  Covers(y, rhs, m, a, b) /\ a \in 0 .. Len(y) /\ a <= b
<1>1. PICK c \in [0 .. m -> 0 .. Len(x)] : Cut(DerivedSpans(Prods, x), rhs, m, c, a, b)
  BY DEF Covers
<1>2. h \in 0 .. Len(x) /\ h \in Nat /\ h <= Len(y) /\ Len(x) \in Nat /\ Len(y) \in Nat
      /\ \A i \in 1 .. h : y[i] = x[i]
  BY DEF Agree, Words
<1>3. ASSUME NEW i \in 1 .. m PROVE c[i - 1] <= c[i] /\ << rhs[i], c[i - 1], c[i] >> \in DerivedSpans(Prods, x)
  <2> DEFINE q == << rhs[i], c[i - 1], c[i] >>
  <2>1. q[2] = c[i - 1] /\ q[3] = c[i] /\ q \in DerivedSpans(Prods, x)
    BY <1>1 DEF Cut
  <2> HIDE DEF q
  <2>2. c[i - 1] <= c[i]
    BY <2>1, DerivedRises
  <2> QED
    BY <2>1, <2>2 DEF q
<1>4. c \in [0 .. m -> Nat] /\ c[m] = b /\ c[0] = a
  BY <1>1, <1>2 DEF Cut
<1>5. ASSUME NEW i \in 0 .. m PROVE c[i] \in 0 .. Len(y) /\ c[i] <= h
  <2>1. \A k \in 1 .. m : c[k - 1] <= c[k]
    BY <1>3
  <2>2. c[i] <= c[m]
    BY <2>1, <1>4, Rising
  <2>3. c[i] \in Nat /\ c[m] \in Nat
    BY <1>4
  <2> QED
    BY <1>2, <1>4, <2>2, <2>3
<1>6. ASSUME NEW i \in 1 .. m PROVE << rhs[i], c[i - 1], c[i] >> \in DerivedSpans(Prods, y)
  <2>1. h + 0 <= Len(y) /\ \A k \in 1 .. h : y[k + 0] = x[k]
    BY <1>2
  <2>2. i \in 0 .. m /\ i - 1 \in 0 .. m
    OBVIOUS
  <2>3. << rhs[i], c[i - 1], c[i] >> \in DerivedSpans(Prods, x) /\ c[i] <= h
    BY <1>3, <1>5, <2>2
  <2>4. << rhs[i], c[i - 1] + 0, c[i] + 0 >> \in DerivedSpans(Prods, y)
    <3> DEFINE u == c[i - 1]
               v == c[i]
    <3> HIDE DEF u, v
    <3>1. << rhs[i], u, v >> \in DerivedSpans(Prods, x) /\ v <= h
      BY <2>3 DEF u, v
    <3>2. << rhs[i], u + 0, v + 0 >> \in DerivedSpans(Prods, y)
      BY <1>2, <2>1, <3>1, DerivedMoves
    <3> QED
      BY <3>2 DEF u, v
  <2>5. c[i - 1] + 0 = c[i - 1] /\ c[i] + 0 = c[i]
    BY <1>4, <2>2
  <2> QED
    BY <2>4, <2>5
<1>7. c = [i \in 0 .. m |-> c[i]]
  OBVIOUS
<1>8. c \in [0 .. m -> 0 .. Len(y)]
  BY <1>5, <1>7
<1>9. Covers(y, rhs, m, a, b)
  BY <1>4, <1>6, <1>8 DEF Covers, Cut
<1>10. a \in 0 .. Len(y)
  BY <1>4, <1>5
<1>11. a <= b
  <2>1. \A k \in 1 .. m : c[k - 1] <= c[k]
    BY <1>3
  <2>2. m \in 0 .. m
    OBVIOUS
  <2>3. c[0] <= c[m]
    BY <2>1, <2>2, <1>4, Rising
  <2> QED
    BY <2>3, <1>4
<1> QED
  BY <1>9, <1>10, <1>11

(* One more symbol. *)
LEMMA CoversOn ==
  ASSUME NEW w, NEW rhs, NEW m \in Nat, NEW a, NEW b, NEW d \in 0 .. Len(w),
         Covers(w, rhs, m, a, b), << rhs[m + 1], b, d >> \in DerivedSpans(Prods, w)
  PROVE  Covers(w, rhs, m + 1, a, d)
<1>1. PICK c \in [0 .. m -> 0 .. Len(w)] : Cut(DerivedSpans(Prods, w), rhs, m, c, a, b)
  BY DEF Covers
<1> DEFINE D == DerivedSpans(Prods, w)
           e == [i \in 0 .. m + 1 |-> IF i = m + 1 THEN d ELSE c[i]]
<1>2. e \in [0 .. m + 1 -> 0 .. Len(w)]
  BY <1>1
<1>3. e[0] = a /\ e[m + 1] = d
  BY <1>1 DEF Cut
<1>4. ASSUME NEW i \in 1 .. m + 1 PROVE << rhs[i], e[i - 1], e[i] >> \in D
  <2>1. CASE i = m + 1
    <3>1. e[i - 1] = b /\ e[i] = d
      BY <2>1, <1>1 DEF Cut
    <3> QED
      BY <2>1, <3>1
  <2>2. CASE i # m + 1
    <3>1. i \in 1 .. m /\ e[i - 1] = c[i - 1] /\ e[i] = c[i]
      BY <2>2
    <3> QED
      BY <3>1, <1>1 DEF Cut
  <2> QED
    BY <2>1, <2>2
<1> HIDE DEF e
<1> QED
  BY <1>2, <1>3, <1>4 DEF Covers, Cut

(* A production that is covered to its end derives its nonterminal. *)
LEMMA CoversAll ==
  ASSUME NEW w, Words(Prods, w), NEW p \in DOMAIN Prods, NEW a \in 0 .. Len(w), NEW b \in 0 .. Len(w),
         Covers(w, Prods[p].rhs, Len(Prods[p].rhs), a, b)
  PROVE  << Prods[p].lhs, a, b >> \in DerivedSpans(Prods, w)
<1>1. << Prods[p].lhs, a, b >> \in Grow(Prods, w, DerivedSpans(Prods, w))
  BY GrowHas DEF Covers
<1> QED
  BY <1>1, DerivedIsSolution

-----------------------------------------------------------------------------
(* What an item awaits completes. *)

(* Every symbol of the productions derives a word of terminals. *)
Completable ==
  \A p \in DOMAIN Prods : \A k \in DOMAIN Prods[p].rhs :
    \E u \in Seq(Terminals) : DerivesWord(Prods, Prods[p].rhs[k], u)

(* Word z goes on from word y. *)
GoesOn(y, z) == Agree(y, z, Len(y))

(* A word is followed by one that the next symbol derives. *)
LEMMA WordGrows ==
  ASSUME IInv, NEW z \in Seq(Terminals), NEW u \in Seq(Terminals),
         NEW rhs, NEW k \in Nat, NEW a,
         Covers(z, rhs, k, a, Len(z)), DerivesWord(Prods, rhs[k + 1], u)
  PROVE  /\ z \o u \in Seq(Terminals) /\ GoesOn(z, z \o u)
         /\ Covers(z \o u, rhs, k + 1, a, Len(z \o u))
<1> DEFINE v == z \o u
           s == rhs[k + 1]
<1>1. /\ v \in Seq(Terminals)
      /\ Len(v) = Len(z) + Len(u)
      /\ \A i \in 1 .. Len(z) : v[i] = z[i]
      /\ \A i \in 1 .. Len(u) : v[i + Len(z)] = u[i]
  OBVIOUS
<1>2. Words(Prods, z) /\ Words(Prods, u) /\ Words(Prods, v)
      /\ Len(z) \in Nat /\ Len(u) \in Nat /\ Len(v) \in Nat
  BY <1>1, TextIsWord
<1> HIDE DEF v
<1>3. Agree(z, v, Len(z))
  BY <1>1, <1>2 DEF Agree
<1>4. Covers(v, rhs, k, a, Len(z))
  BY <1>2, <1>3, CoversMoves
<1>5. << s, 0 + Len(z), Len(u) + Len(z) >> \in DerivedSpans(Prods, v)
  <2>1. << s, 0, Len(u) >> \in DerivedSpans(Prods, u)
    BY DEF DerivesWord
  <2>2. Len(u) \in 0 .. Len(u) /\ Len(u) + Len(z) <= Len(v) /\ Len(u) <= Len(u)
    BY <1>1, <1>2
  <2> HIDE DEF s
  <2> QED
    BY <1>1, <1>2, <2>1, <2>2, DerivedMoves
<1>6. 0 + Len(z) = Len(z) /\ Len(u) + Len(z) = Len(v) /\ Len(v) \in 0 .. Len(v)
  BY <1>1, <1>2
<1>7. << s, Len(z), Len(v) >> \in DerivedSpans(Prods, v)
  BY <1>5, <1>6
<1>8. Covers(v, rhs, k + 1, a, Len(v))
  BY <1>4, <1>6, <1>7, CoversOn
<1> QED
  BY <1>1, <1>3, <1>8 DEF GoesOn, v

LEMMA GoesOnFurther ==
  ASSUME NEW x \in Seq(Terminals), NEW y \in Seq(Terminals), NEW z \in Seq(Terminals),
         GoesOn(x, y), GoesOn(y, z)
  PROVE  GoesOn(x, z)
<1>1. Len(x) \in Nat /\ Len(y) \in Nat /\ Len(z) \in Nat
  OBVIOUS
<1> QED
  BY <1>1 DEF GoesOn, Agree

(* What is begun of a production can be finished. *)
LEMMA RestDerives ==
  ASSUME IInv, Completable, NEW p \in DOMAIN Prods, NEW y \in Seq(Terminals),
         NEW m \in 0 .. Len(Prods[p].rhs), NEW a \in 0 .. Len(y),
         Covers(y, Prods[p].rhs, m, a, Len(y))
  PROVE  \E z \in Seq(Terminals) :
           GoesOn(y, z) /\ << Prods[p].lhs, a, Len(z) >> \in DerivedSpans(Prods, z)
<1> DEFINE rhs == Prods[p].rhs
           len == Len(rhs)
           Reached(k) == \E z \in Seq(Terminals) : GoesOn(y, z) /\ Covers(z, rhs, k, a, Len(z))
           G == {k \in 0 .. len - m : Reached(m + k)}
<1>1. len \in Nat /\ m \in Nat /\ len - m \in Nat /\ DOMAIN rhs = 1 .. len /\ Len(y) \in Nat
  BY ReadWords, GrammarFacts DEF Words, IInv, TypeOK, Prods
<1>2. 0 \in G
  <2>1. GoesOn(y, y) /\ m + 0 = m
    BY <1>1 DEF GoesOn, Agree
  <2>2. Reached(m)
    BY <2>1
  <2> QED
    BY <1>1, <2>1, <2>2
<1>3. ASSUME NEW k \in 0 .. (len - m) - 1, k \in G PROVE k + 1 \in G
  <2>1. m + k \in Nat /\ (m + k) + 1 \in DOMAIN rhs /\ (m + k) + 1 = m + (k + 1) /\ k + 1 \in 0 .. len - m
    BY <1>1
  <2>2. PICK z \in Seq(Terminals) : GoesOn(y, z) /\ Covers(z, rhs, m + k, a, Len(z))
    BY <1>3
  <2>3. PICK u \in Seq(Terminals) : DerivesWord(Prods, rhs[(m + k) + 1], u)
    BY <2>1 DEF Completable
  <2> HIDE DEF rhs
  <2>4. /\ z \o u \in Seq(Terminals) /\ GoesOn(z, z \o u)
        /\ Covers(z \o u, rhs, (m + k) + 1, a, Len(z \o u))
    BY <2>1, <2>2, <2>3, WordGrows
  <2>5. GoesOn(y, z \o u)
    BY <2>2, <2>4, GoesOnFurther
  <2>6. Reached((m + k) + 1)
    BY <2>4, <2>5
  <2> QED
    BY <2>1, <2>6
<1> HIDE DEF G, Reached
<1>4. 0 .. len - m \subseteq G
  BY <1>1, <1>2, <1>3, AllUpTo
<1>5. m + (len - m) = len /\ len - m \in 0 .. len - m
  BY <1>1
<1>6. Reached(len)
  BY <1>4, <1>5 DEF G
<1>7. PICK z \in Seq(Terminals) : GoesOn(y, z) /\ Covers(z, rhs, len, a, Len(z))
  BY <1>6 DEF Reached
<1>8. Words(Prods, z) /\ a \in 0 .. Len(z) /\ Len(z) \in 0 .. Len(z)
  BY <1>1, <1>7, TextIsWord DEF GoesOn, Agree
<1>9. << Prods[p].lhs, a, Len(z) >> \in DerivedSpans(Prods, z)
  BY <1>7, <1>8, CoversAll
<1> QED
  BY <1>7, <1>9

(* Word y goes on to a word of the language. *)
Completes(y) == \E w \in Seq(Terminals) : GoesOn(y, w) /\ InLanguage(w)

(***************************************************************************)
(* An item's nonterminal was asked for where it starts: a word that begins *)
(* as the tokens up to there, and has the nonterminal after them, goes on  *)
(* to a word of the language.                                              *)
(***************************************************************************)
Asks(prods, start, terms, ts, it) ==
  \A y \in Seq(terms) :
    /\ it.origin <= Len(y)
    /\ \A i \in 1 .. it.origin : y[i] = ts[i].sym
    /\ << prods[it.prod].lhs, it.origin, Len(y) >> \in DerivedSpans(prods, y)
    => \E w \in Seq(terms) : GoesOn(y, w) /\ DerivesWord(prods, start, w)

Asked(it) == Asks(Prods, Start, Terminals, toks, it)

(* What completes a longer word completes this one. *)
LEMMA CompletesBefore ==
  ASSUME NEW x \in Seq(Terminals), NEW y \in Seq(Terminals), GoesOn(x, y), Completes(y)
  PROVE  Completes(x)
BY GoesOnFurther DEF Completes

(* What an item has before its dot. *)
LEMMA ItemCovers ==
  ASSUME IInv, NEW it \in Items, NEW n \in 0 .. Len(toks), Reads(Extended, it, n)
  PROVE  Covers(Read, Rhs(it), it.dot, it.origin, n)
<1> DEFINE rhs == Rhs(it)
           m == it.dot
<1>1. PICK c \in [0 .. m -> Nat] :
        /\ c[0] = it.origin /\ c[m] = n
        /\ \A k \in 1 .. m : << rhs[k], c[k - 1], c[k] >> \in Extended
  BY DEF Reads, ReadsBy, Rhs
<1>2. m \in Nat /\ c[m] <= Len(toks) /\ Len(Read) = Len(toks)
  BY <1>1, ReadWords DEF Items
<1> HIDE DEF rhs, m
<1>3. /\ c \in [0 .. m -> 0 .. Len(toks)]
      /\ Cut(DerivedSpans(Prods, Read), rhs, m, c, c[0], c[m])
  BY <1>1, <1>2, CutInside
<1>4. Covers(Read, rhs, m, it.origin, n)
  BY <1>1, <1>2, <1>3 DEF Covers
<1> QED
  BY <1>4 DEF rhs, m

(* What an item awaits, after what it has, completes. *)
LEMMA ItemGoesOn ==
  ASSUME IInv, Completable, NEW it \in Items, NEW n \in 0 .. Len(toks), Reads(Extended, it, n),
         Asked(it), ~ Complete(it),
         NEW y \in Seq(Terminals), Begins(n, y),
         << Rhs(it)[it.dot + 1], n, Len(y) >> \in DerivedSpans(Prods, y)
  PROVE  Completes(y)
<1> DEFINE p == it.prod
           rhs == Prods[p].rhs
           m == it.dot
           o == it.origin
<1>1. p \in DOMAIN Prods /\ m \in Nat /\ m \in 0 .. Len(rhs) /\ m # Len(rhs) /\ Len(rhs) \in Nat
  BY ReadWords DEF Items, Complete, Rhs, Words
<1>2. /\ Words(Prods, Read) /\ Words(Prods, y) /\ Len(y) \in Nat
      /\ Len(Read) = Len(toks) /\ Len(toks) \in Nat /\ n \in Nat
  BY ReadWords, TextIsWord
<1>3. Agree(Read, y, n) /\ n <= n
  BY <1>2 DEF Agree, Begins
<1>4. Covers(Read, rhs, m, o, n)
  BY ItemCovers DEF Rhs
<1>5. << rhs[m + 1], n, Len(y) >> \in DerivedSpans(Prods, y)
  BY DEF Rhs
<1> HIDE DEF p, m, o, rhs
<1>6. Covers(y, rhs, m, o, n) /\ o \in 0 .. Len(y) /\ o <= n
  BY <1>1, <1>2, <1>3, <1>4, CoversMoves
<1>7. Len(y) \in 0 .. Len(y) /\ m + 1 \in 0 .. Len(rhs)
  BY <1>1, <1>2
<1>8. Covers(y, rhs, m + 1, o, Len(y))
  BY <1>1, <1>5, <1>6, <1>7, CoversOn
<1>9. PICK z \in Seq(Terminals) :
        GoesOn(y, z) /\ << Prods[p].lhs, o, Len(z) >> \in DerivedSpans(Prods, z)
  BY <1>1, <1>6, <1>7, <1>8, RestDerives DEF rhs
<1>10. o <= Len(z) /\ \A i \in 1 .. o : z[i] = toks[i].sym
  <2>1. Len(z) \in Nat /\ Len(y) <= Len(z) /\ \A i \in 1 .. Len(y) : z[i] = y[i]
    BY <1>9 DEF GoesOn, Agree
  <2>2. n <= Len(y) /\ \A i \in 1 .. n : y[i] = Read[i] /\ Read[i] = toks[i].sym
    BY ReadWords DEF Begins
  <2> QED
    BY <1>2, <1>6, <2>1, <2>2
<1>11. Completes(z)
  BY <1>9, <1>10 DEF Asked, Asks, p, o, Completes, InLanguage
<1> QED
  BY <1>9, <1>11, CompletesBefore

(* A terminal that set n waits for can follow. *)
LEMMA WhatIsExpectedFollows ==
  ASSUME IInv, Completable, NEW n \in 0 .. Len(toks), NEW t \in Terminals,
         NEW it \in Items, Reads(Extended, it, n), Asked(it), Wants(it, t)
  PROVE  CanFollow(n, t)
<1> DEFINE y == [i \in 1 .. n + 1 |-> IF i = n + 1 THEN t ELSE Read[i]]
<1>1. Len(toks) \in Nat /\ n \in Nat
  BY ReadWords
<1>2. \A i \in 1 .. n : Read[i] \in Terminals
  <2>1. \A i \in 1 .. n : i \in DOMAIN toks
    BY <1>1, ReadWords
  <2>2. \A i \in DOMAIN toks : Read[i] = toks[i].sym /\ toks[i].sym \in Terminals
    BY ReadWords, TokenTypes DEF IInv
  <2> QED
    BY <2>1, <2>2
<1>3. \A i \in 1 .. n + 1 : y[i] \in Terminals
  BY <1>1, <1>2
<1>4. y \in Seq(Terminals) /\ Len(y) = n + 1 /\ y[n + 1] = t /\ \A i \in 1 .. n : y[i] = Read[i]
  BY <1>1, <1>3
<1> HIDE DEF y
<1>5. Begins(n, y)
  BY <1>1, <1>4 DEF Begins
<1>6. << t, n, Len(y) >> \in DerivedSpans(Prods, y)
  <2>1. Words(Prods, y) /\ n + 1 \in DOMAIN y /\ (n + 1) - 1 = n
    BY <1>1, <1>4, TextIsWord
  <2>2. << y[n + 1], (n + 1) - 1, n + 1 >> \in Grow(Prods, y, DerivedSpans(Prods, y))
    BY <2>1, GrowHas
  <2> QED
    BY <1>4, <2>1, <2>2, DerivedIsSolution
<1>7. Completes(y)
  BY <1>4, <1>5, <1>6, ItemGoesOn DEF Wants
<1>8. PICK w \in Seq(Terminals) : GoesOn(y, w) /\ InLanguage(w)
  BY <1>7 DEF Completes
<1>9. /\ Len(w) \in Nat /\ n + 1 <= Len(w)
      /\ \A i \in 1 .. n + 1 : w[i] = y[i]
  BY <1>4, <1>8 DEF GoesOn, Agree
<1>10. n < Len(w) /\ Begins(n, w) /\ w[n + 1] = t
  BY <1>1, <1>4, <1>9 DEF Begins
<1> QED
  BY <1>8, <1>10 DEF CanFollow

(***************************************************************************)
(* What all items of the chart have in common, if every symbol derives     *)
(* something; the set being filled is empty while the lexer is at work.    *)
(***************************************************************************)
AllAsked ==
  /\ \A n \in DOMAIN sets : \A k \in DOMAIN sets[n] : Asked(sets[n][k])
  /\ \A k \in DOMAIN cur : Asked(cur[k])

Contexts ==
  /\ pc = "lex" => cur = << >>
  /\ Completable => AllAsked

(* The dot makes no difference. *)
LEMMA AskedOn ==
  ASSUME NEW it, Asked(it), NEW jt, jt.prod = it.prod, jt.origin = it.origin
  PROVE  Asked(jt)
BY DEF Asked, Asks

(* A push of an item that was asked for. *)
LEMMA PushAsked ==
  ASSUME IInv, AllAsked, NEW it, Push(it), Asked(it)
  PROVE  AllAsked'
<1>1. UNCHANGED << job, toks, sets >> /\ cur' = Append(cur, it)
  BY DEF Push
<1>2. /\ Len(cur) \in Nat
      /\ DOMAIN cur' = 1 .. Len(cur) + 1
      /\ cur'[Len(cur) + 1] = it
      /\ \A k \in 1 .. Len(cur) : cur'[k] = cur[k] /\ k \in DOMAIN cur
  BY <1>1 DEF IInv, TypeOK
<1>3. \A k \in DOMAIN cur' : Asked(cur'[k])
  BY <1>2 DEF AllAsked
<1>4. Prods' = Prods /\ Start' = Start /\ Terminals' = Terminals
  BY <1>1, Kept
<1> QED
  BY <1>1, <1>3, <1>4 DEF AllAsked, Asked

LEMMA CompletableKept == UNCHANGED job => (Completable' <=> Completable)
BY DEF Completable, Prods, Terminals

(* A first item of the start symbol. *)
LEMMA StartAsked ==
  ASSUME IInv, Completable, NEW p \in DOMAIN Prods, Prods[p].lhs = Start
  PROVE  Asked(Item(p, 0, 0))
<1> SUFFICES ASSUME NEW y \in Seq(Terminals),
                    << Start, 0, Len(y) >> \in DerivedSpans(Prods, y)
             PROVE  \E w \in Seq(Terminals) : GoesOn(y, w) /\ DerivesWord(Prods, Start, w)
  BY DEF Asked, Asks, Item
<1>1. GoesOn(y, y)
  BY TextIsWord DEF GoesOn, Agree
<1> QED
  BY <1>1 DEF DerivesWord

(* A first item of a nonterminal that an item here awaits. *)
LEMMA PredictedAsked ==
  ASSUME IInv, Completable, SoundFor(Extended), AllAsked,
         Closing, NEW p \in DOMAIN Prods, Wants(Here, Prods[p].lhs)
  PROVE  Asked(Item(p, 0, Len(sets)))
<1> DEFINE n == Len(sets)
<1>1. ix \in DOMAIN cur /\ n \in Nat /\ n = Len(toks) /\ n \in 0 .. Len(toks)
  BY ReadWords DEF Closing, IInv, TypeOK, TokensFit
<1>2. Here \in Items /\ Reads(Extended, Here, n) /\ Asked(Here)
  BY <1>1, HereFacts DEF SoundFor, Here, AllAsked
<1> HIDE DEF n
<1>3. ASSUME NEW y \in Seq(Terminals), n <= Len(y), \A i \in 1 .. n : y[i] = toks[i].sym,
             << Prods[p].lhs, n, Len(y) >> \in DerivedSpans(Prods, y)
      PROVE  Completes(y)
  <2>1. Begins(n, y)
    BY <1>1, <1>3, ReadWords DEF Begins
  <2>2. ~ Complete(Here) /\ Rhs(Here)[Here.dot + 1] = Prods[p].lhs
    BY DEF Wants
  <2> QED
    BY <1>1, <1>2, <1>3, <2>1, <2>2, ItemGoesOn
<1>4. Item(p, 0, n).prod = p /\ Item(p, 0, n).origin = n
  BY DEF Item
<1>5. Asked(Item(p, 0, n))
  BY <1>3, <1>4 DEF Asked, Asks, Completes, InLanguage
<1> QED
  BY <1>5 DEF n

(* Whatever is pushed was asked for. *)
LEMMA PushContexts ==
  ASSUME IInv, SoundFor(Extended), Completable, AllAsked,
         PushStart \/ Predict \/ SkipNullable \/ CompleteItem \/ ScanItem
  PROVE  AllAsked'
<1>1. CASE PushStart
  <2>1. PICK p \in DOMAIN Prods : Prods[p].lhs = Start /\ Push(Item(p, 0, 0))
    BY <1>1 DEF PushStart, StartMissing
  <2> QED
    BY <2>1, StartAsked, PushAsked
<1>2. CASE Predict
  <2>1. PICK p \in DOMAIN Prods : Wants(Here, Prods[p].lhs) /\ Push(Item(p, 0, Len(sets)))
    BY <1>2 DEF Predict, PredictMissing
  <2>2. Closing
    BY <1>2 DEF Predict
  <2> QED
    BY <2>1, <2>2, PredictedAsked, PushAsked
<1>3. CASE SkipNullable
  <2>1. Push(Advance(Here)) /\ Closing
    BY <1>3 DEF SkipNullable
  <2>2. ix \in DOMAIN cur
    BY <2>1 DEF Closing, IInv, TypeOK
  <2>3. Asked(Here)
    BY <2>2 DEF AllAsked, Here
  <2>4. Advance(Here).prod = Here.prod /\ Advance(Here).origin = Here.origin
    BY <1>3, <2>1, HereFacts, NextItemOf DEF SkipNullable, SkipMissing, IInv, TypeOK
  <2> QED
    BY <2>1, <2>3, <2>4, AskedOn, PushAsked
<1>4. CASE CompleteItem
  <2>1. PICK j \in 1 .. ParentEnd : CompleteMissing(j) /\ Push(Advance(OriginSet[j]))
    BY <1>4 DEF CompleteItem
  <2>2. Closing /\ job \in Jobs /\ Len(sets) \in Nat
    BY <1>4 DEF CompleteItem, IInv, TypeOK
  <2>3. j \in DOMAIN OriginSet /\ OriginSet[j] \in Items /\ Here.origin \in 0 .. Len(sets)
    BY <2>1, <2>2, HereFacts
  <2>4. Asked(OriginSet[j])
    <3>1. CASE Here.origin = Len(sets)
      BY <2>3, <3>1 DEF OriginSet, AllAsked
    <3>2. CASE Here.origin # Len(sets)
      <4>1. OriginSet = sets[Here.origin + 1] /\ Here.origin + 1 \in DOMAIN sets
        BY <3>2, <2>2, <2>3 DEF OriginSet, IInv, TypeOK
      <4> QED
        BY <4>1, <2>3 DEF AllAsked
    <3> QED
      BY <3>1, <3>2
  <2>5. ~ Complete(OriginSet[j])
    BY <2>1 DEF CompleteMissing, Wants
  <2>6. Advance(OriginSet[j]).prod = OriginSet[j].prod /\ Advance(OriginSet[j]).origin = OriginSet[j].origin
    BY <2>2, <2>3, <2>5, NextItemOf
  <2> QED
    BY <2>1, <2>4, <2>6, AskedOn, PushAsked
<1>5. CASE ScanItem
  <2>1. PICK j \in DOMAIN LastSet : ScanMissing(j) /\ Push(Advance(LastSet[j])) /\ pc = "scan"
    BY <1>5 DEF ScanItem
  <2>2. Len(sets) \in DOMAIN sets /\ LastSet[j] \in Items /\ job \in Jobs
    BY <2>1, LastSetFacts DEF IInv, TypeOK
  <2>3. Asked(LastSet[j])
    BY <2>1, <2>2 DEF AllAsked, LastSet
  <2>4. ~ Complete(LastSet[j])
    BY <2>1 DEF ScanMissing, Wants
  <2>5. Advance(LastSet[j]).prod = LastSet[j].prod /\ Advance(LastSet[j]).origin = LastSet[j].origin
    BY <2>2, <2>4, NextItemOf
  <2> QED
    BY <2>1, <2>3, <2>5, AskedOn, PushAsked
<1> QED
  BY <1>1, <1>2, <1>3, <1>4, <1>5

LEMMA CloseDoneContexts ==
  ASSUME IInv, AllAsked, CloseDone
  PROVE  AllAsked'
<1>1. UNCHANGED << job, toks >> /\ sets' = Append(sets, cur) /\ cur' = << >>
  BY DEF CloseDone
<1>2. /\ Len(sets) \in Nat /\ DOMAIN sets' = 1 .. Len(sets) + 1
      /\ sets'[Len(sets) + 1] = cur
      /\ \A n \in 1 .. Len(sets) : sets'[n] = sets[n] /\ n \in DOMAIN sets
  BY <1>1 DEF IInv, TypeOK
<1>3. \A n \in DOMAIN sets' : \A k \in DOMAIN sets'[n] : Asked(sets'[n][k])
  <2> TAKE n \in DOMAIN sets'
  <2>1. CASE n = Len(sets) + 1
    BY <1>2, <2>1 DEF AllAsked
  <2>2. CASE n # Len(sets) + 1
    BY <1>2, <2>2 DEF AllAsked
  <2> QED
    BY <2>1, <2>2
<1>4. Prods' = Prods /\ Start' = Start /\ Terminals' = Terminals
  BY <1>1, Kept
<1> QED
  BY <1>1, <1>3, <1>4 DEF AllAsked, Asked

(* The tokens that an item depends on are there already. *)
LEMMA LexTokenContexts ==
  ASSUME IInv, Contexts, Completable, LexToken
  PROVE  AllAsked'
<1>1. UNCHANGED << job, sets, cur >> /\ pc = "lex" /\ \E x : toks' = Append(toks, x)
  BY DEF LexToken, Lexing
<1>2. Len(toks) \in Nat /\ Len(sets) \in Nat /\ Len(sets) = Len(toks) + 1 /\ cur = << >>
      /\ DOMAIN sets = 1 .. Len(sets)
  BY <1>1, ReadWords DEF IInv, TypeOK, TokensFit, Contexts
<1>3. \A i \in 1 .. Len(toks) : toks'[i] = toks[i]
  <2> DEFINE R == [sym : Terminals, off : 0 .. Size, len : 1 .. Size]
  <2>1. toks \in Seq(R)
    BY DEF IInv, TypeOK
  <2> HIDE DEF R
  <2> QED
    BY <1>1, <2>1
<1>4. ASSUME NEW it \in Items, it.origin <= Len(toks), Asked(it)
      PROVE  Asks(Prods, Start, Terminals, toks', it)
  <2>1. \A i \in 1 .. it.origin : i \in 1 .. Len(toks)
    BY <1>2, <1>4 DEF Items
  <2>2. \A i \in 1 .. it.origin : toks'[i] = toks[i]
    BY <1>3, <2>1
  <2> QED
    BY <1>4, <2>2 DEF Asked, Asks
<1>5. ASSUME NEW n \in DOMAIN sets, NEW k \in DOMAIN sets[n]
      PROVE  Asks(Prods, Start, Terminals, toks', sets[n][k])
  <2>1. sets[n][k] \in Items /\ sets[n][k].origin < n
    BY DEF IInv, TypeOK
  <2>2. sets[n][k].origin <= Len(toks)
    BY <1>2, <2>1 DEF Items
  <2>3. Asked(sets[n][k])
    BY DEF Contexts, AllAsked
  <2> QED
    BY <1>4, <2>1, <2>2, <2>3
<1>6. Prods' = Prods /\ Start' = Start /\ Terminals' = Terminals
  BY <1>1, Kept
<1>7. DOMAIN cur = {}
  BY <1>2
<1> QED
  BY <1>1, <1>5, <1>6, <1>7 DEF AllAsked, Asked

LEMMA ContextsStep == IInv /\ Sound /\ Contexts /\ [Next]_vars => Contexts'
<1> SUFFICES ASSUME IInv, Sound, Contexts, [Next]_vars PROVE Contexts'
  OBVIOUS
<1>1. UNCHANGED job
  BY DEF Next, Step, vars, Terminated, MarkNullable, NullableDone, PushStart, StartDone, Predict,
         SkipNullable, CompleteItem, NextItem, CloseOverflow, CloseDone, SkipIgnored, LexToken,
         LexError, Accept, RejectAtEnd, ScanItem, ScanOverflow, ScanDone, Push, End
<1>2. pc' = "lex" => cur' = << >>
  BY DEF Next, Step, vars, Terminated, MarkNullable, NullableDone, PushStart, StartDone, Predict,
         SkipNullable, CompleteItem, NextItem, CloseOverflow, CloseDone, SkipIgnored, LexToken,
         LexError, Accept, RejectAtEnd, ScanItem, ScanOverflow, ScanDone, Push, End, Closing,
         Lexing, Contexts
<1>3. ASSUME Completable PROVE AllAsked'
  <2>1. AllAsked /\ SoundFor(Extended)
    BY <1>3, ExtendedIsClosed DEF Contexts, Sound
  <2>2. CASE PushStart \/ Predict \/ SkipNullable \/ CompleteItem \/ ScanItem
    BY <1>3, <2>1, <2>2, PushContexts
  <2>3. CASE CloseDone
    BY <2>1, <2>3, CloseDoneContexts
  <2>4. CASE LexToken
    BY <1>3, <2>4, LexTokenContexts
  <2>5. CASE \/ MarkNullable \/ NullableDone \/ StartDone \/ NextItem \/ SkipIgnored \/ ScanDone
             \/ CloseOverflow \/ LexError \/ Accept \/ RejectAtEnd \/ ScanOverflow
             \/ UNCHANGED vars
    <3>1. UNCHANGED << toks, sets, cur >>
      BY <2>5 DEF MarkNullable, NullableDone, StartDone, NextItem, SkipIgnored, ScanDone,
                  CloseOverflow, LexError, Accept, RejectAtEnd, ScanOverflow, End, vars
    <3>2. Prods' = Prods /\ Start' = Start /\ Terminals' = Terminals
      BY <1>1, Kept
    <3> QED
      BY <2>1, <3>1, <3>2 DEF AllAsked, Asked
  <2> QED
    BY <2>2, <2>3, <2>4, <2>5 DEF Next, Step, Terminated
<1> QED
  BY <1>1, <1>2, <1>3, CompletableKept DEF Contexts

(***************************************************************************)
(* While the lexer is at work, the terminals that the last set awaits are  *)
(* those that the tokens can go on with to a word of the language, of any  *)
(* length: all of them, and, if every symbol derives something, no others. *)
(***************************************************************************)
ExpectsExactly ==
  pc = "lex" =>
    \A t \in Terminals :
      /\ CanFollow(Len(toks), t) => Expected(t)
      /\ Completable /\ Expected(t) => CanFollow(Len(toks), t)

LEMMA ExpectationExact ==
  ASSUME IInv, Chart, Sound, Contexts
  PROVE  ExpectsExactly
<1> SUFFICES ASSUME pc = "lex", NEW t \in Terminals
             PROVE  /\ CanFollow(Len(toks), t) => Expected(t)
                    /\ Completable /\ Expected(t) => CanFollow(Len(toks), t)
  BY DEF ExpectsExactly
<1> DEFINE n == Len(toks)
<1>1. n \in Nat /\ n \in 0 .. n /\ Len(sets) = n + 1 /\ LastSet = sets[n + 1] /\ n + 1 \in DOMAIN sets
  BY ReadWords DEF IInv, TypeOK, TokensFit, LastSet
<1>2. ChartTo(n)
  BY <1>1 DEF ChartTo, Chart
<1>3. ASSUME CanFollow(n, t) PROVE Expected(t)
  BY <1>1, <1>2, <1>3, WhatFollowsIsExpected DEF ExpectedAt, Expected
<1>4. ASSUME Completable, Expected(t) PROVE CanFollow(n, t)
  <2>1. PICK k \in DOMAIN LastSet : Wants(LastSet[k], t)
    BY <1>4 DEF Expected
  <2>2. LastSet[k] \in Items
    BY <2>1, LastSetFacts
  <2>3. Asked(LastSet[k])
    BY <1>1, <1>4, <2>1 DEF Contexts, AllAsked
  <2>4. Reads(Extended, LastSet[k], n)
    <3>1. SoundFor(Extended) /\ (n + 1) - 1 = n
      BY <1>1, ExtendedIsClosed DEF Sound
    <3> QED
      BY <1>1, <2>1, <3>1 DEF SoundFor
  <2> QED
    BY <1>1, <1>4, <2>1, <2>2, <2>3, <2>4, WhatIsExpectedFollows
<1> QED
  BY <1>3, <1>4

-----------------------------------------------------------------------------
(* What the lexer takes. *)

(* Somebody in a set awaits symbol t. *)
AwaitedIn(prods, S, t) == \E k \in DOMAIN S : Awaits(prods, S[k], t)

(* Nothing that a set awaits, or that is ignored, matches longer than len at off. *)
NoneLonger(j, S, off, len) ==
  \A n \in DOMAIN j.grammar.terminals :
    LET t == j.grammar.terminals[n]
    IN  AwaitedIn(j.grammar.prods, S, t) \/ t \in j.grammar.ignored => Longest(j, t, off) <= len

Chosen(j, S, tok) ==
  /\ AwaitedIn(j.grammar.prods, S, tok.sym)
  /\ Longest(j, tok.sym, tok.off) = tok.len
  /\ NoneLonger(j, S, tok.off, tok.len)

Lexed ==
  /\ \A n \in DOMAIN toks : n \in DOMAIN sets /\ Chosen(job, sets[n], toks[n])
  /\ result = "lex" => Len(sets) = Len(toks) + 1 /\ NoneLonger(job, LastSet, pos, 0)

(* What the lexer expects, of given productions. *)
LEMMA ExpectedAwaited == \A t : Expected(t) <=> AwaitedIn(Prods, LastSet, t)
BY DEF Expected, AwaitedIn, Wants, Awaits, Complete, Rhs

(* The token that is taken is the best candidate. *)
LEMMA TokenChosen ==
  ASSUME IInv, LexToken
  PROVE  \E tok : toks' = Append(toks, tok) /\ Chosen(job, LastSet, tok)
<1> DEFINE term == job.grammar.terminals
<1>1. PICK n \in DOMAIN term :
        /\ IsBest(n) /\ Expected(term[n])
        /\ toks' = Append(toks, [sym |-> term[n], off |-> pos, len |-> MatchLen(term[n])])
  BY DEF LexToken
<1> DEFINE tok == [sym |-> term[n], off |-> pos, len |-> MatchLen(term[n])]
<1>2. tok.sym = term[n] /\ tok.off = pos /\ tok.len = MatchLen(term[n])
  OBVIOUS
<1>3. \A m \in DOMAIN term : MatchLen(term[m]) \in Nat
  BY MatchFits DEF IInv, TypeOK, Terminals
<1>4. NoneLonger(job, LastSet, pos, MatchLen(term[n]))
  <2> SUFFICES ASSUME NEW m \in DOMAIN term,
                      AwaitedIn(Prods, LastSet, term[m]) \/ Ignored(term[m])
               PROVE  MatchLen(term[m]) <= MatchLen(term[n])
    BY DEF NoneLonger, MatchLen, Ignored, Prods
  <2>1. CASE Candidate(term[m])
    <3>1. ~ Beats(term[m], term[n])
      BY <1>1, <2>1 DEF IsBest
    <3>2. ~ (MatchLen(term[m]) > MatchLen(term[n]))
      BY <3>1 DEF Beats
    <3> QED
      BY <1>3, <3>2
  <2>2. CASE ~ Candidate(term[m])
    <3>1. term[m] \in Terminals /\ (Expected(term[m]) \/ Ignored(term[m]))
      BY ExpectedAwaited DEF Terminals
    <3>2. ~ (MatchLen(term[m]) > 0)
      BY <2>2, <3>1 DEF Candidate
    <3> QED
      BY <1>3, <3>2
  <2> QED
    BY <2>1, <2>2
<1> HIDE DEF tok
<1>5. Chosen(job, LastSet, tok)
  BY <1>1, <1>2, <1>4, ExpectedAwaited DEF Chosen, MatchLen, Prods
<1> QED
  BY <1>1, <1>5 DEF tok

LEMMA LexTokenLexed ==
  ASSUME IInv, Refusal, Lexed, LexToken
  PROVE  Lexed'
<1>1. PICK tok : toks' = Append(toks, tok) /\ Chosen(job, LastSet, tok)
  BY TokenChosen
<1>2. UNCHANGED << job, sets, result >> /\ pc = "lex" /\ result = "pending"
  BY DEF LexToken, Lexing, Refusal
<1>3. /\ Len(toks) \in Nat /\ Len(sets) = Len(toks) + 1 /\ DOMAIN sets = 1 .. Len(sets)
      /\ DOMAIN toks = 1 .. Len(toks)
  BY <1>2, ReadWords DEF IInv, TypeOK, TokensFit
<1>4. /\ DOMAIN toks' = 1 .. Len(toks) + 1 /\ toks'[Len(toks) + 1] = tok
      /\ \A n \in 1 .. Len(toks) : toks'[n] = toks[n]
  <2> DEFINE R == [sym : Terminals, off : 0 .. Size, len : 1 .. Size]
  <2>1. toks \in Seq(R)
    BY DEF IInv, TypeOK
  <2> HIDE DEF R
  <2> QED
    BY <1>1, <2>1
<1>5. LastSet = sets[Len(toks) + 1]
  BY <1>3 DEF LastSet
<1>6. ASSUME NEW n \in DOMAIN toks' PROVE n \in DOMAIN sets /\ Chosen(job, sets[n], toks'[n])
  <2>1. CASE n = Len(toks) + 1
    BY <1>1, <1>3, <1>4, <1>5, <2>1
  <2>2. CASE n # Len(toks) + 1
    <3>1. n \in DOMAIN toks
      BY <1>3, <1>4, <2>2
    <3> QED
      BY <1>3, <1>4, <3>1 DEF Lexed
  <2> QED
    BY <2>1, <2>2
<1> QED
  BY <1>2, <1>6 DEF Lexed

LEMMA CloseDoneLexed ==
  ASSUME IInv, Refusal, Lexed, CloseDone
  PROVE  Lexed'
<1>1. UNCHANGED << job, toks, result >> /\ sets' = Append(sets, cur) /\ result = "pending"
  BY DEF CloseDone, Refusal
<1>2. /\ Len(sets) \in Nat /\ DOMAIN sets = 1 .. Len(sets) /\ DOMAIN sets' = 1 .. Len(sets) + 1
      /\ \A n \in DOMAIN sets : sets'[n] = sets[n] /\ n \in DOMAIN sets'
  BY <1>1 DEF IInv, TypeOK
<1> QED
  BY <1>1, <1>2 DEF Lexed

LEMMA LexErrorLexed ==
  ASSUME IInv, Lexed, LexError
  PROVE  Lexed'
<1> DEFINE term == job.grammar.terminals
<1>1. UNCHANGED << job, sets, toks, pos >> /\ pc = "lex"
      /\ \A m \in DOMAIN term : ~ Candidate(term[m])
  BY DEF LexError, Lexing, End
<1>2. Len(sets) = Len(toks) + 1
  BY <1>1 DEF IInv, TokensFit
<1>3. NoneLonger(job, LastSet, pos, 0)
  <2> SUFFICES ASSUME NEW m \in DOMAIN term,
                      AwaitedIn(Prods, LastSet, term[m]) \/ Ignored(term[m])
               PROVE  MatchLen(term[m]) <= 0
    BY DEF NoneLonger, MatchLen, Ignored, Prods
  <2>1. term[m] \in Terminals /\ (Expected(term[m]) \/ Ignored(term[m]))
    BY ExpectedAwaited DEF Terminals
  <2>2. ~ (MatchLen(term[m]) > 0) /\ MatchLen(term[m]) \in Nat
    BY <1>1, <2>1, MatchFits DEF Candidate, IInv, TypeOK, Terminals
  <2> QED
    BY <2>2
<1> QED
  BY <1>1, <1>2, <1>3 DEF Lexed, LastSet

LEMMA LexedStep == IInv /\ Refusal /\ Lexed /\ [Next]_vars => Lexed'
<1> SUFFICES ASSUME IInv, Refusal, Lexed, [Next]_vars PROVE Lexed'
  OBVIOUS
<1>1. CASE \/ MarkNullable \/ NullableDone \/ PushStart \/ StartDone
           \/ Predict \/ SkipNullable \/ CompleteItem \/ NextItem
           \/ SkipIgnored \/ ScanItem \/ ScanDone
  <2>1. UNCHANGED << job, sets, toks, result >> /\ pc # "done"
    BY <1>1 DEF MarkNullable, NullableDone, PushStart, StartDone, Predict, SkipNullable,
          CompleteItem, NextItem, SkipIgnored, ScanItem, ScanDone, Closing, Lexing, Push
  <2> QED
    BY <2>1 DEF Lexed, Refusal
<1>2. CASE CloseOverflow \/ Accept \/ RejectAtEnd \/ ScanOverflow
  <2>1. UNCHANGED << job, sets, toks >> /\ result' # "lex"
    BY <1>2 DEF CloseOverflow, Accept, RejectAtEnd, ScanOverflow, End
  <2> QED
    BY <2>1 DEF Lexed
<1>3. CASE UNCHANGED vars
  BY <1>3 DEF Lexed, vars, LastSet
<1> QED
  BY <1>1, <1>2, <1>3, LexTokenLexed, CloseDoneLexed, LexErrorLexed DEF Next, Step, Terminated


(* What lies from a to b is matches of ignored terminals, end to end. *)
IgnoredBy(j, c, m) ==
  \A i \in 1 .. m :
    c[i - 1] < c[i] /\ \E t \in j.grammar.ignored : Longest(j, t, c[i - 1]) = c[i] - c[i - 1]

Skipped(j, a, b) ==
  \E m \in Nat : \E c \in [0 .. m -> Nat] : c[0] = a /\ c[m] = b /\ IgnoredBy(j, c, m)

EndOf(ts, n) == IF n = 0 THEN 0 ELSE ts[n].off + ts[n].len

Gaps ==
  /\ \A n \in DOMAIN toks : Skipped(job, EndOf(toks, n - 1), toks[n].off)
  /\ pc # "scan" /\ result \notin {"parse", "overflow"} => Skipped(job, EndOf(toks, Len(toks)), pos)

(* From a place to itself. *)
LEMMA NothingSkipped == ASSUME NEW j, NEW a \in Nat PROVE Skipped(j, a, a)
<1> DEFINE c == [i \in 0 .. 0 |-> a]
<1>1. c \in [0 .. 0 -> Nat] /\ c[0] = a /\ IgnoredBy(j, c, 0)
  BY DEF IgnoredBy
<1> HIDE DEF c
<1> QED
  BY <1>1 DEF Skipped

(* One more match to ignore. *)
LEMMA SkippedOn ==
  ASSUME NEW j, NEW a, NEW b \in Nat, NEW d \in Nat, Skipped(j, a, b), b < d,
         NEW t \in j.grammar.ignored, Longest(j, t, b) = d - b
  PROVE  Skipped(j, a, d)
<1>1. PICK m \in Nat : \E c \in [0 .. m -> Nat] : c[0] = a /\ c[m] = b /\ IgnoredBy(j, c, m)
  BY DEF Skipped
<1>2. PICK c \in [0 .. m -> Nat] : c[0] = a /\ c[m] = b /\ IgnoredBy(j, c, m)
  BY <1>1
<1> DEFINE e == [i \in 0 .. m + 1 |-> IF i = m + 1 THEN d ELSE c[i]]
<1>3. e \in [0 .. m + 1 -> Nat] /\ e[0] = a /\ e[m + 1] = d
  BY <1>2
<1>4. ASSUME NEW i \in 1 .. m + 1
      PROVE  e[i - 1] < e[i] /\ \E u \in j.grammar.ignored : Longest(j, u, e[i - 1]) = e[i] - e[i - 1]
  <2>1. CASE i = m + 1
    <3>1. e[i - 1] = b /\ e[i] = d
      BY <2>1, <1>2
    <3> QED
      BY <3>1
  <2>2. CASE i # m + 1
    <3>1. i \in 1 .. m /\ e[i - 1] = c[i - 1] /\ e[i] = c[i]
      BY <2>2
    <3> QED
      BY <3>1, <1>2 DEF IgnoredBy
  <2> QED
    BY <2>1, <2>2
<1> HIDE DEF e
<1>5. IgnoredBy(j, e, m + 1) /\ m + 1 \in Nat
  BY <1>4 DEF IgnoredBy
<1> QED
  BY <1>3, <1>5 DEF Skipped

LEMMA SkipIgnoredGaps ==
  ASSUME IInv, Refusal, Gaps, SkipIgnored
  PROVE  Gaps'
<1>1. PICK n \in DOMAIN job.grammar.terminals :
        /\ IsBest(n) /\ ~ Expected(job.grammar.terminals[n])
        /\ pos' = pos + MatchLen(job.grammar.terminals[n])
  BY DEF SkipIgnored
<1> DEFINE t == job.grammar.terminals[n]
           a == EndOf(toks, Len(toks))
<1>2. pc = "lex" /\ result = "pending" /\ UNCHANGED << job, toks, result >>
  BY DEF SkipIgnored, Lexing, Refusal
<1>3. MatchLen(t) \in Nat /\ MatchLen(t) > 0 /\ Ignored(t) /\ pos \in Nat
  BY <1>1, MatchFits, TokenTypes DEF IsBest, Candidate, IInv
<1>4. pos' \in Nat /\ pos < pos' /\ MatchLen(t) = pos' - pos
  BY <1>1, <1>3
<1>5. Skipped(job, a, pos)
  BY <1>2 DEF Gaps
<1>6. t \in job.grammar.ignored /\ Longest(job, t, pos) = pos' - pos
  BY <1>3, <1>4 DEF Ignored, MatchLen
<1> HIDE DEF t, a
<1>7. Skipped(job, a, pos')
  BY <1>3, <1>4, <1>5, <1>6, SkippedOn
<1>8. Skipped(job', EndOf(toks', Len(toks')), pos')
  BY <1>2, <1>7 DEF a
<1> QED
  BY <1>2, <1>8 DEF Gaps

LEMMA LexTokenGaps ==
  ASSUME IInv, Refusal, Gaps, LexToken
  PROVE  Gaps'
<1>1. PICK tok : toks' = Append(toks, tok) /\ tok.off = pos
  BY DEF LexToken
<1>2. pc = "lex" /\ result = "pending" /\ pc' = "scan" /\ UNCHANGED job
  BY DEF LexToken, Lexing, Refusal
<1>3. Len(toks) \in Nat /\ DOMAIN toks = 1 .. Len(toks)
  BY ReadWords
<1>4. /\ DOMAIN toks' = 1 .. Len(toks) + 1 /\ toks'[Len(toks) + 1] = tok
      /\ \A n \in 1 .. Len(toks) : toks'[n] = toks[n]
  <2> DEFINE R == [sym : Terminals, off : 0 .. Size, len : 1 .. Size]
  <2>1. toks \in Seq(R)
    BY DEF IInv, TypeOK
  <2> HIDE DEF R
  <2> QED
    BY <1>1, <2>1
<1>5. \A n \in 0 .. Len(toks) : EndOf(toks', n) = EndOf(toks, n)
  BY <1>3, <1>4 DEF EndOf
<1>6. ASSUME NEW n \in DOMAIN toks' PROVE Skipped(job, EndOf(toks', n - 1), toks'[n].off)
  <2>1. n - 1 \in 0 .. Len(toks) /\ n \in Nat
    BY <1>3, <1>4
  <2>2. EndOf(toks', n - 1) = EndOf(toks, n - 1)
    BY <1>5, <2>1
  <2>3. CASE n = Len(toks) + 1
    <3>1. n - 1 = Len(toks) /\ toks'[n].off = pos
      BY <1>1, <1>3, <1>4, <2>3
    <3> QED
      BY <1>2, <2>2, <3>1 DEF Gaps
  <2>4. CASE n # Len(toks) + 1
    <3>1. n \in DOMAIN toks /\ toks'[n] = toks[n]
      BY <1>3, <1>4, <2>4
    <3> QED
      BY <2>2, <3>1 DEF Gaps
  <2> QED
    BY <2>3, <2>4
<1> QED
  BY <1>2, <1>6 DEF Gaps

LEMMA ScanDoneGaps ==
  ASSUME IInv, Gaps, ScanDone
  PROVE  Gaps'
<1>1. UNCHANGED << job, toks >> /\ pc = "scan" /\ pos' = pos + Newest.len
  BY DEF ScanDone
<1>2. /\ toks # << >> /\ Newest.off = pos /\ Len(toks) \in Nat /\ Len(toks) # 0
      /\ DOMAIN toks = 1 .. Len(toks) /\ Len(toks) \in DOMAIN toks
  <2>1. toks # << >> /\ Newest.off = pos
    BY <1>1 DEF IInv, NewestHere
  <2>2. Len(toks) # 0
    <3> DEFINE R == [sym : Terminals, off : 0 .. Size, len : 1 .. Size]
    <3>1. toks \in Seq(R)
      BY DEF IInv, TypeOK
    <3> HIDE DEF R
    <3> QED
      BY <2>1, <3>1
  <2> QED
    BY <2>1, <2>2, ReadWords
<1>3. pos' = EndOf(toks, Len(toks)) /\ pos' \in Nat
  BY <1>1, <1>2, TokenTypes DEF EndOf, Newest, IInv, TokenEnd
<1>4. Skipped(job', EndOf(toks', Len(toks')), pos')
  BY <1>1, <1>3, NothingSkipped
<1> QED
  BY <1>1, <1>4 DEF Gaps

LEMMA GapsStep == IInv /\ Refusal /\ Gaps /\ [Next]_vars => Gaps'
<1> SUFFICES ASSUME IInv, Refusal, Gaps, [Next]_vars PROVE Gaps'
  OBVIOUS
<1>1. CASE \/ MarkNullable \/ NullableDone \/ PushStart \/ StartDone
           \/ Predict \/ SkipNullable \/ CompleteItem \/ NextItem \/ CloseDone
           \/ ScanItem \/ LexError \/ Accept
  <2>1. UNCHANGED << job, toks, pos >> /\ (pc' # "scan" => pc # "scan") /\ result = "pending"
    BY <1>1 DEF MarkNullable, NullableDone, PushStart, StartDone, Predict, SkipNullable,
          CompleteItem, NextItem, CloseDone, ScanItem, LexError, Accept, Closing, Lexing, Push, End,
          Refusal
  <2> QED
    BY <2>1 DEF Gaps
<1>2. CASE CloseOverflow \/ RejectAtEnd \/ ScanOverflow
  <2>1. UNCHANGED << job, toks >> /\ result' \in {"parse", "overflow"}
    BY <1>2 DEF CloseOverflow, RejectAtEnd, ScanOverflow, End
  <2> QED
    BY <2>1 DEF Gaps
<1>3. CASE UNCHANGED vars
  BY <1>3 DEF Gaps, vars
<1> QED
  BY <1>1, <1>2, <1>3, SkipIgnoredGaps, LexTokenGaps, ScanDoneGaps DEF Next, Step, Terminated

(* A terminal that the lexer has to reckon with after n tokens. *)
Fitting(n, t) == CanFollow(n, t) \/ Ignored(t)

(***************************************************************************)
(* The tokens are what the text says at their places, whatever the grammar *)
(* and the text: each is a match of its terminal, no terminal that could   *)
(* come there on the way to a word of the language matches longer, nor one *)
(* to ignore, and, if every symbol derives something, its own can come     *)
(* there.  A lexical error means that nothing that could come matches.     *)
(* Between the tokens, and after the last one if the text is accepted or   *)
(* not to be lexed, lie matches of ignored terminals only.                 *)
(***************************************************************************)
LexesExactly ==
  /\ \A n \in DOMAIN toks :
       /\ Longest(job, toks[n].sym, toks[n].off) = toks[n].len
       /\ \A t \in Terminals : Fitting(n - 1, t) => Longest(job, t, toks[n].off) <= toks[n].len
       /\ Completable => CanFollow(n - 1, toks[n].sym)
       /\ Skipped(job, EndOf(toks, n - 1), toks[n].off)
  /\ result = "lex" => \A t \in Terminals : Fitting(Len(toks), t) => Longest(job, t, pos) <= 0
  /\ result \in {"accepted", "lex"} => Skipped(job, EndOf(toks, Len(toks)), pos)

(* What could come is among what the set awaits. *)
LEMMA NoneFitsLonger ==
  ASSUME IInv, Chart, NEW n \in 0 .. Len(toks), n + 1 \in DOMAIN sets,
         NEW off, NEW len, NoneLonger(job, sets[n + 1], off, len),
         NEW t \in Terminals, Fitting(n, t)
  PROVE  Longest(job, t, off) <= len
<1>1. ChartTo(n)
  BY ReadWords DEF ChartTo, Chart, IInv, TypeOK
<1>2. AwaitedIn(Prods, sets[n + 1], t) \/ t \in job.grammar.ignored
  <2>1. CASE Ignored(t)
    BY <2>1 DEF Ignored
  <2>2. CASE CanFollow(n, t)
    <3>1. ExpectedAt(n, t)
      BY <1>1, <2>2, WhatFollowsIsExpected
    <3> QED
      BY <3>1 DEF ExpectedAt, AwaitedIn, Wants, Awaits, Complete, Rhs
  <2> QED
    BY <2>1, <2>2 DEF Fitting
<1>3. PICK m \in DOMAIN job.grammar.terminals : t = job.grammar.terminals[m]
  BY DEF Terminals
<1> QED
  BY <1>2, <1>3 DEF NoneLonger, Prods

LEMMA LexingExact ==
  ASSUME IInv, Chart, Sound, Contexts, Lexed, Gaps, Refusal
  PROVE  LexesExactly
<1>1. Len(toks) \in Nat /\ DOMAIN toks = 1 .. Len(toks) /\ DOMAIN sets = 1 .. Len(sets) /\ Len(sets) \in Nat
  BY ReadWords DEF IInv, TypeOK
<1>2. ASSUME NEW n \in DOMAIN toks
      PROVE  /\ Longest(job, toks[n].sym, toks[n].off) = toks[n].len
             /\ \A t \in Terminals : Fitting(n - 1, t) => Longest(job, t, toks[n].off) <= toks[n].len
             /\ Completable => CanFollow(n - 1, toks[n].sym)
  <2>1. n \in DOMAIN sets /\ Chosen(job, sets[n], toks[n])
    BY DEF Lexed
  <2> DEFINE m == n - 1
  <2>2. m \in 0 .. Len(toks) /\ m + 1 = n
    BY <1>1
  <2> HIDE DEF m
  <2>3. ASSUME NEW t \in Terminals, Fitting(m, t) PROVE Longest(job, t, toks[n].off) <= toks[n].len
    <3>1. NoneLonger(job, sets[m + 1], toks[n].off, toks[n].len)
      BY <2>1, <2>2 DEF Chosen
    <3> QED
      BY <2>1, <2>2, <2>3, <3>1, NoneFitsLonger
  <2>4. ASSUME Completable PROVE CanFollow(m, toks[n].sym)
    <3>1. PICK k \in DOMAIN sets[n] : Awaits(Prods, sets[n][k], toks[n].sym)
      BY <2>1 DEF Chosen, AwaitedIn, Prods
    <3>2. sets[n][k] \in Items
      BY <2>1, <3>1 DEF IInv, TypeOK
    <3>3. Wants(sets[n][k], toks[n].sym)
      BY <3>1 DEF Awaits, Wants, Complete, Rhs
    <3>4. Asked(sets[n][k])
      BY <2>1, <2>4, <3>1 DEF Contexts, AllAsked
    <3>5. Reads(Extended, sets[n][k], m)
      BY <2>1, <3>1, ExtendedIsClosed DEF Sound, SoundFor, m
    <3>6. toks[n].sym \in Terminals
      BY TokenTypes DEF IInv
    <3> QED
      BY <2>2, <2>4, <3>2, <3>3, <3>4, <3>5, <3>6, WhatIsExpectedFollows
  <2> QED
    BY <2>1, <2>3, <2>4 DEF Chosen, m
<1>3. ASSUME result = "lex", NEW t \in Terminals, Fitting(Len(toks), t)
      PROVE  Longest(job, t, pos) <= 0
  <2>1. /\ NoneLonger(job, sets[Len(toks) + 1], pos, 0) /\ Len(toks) + 1 \in DOMAIN sets
        /\ Len(toks) \in 0 .. Len(toks)
    BY <1>1, <1>3 DEF Lexed, LastSet
  <2> QED
    BY <1>3, <2>1, NoneFitsLonger
<1>4. \A n \in DOMAIN toks : Skipped(job, EndOf(toks, n - 1), toks[n].off)
  BY DEF Gaps
<1>5. ASSUME result \in {"accepted", "lex"} PROVE Skipped(job, EndOf(toks, Len(toks)), pos)
  <2>1. pc = "done"
    BY <1>5 DEF Refusal
  <2> QED
    BY <1>5, <2>1 DEF Gaps
<1> QED
  BY <1>2, <1>3, <1>4, <1>5 DEF LexesExactly

(***************************************************************************)
(* What the lexer looks for and takes, for every grammar and input: the    *)
(* terminals with which the tokens can go on, of words of any length, and  *)
(* of these the longest match; what is left out is ignored.                *)
(***************************************************************************)
THEOREM ParserExpects == Spec => [](ExpectsExactly /\ LexesExactly)
<1>1. Init => Chart /\ Refusal /\ Sound /\ Contexts /\ Lexed
  BY DEF Init, Chart, Refusal, ClosedSets, Sound, SoundFor, Contexts, AllAsked, Lexed
<1>2. Init => Gaps
  BY NothingSkipped DEF Init, Gaps, EndOf
<1>3. IInv /\ Chart /\ Refusal /\ Sound /\ Contexts /\ Lexed /\ Gaps /\ [Next]_vars
        => Chart' /\ Refusal' /\ Sound' /\ Contexts' /\ Lexed' /\ Gaps'
  BY ChartStep, RefusalStep, SoundStep, ContextsStep, LexedStep, GapsStep
<1>4. IInv /\ Chart /\ Refusal /\ Sound /\ Contexts /\ Lexed /\ Gaps
        => ExpectsExactly /\ LexesExactly
  BY ExpectationExact, LexingExact
<1> QED
  BY InvHolds, <1>1, <1>2, <1>3, <1>4, PTL DEF Spec

=============================================================================
