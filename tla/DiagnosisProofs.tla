-------------------------- MODULE DiagnosisProofs --------------------------
(***************************************************************************)
(* What is said of a rejected document, for every text: bind_error names a *)
(* fault the text really has, and the snippet of an error message points   *)
(* at the character the error is at.                                       *)
(***************************************************************************)
EXTENDS Document, ErrorInfo, Induction, FiniteSetTheorems, SequenceTheorems, TLAPS

(* What is proved of the block binder, for the line lists gather makes. *)
R == INSTANCE BlockRefinementProofs WITH Docs <- Seq(Line)

-----------------------------------------------------------------------------
(* Finite sequences. *)

LEMMA FunctionIsSeq ==
  ASSUME NEW S, NEW n \in Nat, NEW f \in [1 .. n -> S]
  PROVE  f \in Seq(S) /\ Len(f) = n
<1>1. f \in Seq(S)
  BY SeqDef
<1> QED
  BY <1>1, LenProperties

LEMMA SeqFacts ==
  ASSUME NEW S, NEW s \in Seq(S)
  PROVE  Len(s) \in Nat /\ DOMAIN s = 1 .. Len(s) /\ \A i \in 1 .. Len(s) : s[i] \in S
BY LenProperties, ElementOfSeq

LEMMA SeqFrom ==
  ASSUME NEW S, NEW D, NEW s \in Seq(S), \A i \in 1 .. Len(s) : s[i] \in D
  PROVE  s \in Seq(D)
<1>1. s \in [1 .. Len(s) -> S] /\ Len(s) \in Nat
  BY LenProperties
<1>2. s \in [1 .. Len(s) -> D]
  BY <1>1
<1> QED
  BY <1>1, <1>2, FunctionIsSeq

-----------------------------------------------------------------------------
(* Document types, level by level. *)

Base == {v \in Vals : v.kind \notin {"sequence", "mapping"}} \cup {Null}

NextLevel(inner) ==
  inner \cup [kind : {"sequence"}, items : Seq(inner)]
    \cup [kind : {"mapping"}, members : Seq([key : Keys, value : inner])]

TypesUpTo(g, m) ==
  /\ DOMAIN g = 0 .. m
  /\ g[0] = Base
  /\ \A n \in 1 .. m : g[n] = NextLevel(g[n - 1])

LEMMA TypesDef ==
  /\ Types[0] = Base
  /\ \A n \in Nat \ {0} : Types[n] = NextLevel(Types[n - 1])
<1> DEFINE G == {m \in Nat : \E g : TypesUpTo(g, m)}
<1>1. 0 \in G
  <2>1. TypesUpTo([n \in 0 .. 0 |-> Base], 0)
    BY DEF TypesUpTo
  <2> QED
    BY <2>1
<1>2. ASSUME NEW m \in Nat, m \in G PROVE m + 1 \in G
  <2>1. PICK g : TypesUpTo(g, m)
    BY <1>2
  <2> DEFINE h == [n \in 0 .. m + 1 |-> IF n = m + 1 THEN NextLevel(g[m]) ELSE g[n]]
  <2>2. DOMAIN h = 0 .. m + 1 /\ h[0] = Base
    BY <2>1 DEF TypesUpTo
  <2>3. ASSUME NEW n \in 1 .. m + 1 PROVE h[n] = NextLevel(h[n - 1])
    <3>1. n \in 0 .. m + 1 /\ n - 1 \in 0 .. m + 1 /\ n - 1 # m + 1
      OBVIOUS
    <3>2. h[n - 1] = g[n - 1]
      BY <3>1
    <3>3. CASE n = m + 1
      BY <3>1, <3>2, <3>3
    <3>4. CASE n # m + 1
      <4>1. n \in 1 .. m
        BY <3>4
      <4>2. h[n] = g[n] /\ g[n] = NextLevel(g[n - 1])
        BY <3>1, <3>4, <4>1, <2>1 DEF TypesUpTo
      <4> QED
        BY <3>2, <4>2
    <3> QED
      BY <3>3, <3>4
  <2> HIDE DEF h
  <2>4. TypesUpTo(h, m + 1)
    BY <2>2, <2>3 DEF TypesUpTo
  <2> QED
    BY <2>4
<1>3. G = Nat
  <2>1. G \in SUBSET Nat
    OBVIOUS
  <2> HIDE DEF G
  <2> QED
    BY <1>1, <1>2, <2>1, AllNumbers
<1> DEFINE At(m) == CHOOSE g : TypesUpTo(g, m)
<1>4. \A m \in Nat : TypesUpTo(At(m), m)
  BY <1>3
<1> HIDE DEF At, G
(* Beginnings agree. *)
<1>5. ASSUME NEW m \in Nat, NEW n \in 0 .. m
      PROVE  At(m)[n] = At(n)[n]
  <2> DEFINE H == {k \in 0 .. n : At(m)[k] = At(n)[k]}
  <2>1. 0 \in H
    BY <1>4 DEF TypesUpTo
  <2>2. ASSUME NEW k \in 0 .. n - 1, k \in H PROVE k + 1 \in H
    <3>1. k + 1 \in 1 .. m /\ k + 1 \in 1 .. n /\ (k + 1) - 1 = k /\ k + 1 \in 0 .. n
      BY <1>5
    <3>2. At(m)[k + 1] = NextLevel(At(m)[k])
      BY <3>1, <1>4 DEF TypesUpTo
    <3>3. At(n)[k + 1] = NextLevel(At(n)[k])
      BY <3>1, <1>4 DEF TypesUpTo
    <3> QED
      BY <3>1, <3>2, <3>3, <2>2
  <2> HIDE DEF H
  <2>3. 0 .. n \subseteq H
    BY <2>1, <2>2, AllUpTo
  <2>4. n \in 0 .. n
    OBVIOUS
  <2> QED
    BY <2>3, <2>4 DEF H
<1> DEFINE Body(h) == [n \in Nat |-> IF n = 0 THEN Base ELSE NextLevel(h[n - 1])]
           f == [n \in Nat |-> At(n)[n]]
<1>6. f = Body(f)
  <2>1. ASSUME NEW n \in Nat
        PROVE  At(n)[n] = IF n = 0 THEN Base ELSE NextLevel(f[n - 1])
    <3>1. CASE n = 0
      BY <3>1, <1>4 DEF TypesUpTo
    <3>2. CASE n # 0
      <4>1. n - 1 \in Nat /\ n \in 1 .. n /\ n - 1 \in 0 .. n
        BY <3>2
      <4>2. At(n)[n] = NextLevel(At(n)[n - 1])
        BY <4>1, <1>4 DEF TypesUpTo
      <4>3. At(n)[n - 1] = At(n - 1)[n - 1]
        BY <4>1, <1>5
      <4> QED
        BY <3>2, <4>1, <4>2, <4>3
    <3> QED
      BY <3>1, <3>2
  <2> QED
    BY <2>1
<1> HIDE DEF f
<1>7. Types = CHOOSE h : h = Body(h)
  BY DEF Types, NextLevel, Base
<1>8. Types = Body(Types)
  BY <1>6, <1>7
<1> QED
  BY <1>8

LEMMA TypesStep ==
  ASSUME NEW n \in Nat
  PROVE  Types[n + 1] = NextLevel(Types[n]) /\ Types[n] \subseteq Types[n + 1]
<1>1. n + 1 \in Nat \ {0} /\ (n + 1) - 1 = n
  OBVIOUS
<1>2. Types[n + 1] = NextLevel(Types[n])
  BY <1>1, TypesDef
<1> QED
  BY <1>2 DEF NextLevel

LEMMA TypesRise ==
  ASSUME NEW n \in Nat, NEW d \in Nat
  PROVE  Types[n] \subseteq Types[n + d]
<1> DEFINE G == {e \in Nat : Types[n] \subseteq Types[n + e]}
<1>1. 0 \in G
  OBVIOUS
<1>2. ASSUME NEW e \in Nat, e \in G PROVE e + 1 \in G
  <2>1. n + (e + 1) = (n + e) + 1 /\ n + e \in Nat
    OBVIOUS
  <2>2. Types[n + e] \subseteq Types[(n + e) + 1]
    BY <2>1, TypesStep
  <2> QED
    BY <2>1, <2>2, <1>2
<1>3. G \in SUBSET Nat
  OBVIOUS
<1> HIDE DEF G
<1>4. G = Nat
  BY <1>1, <1>2, <1>3, AllNumbers
<1> QED
  BY <1>4 DEF G

AllTypes == UNION {Types[n] : n \in Nat}

(* Types that are a sequence are of one level together. *)
LEMMA SharedLevel ==
  ASSUME NEW s \in Seq(AllTypes)
  PROVE  \E n \in Nat : \A i \in 1 .. Len(s) : s[i] \in Types[n]
<1> DEFINE m == Len(s)
           G == {k \in 0 .. m : \E n \in Nat : \A i \in 1 .. k : s[i] \in Types[n]}
<1>1. m \in Nat /\ \A i \in 1 .. m : s[i] \in AllTypes
  BY SeqFacts
<1> HIDE DEF m
<1>2. 0 \in G
  <2>1. 0 \in 0 .. m /\ 0 \in Nat /\ \A i \in 1 .. 0 : s[i] \in Types[0]
    BY <1>1
  <2> QED
    BY <2>1
<1>3. ASSUME NEW k \in 0 .. m - 1, k \in G PROVE k + 1 \in G
  <2>1. PICK n \in Nat : \A i \in 1 .. k : s[i] \in Types[n]
    BY <1>3
  <2>2. k + 1 \in 1 .. m /\ k + 1 \in 0 .. m
    BY <1>1
  <2>3. PICK l \in Nat : s[k + 1] \in Types[l]
    BY <1>1, <2>2 DEF AllTypes
  <2>6. Types[n] \subseteq Types[n + l]
    BY TypesRise
  <2>7. Types[l] \subseteq Types[l + n]
    BY TypesRise
  <2>4. Types[n] \subseteq Types[n + l] /\ Types[l] \subseteq Types[n + l] /\ n + l \in Nat
    <3>1. l + n = n + l /\ n + l \in Nat
      OBVIOUS
    <3> QED
      BY <3>1, <2>6, <2>7
  <2>5. ASSUME NEW i \in 1 .. k + 1 PROVE s[i] \in Types[n + l]
    <3>1. CASE i = k + 1
      BY <3>1, <2>3, <2>4
    <3>2. CASE i # k + 1
      <4>1. i \in 1 .. k
        BY <3>2
      <4> QED
        BY <4>1, <2>1, <2>4
    <3> QED
      BY <3>1, <3>2
  <2> QED
    BY <2>2, <2>4, <2>5
<1> HIDE DEF G
<1>4. 0 .. m \subseteq G
  BY <1>1, <1>2, <1>3, AllUpTo
<1>5. m \in G
  BY <1>1, <1>4
<1> QED
  BY <1>5 DEF G, m

LEMMA NextLevelHas ==
  ASSUME NEW D
  PROVE  /\ \A is \in Seq(D) : Sequence(is) \in NextLevel(D)
         /\ \A ms \in Seq([key : Keys, value : D]) : Mapping(ms) \in NextLevel(D)
BY DEF NextLevel, Sequence, Mapping

LEMMA NextLevelCases ==
  ASSUME NEW D, NEW t \in NextLevel(D), t \notin D
  PROVE  \/ t \in [kind : {"sequence"}, items : Seq(D)]
         \/ t \in [kind : {"mapping"}, members : Seq([key : Keys, value : D])]
BY DEF NextLevel

(* Collections of types are types. *)
LEMMA AllTypesClosed ==
  /\ Null \in AllTypes /\ Vals \subseteq AllTypes
  /\ \A is \in Seq(AllTypes) : Sequence(is) \in AllTypes
  /\ \A ms \in Seq([key : Keys, value : AllTypes]) : Mapping(ms) \in AllTypes
<1>1. Null \in AllTypes
  BY TypesDef DEF Base, AllTypes
<1>2. Vals \subseteq AllTypes
  BY ValsAssumption DEF AllTypes
<1>3. ASSUME NEW is \in Seq(AllTypes) PROVE Sequence(is) \in AllTypes
  <2>1. PICK n \in Nat : \A i \in 1 .. Len(is) : is[i] \in Types[n]
    BY SharedLevel
  <2>2. is \in Seq(Types[n])
    BY <2>1, SeqFrom
  <2>3. Sequence(is) \in Types[n + 1]
    <3>1. Types[n + 1] = NextLevel(Types[n])
      BY TypesStep
    <3>2. Sequence(is) \in NextLevel(Types[n])
      BY <2>2, NextLevelHas, Zenon
    <3> QED
      BY <3>1, <3>2
  <2> QED
    BY <2>3 DEF AllTypes
<1>4. ASSUME NEW ms \in Seq([key : Keys, value : AllTypes]) PROVE Mapping(ms) \in AllTypes
  <2> DEFINE vs == [i \in 1 .. Len(ms) |-> ms[i].value]
  <2>1. Len(ms) \in Nat /\ \A i \in 1 .. Len(ms) : ms[i] \in [key : Keys, value : AllTypes]
    BY SeqFacts
  <2>2. vs \in [1 .. Len(ms) -> AllTypes]
    BY <2>1
  <2>3. vs \in Seq(AllTypes) /\ Len(vs) = Len(ms)
    BY <2>1, <2>2, FunctionIsSeq
  <2>4. PICK n \in Nat : \A i \in 1 .. Len(vs) : vs[i] \in Types[n]
    BY <2>3, SharedLevel
  <2>5. \A i \in 1 .. Len(ms) : ms[i].value \in Types[n]
    BY <2>3, <2>4
  <2>6. \A i \in 1 .. Len(ms) : ms[i] \in [key : Keys, value : Types[n]]
    BY <2>1, <2>5
  <2>7. ms \in Seq([key : Keys, value : Types[n]])
    BY <2>6, SeqFrom
  <2>8. Mapping(ms) \in Types[n + 1]
    <3>1. Types[n + 1] = NextLevel(Types[n])
      BY TypesStep
    <3>2. Mapping(ms) \in NextLevel(Types[n])
      BY <2>7, NextLevelHas, Zenon
    <3> QED
      BY <3>1, <3>2
  <2> QED
    BY <2>8 DEF AllTypes
<1> QED
  BY <1>1, <1>2, <1>3, <1>4

(* A type is a scalar's, a sequence or a mapping; its parts are a level down. *)
TypeCases(t, inner) ==
  \/ t.kind \notin {"sequence", "mapping"} /\ PartsOf(t) = << >>
  \/ t.kind = "sequence" /\ t.items \in Seq(inner) /\ t = Sequence(t.items)
  \/ t.kind = "mapping" /\ t.members \in Seq([key : Keys, value : inner]) /\ t = Mapping(t.members)

LEMMA BaseCases ==
  ASSUME NEW t \in Types[0]
  PROVE  t.kind \notin {"sequence", "mapping"} /\ PartsOf(t) = << >>
BY TypesDef DEF Base, PartsOf, Null

LEMMA CasesRise ==
  ASSUME NEW t, NEW D, NEW E, D \subseteq E, TypeCases(t, D)
  PROVE  TypeCases(t, E)
<1>1. Seq(D) \subseteq Seq(E)
  BY SeqMonotonic
<1>2. Seq([key : Keys, value : D]) \subseteq Seq([key : Keys, value : E])
  BY SeqMonotonic
<1> QED
  BY <1>1, <1>2 DEF TypeCases

LEMMA LevelCases ==
  ASSUME NEW n \in Nat, NEW t \in Types[n + 1]
  PROVE  TypeCases(t, Types[n])
<1> DEFINE G == {k \in Nat : \A u \in Types[k + 1] : TypeCases(u, Types[k])}
<1>1. ASSUME NEW k \in Nat, NEW u \in Types[k + 1], u \notin Types[k]
      PROVE  TypeCases(u, Types[k])
  <2>1. u \in [kind : {"sequence"}, items : Seq(Types[k])]
        \/ u \in [kind : {"mapping"}, members : Seq([key : Keys, value : Types[k]])]
    <3>1. u \in NextLevel(Types[k])
      BY <1>1, TypesStep
    <3> QED
      BY <1>1, <3>1, NextLevelCases, Zenon
  <2> QED
    BY <2>1 DEF TypeCases, Sequence, Mapping
<1>2. 0 \in G
  <2>1. ASSUME NEW u \in Types[0 + 1] PROVE TypeCases(u, Types[0])
    <3>1. CASE u \in Types[0]
      BY <3>1, BaseCases DEF TypeCases
    <3> QED
      BY <3>1, <1>1
  <2> QED
    BY <2>1
<1>3. ASSUME NEW k \in Nat, k \in G PROVE k + 1 \in G
  <2>1. ASSUME NEW u \in Types[(k + 1) + 1] PROVE TypeCases(u, Types[k + 1])
    <3>1. CASE u \in Types[k + 1]
      BY <3>1, <1>3, TypesStep, CasesRise
    <3> QED
      BY <3>1, <1>1
  <2> QED
    BY <2>1
<1>4. G \in SUBSET Nat
  OBVIOUS
<1> HIDE DEF G
<1>5. G = Nat
  BY <1>2, <1>3, <1>4, AllNumbers
<1> QED
  BY <1>5 DEF G

LEMMA PartsAre ==
  ASSUME NEW D, NEW t, TypeCases(t, D)
  PROVE  PartsOf(t) \in Seq(D)
<1>1. CASE t.kind \notin {"sequence", "mapping"}
  BY <1>1, EmptySeq DEF TypeCases
<1>2. CASE t.kind = "sequence"
  BY <1>2 DEF TypeCases, PartsOf
<1>3. CASE t.kind = "mapping"
  <2>1. t.members \in Seq([key : Keys, value : D])
    BY <1>3 DEF TypeCases
  <2>2. /\ Len(t.members) \in Nat /\ DOMAIN t.members = 1 .. Len(t.members)
        /\ \A i \in 1 .. Len(t.members) : t.members[i] \in [key : Keys, value : D]
    BY <2>1, SeqFacts
  <2>3. PartsOf(t) = [i \in 1 .. Len(t.members) |-> t.members[i].value]
    BY <1>3, <2>2 DEF PartsOf
  <2>4. PartsOf(t) \in [1 .. Len(t.members) -> D]
    BY <2>2, <2>3
  <2> QED
    BY <2>2, <2>4, FunctionIsSeq
<1> QED
  BY <1>1, <1>2, <1>3

LEMMA AllTypesCases ==
  ASSUME NEW t \in AllTypes
  PROVE  TypeCases(t, AllTypes) /\ PartsOf(t) \in Seq(AllTypes)
<1>1. PICK n \in Nat : t \in Types[n]
  BY DEF AllTypes
<1>2. t \in Types[n + 1]
  BY <1>1, TypesStep
<1>3. Types[n] \subseteq AllTypes
  BY DEF AllTypes
<1>4. TypeCases(t, AllTypes)
  BY <1>2, <1>3, LevelCases, CasesRise
<1> QED
  BY <1>4, PartsAre

-----------------------------------------------------------------------------
(* What stands at the end of a path into a type. *)

PartStep(part, i) == IF i \in DOMAIN PartsOf(part) THEN PartsOf(part)[i] ELSE Null

LEMMA PartStepTyped ==
  ASSUME NEW part \in AllTypes, NEW i
  PROVE  PartStep(part, i) \in AllTypes
<1>1. PartsOf(part) \in Seq(AllTypes)
  BY AllTypesCases
<1>2. i \in DOMAIN PartsOf(part) => PartsOf(part)[i] \in AllTypes
  BY <1>1, SeqFacts
<1> QED
  BY <1>2, AllTypesClosed DEF PartStep

Walks(at, t, path) ==
  /\ at \in [0 .. Len(path) -> AllTypes]
  /\ at[0] = t
  /\ \A n \in 1 .. Len(path) : at[n] = PartStep(at[n - 1], path[n])

LEMMA PathDef ==
  ASSUME NEW t \in AllTypes, NEW path \in Seq(Nat)
  PROVE  \E at : Walks(at, t, path) /\ PartAt(t, path) = at[Len(path)]
<1> DEFINE m == Len(path)
           F == [q \in (1 .. m) \X AllTypes |-> PartStep(q[2], path[q[1]])]
           Body(g) == [n \in 0 .. m |-> IF n = 0 THEN t ELSE PartStep(g[n - 1], path[n])]
<1>1. m \in Nat
  BY SeqFacts
<1>2. F \in [(1 .. m) \X AllTypes -> AllTypes]
  <2>1. \A q \in (1 .. m) \X AllTypes : PartStep(q[2], path[q[1]]) \in AllTypes
    BY PartStepTyped
  <2> QED
    BY <2>1
<1>3. \A n \in 1 .. m, y \in AllTypes : F[<< n, y >>] = PartStep(y, path[n])
  OBVIOUS
<1> HIDE DEF F
<1>4. PICK f : IteratesUpTo(f, m, AllTypes, t, F)
  BY <1>1, <1>2, RecursionUpTo
<1>5. f = Body(f)
  <2>1. f \in [0 .. m -> AllTypes] /\ f[0] = t
    BY <1>4 DEF IteratesUpTo
  <2>2. ASSUME NEW n \in 1 .. m PROVE f[n] = PartStep(f[n - 1], path[n])
    <3>1. n - 1 \in 0 .. m
      BY <1>1
    <3>2. f[n] = F[<< n, f[n - 1] >>]
      BY <1>4 DEF IteratesUpTo
    <3> QED
      BY <1>3, <2>1, <3>1, <3>2
  <2>3. f = [n \in 0 .. m |-> f[n]]
    BY <2>1
  <2> HIDE DEF m
  <2>4. \A n \in 0 .. m : f[n] = IF n = 0 THEN t ELSE PartStep(f[n - 1], path[n])
    BY <1>1, <2>1, <2>2
  <2> QED
    BY <2>3, <2>4
<1> DEFINE at == CHOOSE g : g = Body(g)
<1>6. at = Body(at)
  BY <1>5
<1>7. PartAt(t, path) = at[m]
  BY DEF PartAt, PartStep
<1> HIDE DEF at
<1>8. at[0] = t /\ \A n \in 1 .. m : at[n] = PartStep(at[n - 1], path[n])
  <2> HIDE DEF m
  <2>1. \A n \in 0 .. m : at[n] = IF n = 0 THEN t ELSE PartStep(at[n - 1], path[n])
    BY <1>6
  <2> QED
    BY <1>1, <2>1
<1>9. \A n \in 0 .. m : at[n] \in AllTypes
  <2> DEFINE G == {n \in 0 .. m : at[n] \in AllTypes}
  <2>1. 0 \in G
    BY <1>1, <1>8
  <2>2. ASSUME NEW n \in 0 .. m - 1, n \in G PROVE n + 1 \in G
    <3>1. n + 1 \in 1 .. m /\ (n + 1) - 1 = n /\ n + 1 \in 0 .. m
      BY <1>1
    <3>2. at[n + 1] = PartStep(at[n], path[n + 1])
      BY <1>8, <3>1
    <3> QED
      BY <2>2, <3>1, <3>2, PartStepTyped
  <2> HIDE DEF G, m
  <2>3. 0 .. m \subseteq G
    BY <1>1, <2>1, <2>2, AllUpTo
  <2> QED
    BY <2>3 DEF G
<1>10. at \in [0 .. m -> AllTypes]
  <2>1. at = [n \in 0 .. m |-> at[n]]
    BY <1>6
  <2> QED
    BY <1>9, <2>1
<1> QED
  BY <1>7, <1>8, <1>10 DEF Walks

LEMMA PathNil ==
  ASSUME NEW t \in AllTypes
  PROVE  PartAt(t, << >>) = t /\ << >> \in Seq(Nat)
<1>1. << >> \in Seq(Nat) /\ Len(<< >>) = 0
  BY EmptySeq
<1>2. PICK at : Walks(at, t, << >>) /\ PartAt(t, << >>) = at[Len(<< >>)]
  BY <1>1, PathDef
<1> QED
  BY <1>1, <1>2 DEF Walks

LEMMA PathStep ==
  ASSUME NEW t \in AllTypes, NEW path \in Seq(Nat), NEW i \in Nat
  PROVE  /\ Append(path, i) \in Seq(Nat)
         /\ PartAt(t, path) \in AllTypes
         /\ PartAt(t, Append(path, i)) = PartStep(PartAt(t, path), i)
<1> DEFINE m == Len(path)
           longer == Append(path, i)
<1>1. m \in Nat
  BY SeqFacts
<1>2. /\ longer \in Seq(Nat) /\ Len(longer) = m + 1 /\ longer[m + 1] = i
      /\ \A n \in 1 .. m : longer[n] = path[n]
  BY AppendProperties
<1>3. PICK at : Walks(at, t, path) /\ PartAt(t, path) = at[m]
  BY PathDef
<1>4. PICK bt : Walks(bt, t, longer) /\ PartAt(t, longer) = bt[m + 1]
  BY <1>2, PathDef
<1> HIDE DEF longer
<1>5. /\ at \in [0 .. m -> AllTypes] /\ at[0] = t
      /\ \A n \in 1 .. m : at[n] = PartStep(at[n - 1], path[n])
  BY <1>3 DEF Walks
<1>6. bt[0] = t /\ \A n \in 1 .. m + 1 : bt[n] = PartStep(bt[n - 1], longer[n])
  BY <1>2, <1>4 DEF Walks
<1> HIDE DEF m
<1> DEFINE G == {n \in 0 .. m : at[n] = bt[n]}
<1>7. 0 \in G
  BY <1>1, <1>5, <1>6
<1>8. ASSUME NEW n \in 0 .. m - 1, n \in G PROVE n + 1 \in G
  <2>1. n + 1 \in 1 .. m /\ n + 1 \in 1 .. m + 1 /\ (n + 1) - 1 = n /\ n + 1 \in 0 .. m
    BY <1>1
  <2>2. at[n + 1] = PartStep(at[n], path[n + 1])
    BY <1>5, <2>1
  <2>3. bt[n + 1] = PartStep(bt[n], longer[n + 1])
    BY <1>6, <2>1
  <2> QED
    BY <1>2, <1>8, <2>1, <2>2, <2>3
<1> HIDE DEF G
<1>9. 0 .. m \subseteq G
  BY <1>1, <1>7, <1>8, AllUpTo
<1>10. m \in 0 .. m /\ m + 1 \in 1 .. m + 1 /\ (m + 1) - 1 = m
  BY <1>1
<1>11. at[m] = bt[m] /\ at[m] \in AllTypes
  BY <1>5, <1>9, <1>10 DEF G
<1>12. bt[m + 1] = PartStep(bt[m], i)
  BY <1>2, <1>6, <1>10
<1> QED
  BY <1>2, <1>3, <1>4, <1>11, <1>12 DEF longer

(* Two functions of paths that agree on a path when they do on its continuations *)
(* agree everywhere.                                                             *)
AgreeAhead(t, g, h, p) ==
  \A i \in DOMAIN PartsOf(PartAt(t, p)) : g[Append(p, i)] = h[Append(p, i)]

LEMMA PathInduction ==
  ASSUME NEW t \in AllTypes, NEW g, NEW h,
         \A p \in Seq(Nat) : AgreeAhead(t, g, h, p) => g[p] = h[p]
  PROVE  \A p \in Seq(Nat) : g[p] = h[p]
<1> DEFINE G == {n \in Nat : \A p \in Seq(Nat) : PartAt(t, p) \in Types[n] => g[p] = h[p]}
<1>1. 0 \in G
  <2>1. ASSUME NEW p \in Seq(Nat), PartAt(t, p) \in Types[0] PROVE g[p] = h[p]
    <3>1. PartsOf(PartAt(t, p)) = << >>
      BY <2>1, BaseCases
    <3>2. DOMAIN PartsOf(PartAt(t, p)) = {}
      BY <3>1
    <3> QED
      BY <3>2 DEF AgreeAhead
  <2> QED
    BY <2>1
<1>2. ASSUME NEW n \in Nat, n \in G PROVE n + 1 \in G
  <2>1. ASSUME NEW p \in Seq(Nat), PartAt(t, p) \in Types[n + 1] PROVE g[p] = h[p]
    <3> DEFINE parts == PartsOf(PartAt(t, p))
    <3>1. parts \in Seq(Types[n])
      BY <2>1, LevelCases, PartsAre
    <3>2. DOMAIN parts \subseteq Nat /\ \A i \in DOMAIN parts : parts[i] \in Types[n]
      BY <3>1, SeqFacts
    <3>3. ASSUME NEW i \in DOMAIN parts PROVE g[Append(p, i)] = h[Append(p, i)]
      <4>1. PartAt(t, Append(p, i)) = PartStep(PartAt(t, p), i) /\ Append(p, i) \in Seq(Nat)
        BY <3>2, PathStep
      <4>2. PartStep(PartAt(t, p), i) = parts[i]
        BY DEF PartStep
      <4> QED
        BY <1>2, <3>2, <4>1, <4>2
    <3> QED
      BY <3>3 DEF AgreeAhead
  <2> QED
    BY <2>1
<1>3. G \in SUBSET Nat
  OBVIOUS
<1> HIDE DEF G
<1>4. G = Nat
  BY <1>1, <1>2, <1>3, AllNumbers
<1>5. ASSUME NEW p \in Seq(Nat) PROVE g[p] = h[p]
  <2>1. PartAt(t, p) \in AllTypes
    BY PathStep, 0 \in Nat
  <2>2. PICK n \in Nat : PartAt(t, p) \in Types[n]
    BY <2>1 DEF AllTypes
  <2>3. n \in G
    BY <1>4
  <2> QED
    BY <2>2, <2>3 DEF G
<1> QED
  BY <1>5

-----------------------------------------------------------------------------
(* Functions on types that are given by their values for the parts. *)

PartValues(H, t) == [i \in DOMAIN PartsOf(t) |-> H[PartsOf(t)[i]]]

IsFold(H, V, F) ==
  /\ H \in [AllTypes -> V]
  /\ \A t \in AllTypes : H[t] = F[<< t, PartValues(H, t) >>]

LEMMA PartValuesTyped ==
  ASSUME NEW V, NEW D, NEW g, \A u \in D : g[u] \in V, NEW t, PartsOf(t) \in Seq(D)
  PROVE  PartValues(g, t) \in Seq(V)
<1>1. /\ Len(PartsOf(t)) \in Nat /\ DOMAIN PartsOf(t) = 1 .. Len(PartsOf(t))
      /\ \A i \in 1 .. Len(PartsOf(t)) : PartsOf(t)[i] \in D
  BY SeqFacts
<1>2. PartValues(g, t) \in [1 .. Len(PartsOf(t)) -> V]
  BY <1>1 DEF PartValues
<1> QED
  BY <1>1, <1>2, FunctionIsSeq

LEMMA PartValuesAgree ==
  ASSUME NEW D, NEW g, NEW h, \A u \in D : g[u] = h[u], NEW t, PartsOf(t) \in Seq(D)
  PROVE  PartValues(g, t) = PartValues(h, t)
<1>1. \A i \in DOMAIN PartsOf(t) : PartsOf(t)[i] \in D
  BY SeqFacts
<1> QED
  BY <1>1 DEF PartValues

LEMMA LevelParts ==
  ASSUME NEW n \in Nat, NEW t \in Types[n + 1]
  PROVE  PartsOf(t) \in Seq(Types[n])
BY LevelCases, PartsAre

LEMMA FoldExists ==
  ASSUME NEW V, NEW F \in [AllTypes \X Seq(V) -> V]
  PROVE  \E H : IsFold(H, V, F)
<1> DEFINE x == [t \in Types[0] |-> F[<< t, << >> >>]]
           X == UNION {[Types[n] -> V] : n \in Nat}
           G == [q \in (Nat \ {0}) \X X |-> [t \in Types[q[1]] |-> F[<< t, PartValues(q[2], t) >>]]]
<1>0. \A n \in Nat : Types[n] \subseteq AllTypes
  BY DEF AllTypes
<1>1. x \in [Types[0] -> V]
  <2>1. << >> \in Seq(V)
    BY EmptySeq
  <2>2. \A t \in Types[0] : F[<< t, << >> >>] \in V
    BY <1>0, <2>1
  <2> QED
    BY <2>2
<1>2. ASSUME NEW n \in Nat \ {0}, NEW g \in [Types[n - 1] -> V]
      PROVE  /\ G[<< n, g >>] = [t \in Types[n] |-> F[<< t, PartValues(g, t) >>]]
             /\ G[<< n, g >>] \in [Types[n] -> V]
  <2>1. n - 1 \in Nat /\ (n - 1) + 1 = n
    OBVIOUS
  <2>2. g \in X
    BY <2>1
  <2>3. G[<< n, g >>] = [t \in Types[n] |-> F[<< t, PartValues(g, t) >>]]
    BY <2>2
  <2> HIDE DEF G
  <2>4. ASSUME NEW t \in Types[n] PROVE F[<< t, PartValues(g, t) >>] \in V
    <3>1. PartsOf(t) \in Seq(Types[n - 1])
      BY <2>1, LevelParts
    <3>2. PartValues(g, t) \in Seq(V)
      BY <3>1, PartValuesTyped
    <3>3. t \in AllTypes
      BY <1>0
    <3> QED
      BY <3>2, <3>3
  <2> QED
    BY <2>3, <2>4
<1> HIDE DEF x, G, X
<1>3. PICK f : LevelByLevel(f, Types, V, x, G)
  BY <1>1, <1>2, LevelsExist
<1>4. \A n \in Nat : f[n] \in [Types[n] -> V]
  BY <1>3 DEF LevelByLevel
<1>5. ASSUME NEW n \in Nat, NEW t \in Types[n + 1]
      PROVE  f[n + 1][t] = F[<< t, PartValues(f[n], t) >>]
  <2>1. n + 1 \in Nat \ {0} /\ (n + 1) - 1 = n
    OBVIOUS
  <2>2. f[n + 1] = G[<< n + 1, f[n] >>]
    BY <1>3, <2>1 DEF LevelByLevel
  <2>3. G[<< n + 1, f[n] >>] = [u \in Types[n + 1] |-> F[<< u, PartValues(f[n], u) >>]]
    BY <1>2, <1>4, <2>1, ZenonT(40)
  <2> QED
    BY <2>2, <2>3
<1>6. \A n \in Nat : \A t \in Types[n] : f[n + 1][t] = f[n][t]
  <2> DEFINE J == {n \in Nat : \A t \in Types[n] : f[n + 1][t] = f[n][t]}
  <2>1. 0 \in J
    <3>1. ASSUME NEW t \in Types[0] PROVE f[0 + 1][t] = f[0][t]
      <4>1. PartsOf(t) = << >>
        BY BaseCases
      <4>2. PartValues(f[0], t) = << >>
        BY <4>1 DEF PartValues
      <4>3. t \in Types[0 + 1]
        BY TypesStep
      <4>4. f[0][t] = F[<< t, << >> >>]
        BY <1>3 DEF LevelByLevel, x
      <4>5. f[0 + 1][t] = F[<< t, PartValues(f[0], t) >>]
        BY <1>5, <4>3
      <4> QED
        BY <4>2, <4>4, <4>5
    <3> QED
      BY <3>1
  <2>2. ASSUME NEW n \in Nat, n \in J PROVE n + 1 \in J
    <3>1. ASSUME NEW t \in Types[n + 1] PROVE f[(n + 1) + 1][t] = f[n + 1][t]
      <4>1. t \in Types[(n + 1) + 1]
        <5>1. n + 1 \in Nat
          OBVIOUS
        <5>2. Types[n + 1] \subseteq Types[(n + 1) + 1]
          BY <5>1, TypesStep, Zenon
        <5> QED
          BY <5>2
      <4>2. PartsOf(t) \in Seq(Types[n])
        BY LevelParts
      <4>3. PartValues(f[n + 1], t) = PartValues(f[n], t)
        BY <2>2, <4>2, PartValuesAgree, SMTT(30)
      <4>4. f[(n + 1) + 1][t] = F[<< t, PartValues(f[n + 1], t) >>]
        BY <1>5, <4>1
      <4>5. f[n + 1][t] = F[<< t, PartValues(f[n], t) >>]
        BY <1>5
      <4> QED
        BY <4>3, <4>4, <4>5
    <3> QED
      BY <3>1
  <2>3. J \in SUBSET Nat
    OBVIOUS
  <2> HIDE DEF J
  <2>4. J = Nat
    BY <2>1, <2>2, <2>3, AllNumbers
  <2> QED
    BY <2>4 DEF J
<1>7. ASSUME NEW n \in Nat, NEW d \in Nat, NEW t \in Types[n]
      PROVE  f[n + d][t] = f[n][t]
  <2> DEFINE J == {e \in Nat : f[n + e][t] = f[n][t]}
  <2>1. 0 \in J
    OBVIOUS
  <2>2. ASSUME NEW e \in Nat, e \in J PROVE e + 1 \in J
    <3>1. n + (e + 1) = (n + e) + 1 /\ n + e \in Nat
      OBVIOUS
    <3>2. t \in Types[n + e]
      BY TypesRise
    <3> QED
      BY <1>6, <2>2, <3>1, <3>2
  <2>3. J \in SUBSET Nat
    OBVIOUS
  <2> HIDE DEF J
  <2>4. J = Nat
    BY <2>1, <2>2, <2>3, AllNumbers
  <2> QED
    BY <2>4 DEF J
<1> DEFINE Level(t) == CHOOSE n \in Nat : t \in Types[n]
           H == [t \in AllTypes |-> f[Level(t)][t]]
<1>8. ASSUME NEW t \in AllTypes PROVE Level(t) \in Nat /\ t \in Types[Level(t)]
  BY DEF AllTypes
<1> HIDE DEF Level
<1>9. ASSUME NEW n \in Nat, NEW t \in Types[n] PROVE H[t] = f[n][t]
  <2>1. t \in AllTypes
    BY <1>0
  <2> DEFINE l == Level(t)
  <2>2. l \in Nat /\ t \in Types[l] /\ H[t] = f[l][t]
    BY <1>8, <2>1
  <2> HIDE DEF l
  <2>3. CASE l <= n
    <3>1. n - l \in Nat /\ l + (n - l) = n
      BY <2>2, <2>3
    <3>2. f[l + (n - l)][t] = f[l][t]
      BY <1>7, <2>2, <3>1
    <3> QED
      BY <2>2, <3>1, <3>2
  <2>4. CASE n <= l
    <3>1. l - n \in Nat /\ n + (l - n) = l
      BY <2>2, <2>4
    <3>2. f[n + (l - n)][t] = f[n][t]
      BY <1>7, <3>1
    <3> QED
      BY <2>2, <3>1, <3>2
  <2> QED
    BY <2>2, <2>3, <2>4
<1>10. H \in [AllTypes -> V]
  BY <1>4, <1>8
<1> HIDE DEF H
<1>11. ASSUME NEW t \in AllTypes PROVE H[t] = F[<< t, PartValues(H, t) >>]
  <2> DEFINE l == Level(t)
  <2>1. l \in Nat /\ l + 1 \in Nat /\ t \in Types[l]
    BY <1>8
  <2> HIDE DEF l
  <2>2. t \in Types[l + 1]
    BY <2>1, TypesStep
  <2>3. H[t] = f[l + 1][t]
    BY <1>9, <2>1, <2>2
  <2>4. f[l + 1][t] = F[<< t, PartValues(f[l], t) >>]
    BY <1>5, <2>1, <2>2
  <2>5. PartsOf(t) \in Seq(Types[l])
    BY <2>1, <2>2, LevelParts
  <2>6. \A u \in Types[l] : f[l][u] = H[u]
    BY <1>9, <2>1
  <2>7. PartValues(f[l], t) = PartValues(H, t)
    <3>1. \A i \in DOMAIN PartsOf(t) : PartsOf(t)[i] \in Types[l]
      BY <2>5, SeqFacts
    <3>2. \A i \in DOMAIN PartsOf(t) : f[l][PartsOf(t)[i]] = H[PartsOf(t)[i]]
      BY <2>6, <3>1
    <3> QED
      BY <3>2 DEF PartValues
  <2> QED
    BY <2>3, <2>4, <2>7
<1>12. IsFold(H, V, F)
  BY <1>10, <1>11 DEF IsFold
<1> QED
  BY <1>12

-----------------------------------------------------------------------------
(* The keys a type repeats are its own and those of its parts. *)

LEMMA FoldAlongPaths ==
  ASSUME NEW V, NEW F, NEW H, IsFold(H, V, F), NEW t \in AllTypes, NEW p \in Seq(Nat)
  PROVE  LET part == PartAt(t, p)
         IN  /\ part \in AllTypes
             /\ H[part] = F[<< part, PartValues(H, part) >>]
             /\ \A i \in DOMAIN PartsOf(part) :
                  /\ Append(p, i) \in Seq(Nat)
                  /\ H[PartAt(t, Append(p, i))] = PartValues(H, part)[i]
<1> DEFINE part == PartAt(t, p)
<1>1. part \in AllTypes
  BY PathStep, 0 \in Nat
<1>2. PartsOf(part) \in Seq(AllTypes)
  BY <1>1, AllTypesCases
<1>3. DOMAIN PartsOf(part) \subseteq Nat
  BY <1>2, SeqFacts
<1>4. ASSUME NEW i \in DOMAIN PartsOf(part)
      PROVE  /\ Append(p, i) \in Seq(Nat)
             /\ H[PartAt(t, Append(p, i))] = PartValues(H, part)[i]
  <2>1. i \in Nat
    BY <1>3
  <2>2. Append(p, i) \in Seq(Nat) /\ PartAt(t, Append(p, i)) = PartStep(part, i)
    BY <2>1, PathStep
  <2>3. PartStep(part, i) = PartsOf(part)[i]
    BY DEF PartStep
  <2>4. PartValues(H, part)[i] = H[PartsOf(part)[i]]
    BY DEF PartValues
  <2> QED
    BY <2>2, <2>3, <2>4
<1> QED
  BY <1>1, <1>4 DEF IsFold

LEMMA OwnRepeatsAre ==
  ASSUME NEW t \in AllTypes
  PROVE  OwnRepeats(t) \subseteq Keys
<1> SUFFICES ASSUME t.kind = "mapping" PROVE OwnRepeats(t) \subseteq Keys
  BY DEF OwnRepeats
<1>1. t.members \in Seq([key : Keys, value : AllTypes])
  BY AllTypesCases DEF TypeCases
<1>2. /\ DOMAIN t.members = 1 .. Len(t.members)
      /\ \A i \in 1 .. Len(t.members) : t.members[i] \in [key : Keys, value : AllTypes]
  BY <1>1, SeqFacts
<1>3. \A i \in DOMAIN t.members : t.members[i].key \in Keys
  BY <1>2
<1> QED
  BY <1>3 DEF OwnRepeats

KeysOfParts == [q \in AllTypes \X Seq(SUBSET Keys) |->
                  OwnRepeats(q[1]) \cup UNION {q[2][i] : i \in DOMAIN q[2]}]

LEMMA KeysOfPartsTyped == KeysOfParts \in [AllTypes \X Seq(SUBSET Keys) -> SUBSET Keys]
<1>1. ASSUME NEW u \in AllTypes, NEW s \in Seq(SUBSET Keys)
      PROVE  OwnRepeats(u) \cup UNION {s[i] : i \in DOMAIN s} \in SUBSET Keys
  <2>1. DOMAIN s = 1 .. Len(s) /\ \A i \in 1 .. Len(s) : s[i] \in SUBSET Keys
    BY SeqFacts
  <2> QED
    BY <2>1, OwnRepeatsAre
<1> QED
  BY <1>1 DEF KeysOfParts

LEMMA KeysOfPartsAt ==
  ASSUME NEW u \in AllTypes, NEW s \in Seq(SUBSET Keys)
  PROVE  KeysOfParts[<< u, s >>] = OwnRepeats(u) \cup UNION {s[i] : i \in DOMAIN s}
<1> DEFINE q == << u, s >>
<1>1. q \in AllTypes \X Seq(SUBSET Keys) /\ q[1] = u /\ q[2] = s
  OBVIOUS
<1> HIDE DEF q
<1>2. KeysOfParts[q] = OwnRepeats(q[1]) \cup UNION {q[2][i] : i \in DOMAIN q[2]}
  BY <1>1 DEF KeysOfParts
<1>3. KeysOfParts[q] = OwnRepeats(u) \cup UNION {s[i] : i \in DOMAIN s}
  BY <1>1, <1>2
<1> QED
  BY <1>3 DEF q

LEMMA KeysFold ==
  \E H : IsFold(H, SUBSET Keys, KeysOfParts) /\ \A t \in AllTypes : RepeatedKeys(t) = H[t]
<1>1. PICK H : IsFold(H, SUBSET Keys, KeysOfParts)
  BY KeysOfPartsTyped, FoldExists
<1>2. ASSUME NEW t \in AllTypes PROVE RepeatedKeys(t) = H[t]
  <2> DEFINE Body(g) == [p \in Seq(Nat) |->
                           OwnRepeats(PartAt(t, p))
                             \cup UNION {g[Append(p, i)] : i \in DOMAIN PartsOf(PartAt(t, p))}]
             h == [p \in Seq(Nat) |-> H[PartAt(t, p)]]
             keys == CHOOSE g : g = Body(g)
  <2>1. ASSUME NEW p \in Seq(Nat)
        PROVE  h[p] = OwnRepeats(PartAt(t, p))
                        \cup UNION {h[Append(p, i)] : i \in DOMAIN PartsOf(PartAt(t, p))}
    <3> DEFINE part == PartAt(t, p)
               vs == PartValues(H, part)
    <3>1. /\ part \in AllTypes /\ H[part] = KeysOfParts[<< part, vs >>]
          /\ \A i \in DOMAIN PartsOf(part) :
               Append(p, i) \in Seq(Nat) /\ H[PartAt(t, Append(p, i))] = vs[i]
      BY <1>1, FoldAlongPaths
    <3>2. vs \in Seq(SUBSET Keys)
      <4>1. PartsOf(part) \in Seq(AllTypes)
        BY <3>1, AllTypesCases
      <4>2. \A u \in AllTypes : H[u] \in SUBSET Keys
        BY <1>1 DEF IsFold
      <4> QED
        BY <4>1, <4>2, PartValuesTyped
    <3>3. DOMAIN vs = DOMAIN PartsOf(part)
      BY DEF PartValues
    <3>4. \A i \in DOMAIN PartsOf(part) : h[Append(p, i)] = vs[i]
      BY <3>1
    <3>5. h[p] = H[part]
      OBVIOUS
    <3> HIDE DEF part, vs, h
    <3>6. H[part] = OwnRepeats(part) \cup UNION {vs[i] : i \in DOMAIN vs}
      BY <3>1, <3>2, KeysOfPartsAt
    <3>7. {vs[i] : i \in DOMAIN vs} = {h[Append(p, i)] : i \in DOMAIN PartsOf(part)}
      BY <3>3, <3>4
    <3> QED
      BY <3>5, <3>6, <3>7 DEF part
  <2>2. h = Body(h)
    BY <2>1
  <2> HIDE DEF h
  <2>3. keys = Body(keys)
    BY <2>2
  <2>4. RepeatedKeys(t) = keys[<< >>]
    BY DEF RepeatedKeys
  <2> HIDE DEF keys
  <2>5. ASSUME NEW p \in Seq(Nat), AgreeAhead(t, keys, h, p)
        PROVE  keys[p] = h[p]
    <3> DEFINE ps == DOMAIN PartsOf(PartAt(t, p))
    <3>1. {keys[Append(p, i)] : i \in ps} = {h[Append(p, i)] : i \in ps}
      BY <2>5 DEF AgreeAhead
    <3>2. keys[p] = OwnRepeats(PartAt(t, p)) \cup UNION {keys[Append(p, i)] : i \in ps}
      BY <2>3
    <3> QED
      BY <2>1, <3>1, <3>2
  <2>6. \A p \in Seq(Nat) : keys[p] = h[p]
    BY <2>5, PathInduction
  <2>7. << >> \in Seq(Nat) /\ PartAt(t, << >>) = t
    BY PathNil
  <2> QED
    BY <2>4, <2>6, <2>7 DEF h
<1> QED
  BY <1>1, <1>2

LEMMA RepeatedKeysAre ==
  ASSUME NEW t \in AllTypes
  PROVE  /\ RepeatedKeys(t) \subseteq Keys
         /\ RepeatedKeys(t) = OwnRepeats(t) \cup
              UNION {RepeatedKeys(PartsOf(t)[i]) : i \in DOMAIN PartsOf(t)}
<1>1. PICK H : /\ IsFold(H, SUBSET Keys, KeysOfParts)
               /\ \A u \in AllTypes : RepeatedKeys(u) = H[u]
  BY KeysFold
<1> DEFINE vs == PartValues(H, t)
<1>2. PartsOf(t) \in Seq(AllTypes)
  BY AllTypesCases
<1>3. \A u \in AllTypes : H[u] \in SUBSET Keys
  BY <1>1 DEF IsFold
<1>4. vs \in Seq(SUBSET Keys)
  BY <1>2, <1>3, PartValuesTyped
<1>5. H[t] = KeysOfParts[<< t, vs >>]
  BY <1>1 DEF IsFold
<1>6. DOMAIN vs = DOMAIN PartsOf(t) /\ \A i \in DOMAIN PartsOf(t) : vs[i] = H[PartsOf(t)[i]]
  BY DEF PartValues
<1> HIDE DEF vs
<1>7. H[t] = OwnRepeats(t) \cup UNION {vs[i] : i \in DOMAIN vs}
  BY <1>4, <1>5, KeysOfPartsAt
<1>8. \A i \in DOMAIN PartsOf(t) : PartsOf(t)[i] \in AllTypes
  BY <1>2, SeqFacts
<1>9. {vs[i] : i \in DOMAIN vs} = {RepeatedKeys(PartsOf(t)[i]) : i \in DOMAIN PartsOf(t)}
  BY <1>1, <1>6, <1>8
<1>10. RepeatedKeys(t) = H[t]
  BY <1>1
<1> QED
  BY <1>3, <1>7, <1>9, <1>10

-----------------------------------------------------------------------------
(* The first failure of a list. *)

LEMMA FirstFailIs ==
  ASSUME NEW fs, NEW m \in Nat, DOMAIN fs = 1 .. m
  PROVE  /\ FirstFail(fs) = NoFailure <=> \A i \in 1 .. m : fs[i] = NoFailure
         /\ FirstFail(fs) # NoFailure => \E i \in 1 .. m : FirstFail(fs) = fs[i]
<1> DEFINE bad == {i \in DOMAIN fs : fs[i] # NoFailure}
<1>1. CASE bad = {}
  BY <1>1 DEF FirstFail
<1>2. CASE bad # {}
  <2>1. bad \in SUBSET Nat
    OBVIOUS
  <2>2. \E i \in bad : \A j \in bad : i <= j
    BY <1>2, <2>1, Least
  <2> DEFINE first == CHOOSE i \in bad : \A j \in bad : i <= j
  <2>3. first \in bad
    BY <2>2
  <2>4. FirstFail(fs) = fs[first]
    BY <1>2 DEF FirstFail
  <2> HIDE DEF first
  <2> QED
    BY <2>3, <2>4
<1> QED
  BY <1>1, <1>2

DuplicateKey(k) == Failure("duplicate_key", k)

(* What is said of the keys that are repeated. *)
Tells(finding, twice) ==
  IF twice = {} THEN finding = NoFailure ELSE \E k \in twice : finding = DuplicateKey(k)

(* The first key that comes twice is one, when there is one. *)
LEMMA MapOwnDupIs ==
  ASSUME NEW ms, NEW m \in Nat, DOMAIN ms = 1 .. m
  PROVE  Tells(MapOwnDup(ms), OwnRepeats(Mapping(ms)))
<1> DEFINE twice == OwnRepeats(Mapping(ms))
           pairs == {p \in (DOMAIN ms) \X (DOMAIN ms) :
                       p[1] < p[2] /\ ms[p[1]].key = ms[p[2]].key}
           Earliest(p) == \A q \in pairs : p[1] < q[1] \/ (p[1] = q[1] /\ p[2] <= q[2])
           first == CHOOSE p \in pairs : Earliest(p)
<1>1. twice = {ms[p[1]].key : p \in pairs}
  BY DEF OwnRepeats, Mapping
<1>2. MapOwnDup(ms) = IF pairs = {} THEN NoFailure ELSE DuplicateKey(ms[first[2]].key)
  BY DEF MapOwnDup, DuplicateKey
<1>3. CASE pairs = {}
  <2> HIDE DEF first
  <2>1. twice = {} /\ MapOwnDup(ms) = NoFailure
    BY <1>1, <1>2, <1>3
  <2> HIDE DEF twice
  <2>2. Tells(MapOwnDup(ms), twice)
    BY <2>1 DEF Tells
  <2> QED
    BY <2>2 DEF twice
<1>4. CASE pairs # {}
  <2> DEFINE A == {a \in Nat : \E p \in pairs : p[1] = a}
  <2>1. \A p \in pairs : p[1] \in Nat /\ p[2] \in Nat
    OBVIOUS
  <2>2. A \in SUBSET Nat /\ A # {}
    BY <1>4, <2>1
  <2>3. PICK a \in A : \A x \in A : a <= x
    BY <2>2, Least
  <2> DEFINE B == {b \in Nat : \E p \in pairs : p[1] = a /\ p[2] = b}
  <2>4. B \in SUBSET Nat /\ B # {}
    BY <2>1, <2>3
  <2>5. PICK b \in B : \A x \in B : b <= x
    BY <2>4, Least
  <2>6. PICK p \in pairs : p[1] = a /\ p[2] = b
    BY <2>5
  <2>7. ASSUME NEW q \in pairs
        PROVE  p[1] < q[1] \/ (p[1] = q[1] /\ p[2] <= q[2])
    <3>1. q[1] \in Nat /\ q[2] \in Nat /\ q[1] \in A
      BY <2>1
    <3>2. a \in Nat /\ b \in Nat /\ a <= q[1]
      BY <2>3, <2>5, <3>1
    <3>3. CASE a = q[1]
      <4>1. q[2] \in B
        BY <3>1, <3>3
      <4>2. b <= q[2]
        BY <2>5, <4>1, Zenon
      <4> QED
        BY <2>6, <3>3, <4>2, Zenon
    <3>4. CASE a # q[1]
      <4> HIDE DEF A, B, pairs
      <4> QED
        BY <2>6, <3>1, <3>2, <3>4
    <3> QED
      BY <3>3, <3>4
  <2>8. first \in pairs
    BY <2>7
  <2> HIDE DEF first
  <2>9. ms[first[2]].key = ms[first[1]].key /\ ms[first[1]].key \in twice
    BY <1>1, <2>8
  <2> HIDE DEF pairs, twice
  <2>10. MapOwnDup(ms) = DuplicateKey(ms[first[1]].key)
    BY <1>2, <1>4, <2>9
  <2>11. Tells(MapOwnDup(ms), twice)
    BY <2>9, <2>10 DEF Tells
  <2> QED
    BY <2>11 DEF twice
<1> QED
  BY <1>3, <1>4

-----------------------------------------------------------------------------
(* The duplicates that are looked for in a bound type are those it has. *)

OwnScan(t) == IF t.kind = "mapping" THEN MapOwnDup(t.members) ELSE NoFailure

Findings == {NoFailure} \cup {DuplicateKey(k) : k \in Keys}

LEMMA OwnScanIs ==
  ASSUME NEW t \in AllTypes
  PROVE  Tells(OwnScan(t), OwnRepeats(t))
<1>1. CASE t.kind # "mapping"
  BY <1>1 DEF OwnScan, OwnRepeats, Tells
<1>2. CASE t.kind = "mapping"
  <2>1. t.members \in Seq([key : Keys, value : AllTypes]) /\ t = Mapping(t.members)
    BY <1>2, AllTypesCases DEF TypeCases
  <2>2. Len(t.members) \in Nat /\ DOMAIN t.members = 1 .. Len(t.members)
    BY <2>1, SeqFacts
  <2>3. OwnScan(t) = MapOwnDup(t.members)
    BY <1>2 DEF OwnScan
  <2>4. OwnRepeats(t) = OwnRepeats(Mapping(t.members))
    BY <2>1
  <2> QED
    BY <2>2, <2>3, <2>4, MapOwnDupIs
<1> QED
  BY <1>1, <1>2

LEMMA OwnScanTyped ==
  ASSUME NEW t \in AllTypes
  PROVE  OwnScan(t) \in Findings
BY OwnScanIs, OwnRepeatsAre DEF Findings, Tells

(* FirstFail of a failure and then a list of them. *)
LEMMA FirstFailCons ==
  ASSUME NEW f, NEW S, NEW fs \in Seq(S)
  PROVE  LET all == << f >> \o fs
         IN  /\ FirstFail(all) = NoFailure <=>
                  f = NoFailure /\ \A i \in DOMAIN fs : fs[i] = NoFailure
             /\ FirstFail(all) # NoFailure =>
                  FirstFail(all) = f \/ \E i \in DOMAIN fs : FirstFail(all) = fs[i]
<1> DEFINE all == << f >> \o fs
           m == Len(fs)
           T == S \cup {f}
<1>1. m \in Nat /\ DOMAIN fs = 1 .. m
  BY SeqFacts
<1>2. fs \in Seq(T) /\ << f >> \in Seq(T) /\ Len(<< f >>) = 1
  <2>1. Seq(S) \subseteq Seq(T)
    BY SeqMonotonic
  <2> QED
    BY <2>1
<1>3. /\ all \in Seq(T) /\ Len(all) = m + 1
      /\ all[1] = f /\ \A i \in 1 .. m : all[i + 1] = fs[i]
  <2> HIDE DEF T
  <2>1. /\ all \in Seq(T) /\ Len(all) = 1 + m
        /\ \A i \in 1 .. 1 + m : all[i] = IF i <= 1 THEN << f >>[i] ELSE fs[i - 1]
    BY <1>2, ConcatProperties
  <2> HIDE DEF all, m
  <2>2. \A i \in 1 .. m : i + 1 \in 1 .. 1 + m /\ ~ (i + 1 <= 1) /\ (i + 1) - 1 = i
    BY <1>1
  <2>3. 1 \in 1 .. 1 + m /\ << f >>[1] = f /\ 1 + m = m + 1
    BY <1>1
  <2> QED
    BY <2>1, <2>2, <2>3
<1>4. DOMAIN all = 1 .. m + 1 /\ m + 1 \in Nat
  <2> HIDE DEF all
  <2> QED
    BY <1>1, <1>3, SeqFacts
<1> HIDE DEF all, m
<1>5. \A i \in 1 .. m + 1 : i = 1 \/ (i - 1 \in 1 .. m /\ (i - 1) + 1 = i)
  BY <1>1
<1>6. \A i \in 1 .. m + 1 : all[i] = f \/ \E j \in 1 .. m : all[i] = fs[j]
  BY <1>3, <1>5
<1>7. /\ FirstFail(all) = NoFailure <=> \A i \in 1 .. m + 1 : all[i] = NoFailure
      /\ FirstFail(all) # NoFailure => \E i \in 1 .. m + 1 : FirstFail(all) = all[i]
  BY <1>4, FirstFailIs
<1>8. (\A i \in 1 .. m + 1 : all[i] = NoFailure)
        <=> f = NoFailure /\ \A i \in 1 .. m : fs[i] = NoFailure
  <2>1. ASSUME \A i \in 1 .. m + 1 : all[i] = NoFailure
        PROVE  f = NoFailure /\ \A i \in 1 .. m : fs[i] = NoFailure
    <3>1. 1 \in 1 .. m + 1 /\ \A i \in 1 .. m : i + 1 \in 1 .. m + 1
      BY <1>1
    <3> QED
      BY <1>3, <2>1, <3>1
  <2>2. ASSUME f = NoFailure, \A i \in 1 .. m : fs[i] = NoFailure
        PROVE  \A i \in 1 .. m + 1 : all[i] = NoFailure
    BY <1>6, <2>2
  <2> QED
    BY <2>1, <2>2
<1> QED
  BY <1>1, <1>6, <1>7, <1>8 DEF all

ScanOfParts == [q \in AllTypes \X Seq(Findings) |-> FirstFail(<< OwnScan(q[1]) >> \o q[2])]

LEMMA ScanOfPartsTyped == ScanOfParts \in [AllTypes \X Seq(Findings) -> Findings]
<1>1. ASSUME NEW u \in AllTypes, NEW s \in Seq(Findings)
      PROVE  FirstFail(<< OwnScan(u) >> \o s) \in Findings
  <2> DEFINE r == FirstFail(<< OwnScan(u) >> \o s)
  <2>1. r # NoFailure => r = OwnScan(u) \/ \E i \in DOMAIN s : r = s[i]
    BY FirstFailCons
  <2>2. \A i \in DOMAIN s : s[i] \in Findings
    BY SeqFacts
  <2>3. NoFailure \in Findings
    BY DEF Findings
  <2> HIDE DEF r
  <2>4. r \in Findings
    BY <2>1, <2>2, <2>3, OwnScanTyped
  <2> QED
    BY <2>4 DEF r
<1> QED
  BY <1>1 DEF ScanOfParts

LEMMA ScanFold ==
  \E H : IsFold(H, Findings, ScanOfParts) /\ \A t \in AllTypes : DupScan(t) = H[t]
<1>1. PICK H : IsFold(H, Findings, ScanOfParts)
  BY ScanOfPartsTyped, FoldExists
<1>2. ASSUME NEW t \in AllTypes PROVE DupScan(t) = H[t]
  <2> DEFINE Scanned(g, p) == [i \in DOMAIN PartsOf(PartAt(t, p)) |-> g[Append(p, i)]]
             Body(g) == [p \in Seq(Nat) |->
                           FirstFail(<< OwnScan(PartAt(t, p)) >> \o Scanned(g, p))]
             h == [p \in Seq(Nat) |-> H[PartAt(t, p)]]
             scan == CHOOSE g : g = Body(g)
  <2>1. ASSUME NEW p \in Seq(Nat)
        PROVE  h[p] = FirstFail(<< OwnScan(PartAt(t, p)) >> \o Scanned(h, p))
    <3> DEFINE part == PartAt(t, p)
               vs == PartValues(H, part)
    <3>1. /\ part \in AllTypes /\ H[part] = ScanOfParts[<< part, vs >>]
          /\ \A i \in DOMAIN PartsOf(part) :
               Append(p, i) \in Seq(Nat) /\ H[PartAt(t, Append(p, i))] = vs[i]
      BY <1>1, FoldAlongPaths
    <3>2. vs \in Seq(Findings)
      <4>1. PartsOf(part) \in Seq(AllTypes)
        BY <3>1, AllTypesCases
      <4>2. \A u \in AllTypes : H[u] \in Findings
        BY <1>1 DEF IsFold
      <4> QED
        BY <4>1, <4>2, PartValuesTyped
    <3>4. \A i \in DOMAIN PartsOf(part) : h[Append(p, i)] = vs[i]
      BY <3>1
    <3>5. h[p] = H[part]
      OBVIOUS
    <3>3. vs = [i \in DOMAIN PartsOf(part) |-> vs[i]]
      BY DEF PartValues
    <3> HIDE DEF part, vs, h
    <3>6. H[part] = FirstFail(<< OwnScan(part) >> \o vs)
      BY <3>1, <3>2 DEF ScanOfParts
    <3>7. vs = Scanned(h, p)
      BY <3>3, <3>4 DEF part
    <3> QED
      BY <3>5, <3>6, <3>7 DEF part
  <2>2. h = Body(h)
    BY <2>1
  <2> HIDE DEF h
  <2>3. scan = Body(scan)
    BY <2>2
  <2>4. DupScan(t) = scan[<< >>]
    BY DEF DupScan, OwnScan
  <2> HIDE DEF scan
  <2>5. ASSUME NEW p \in Seq(Nat), AgreeAhead(t, scan, h, p)
        PROVE  scan[p] = h[p]
    <3>1. Scanned(scan, p) = Scanned(h, p)
      BY <2>5 DEF AgreeAhead
    <3>2. scan[p] = FirstFail(<< OwnScan(PartAt(t, p)) >> \o Scanned(scan, p))
      BY <2>3
    <3> HIDE DEF Scanned
    <3> QED
      BY <2>1, <3>1, <3>2
  <2>6. \A p \in Seq(Nat) : scan[p] = h[p]
    BY <2>5, PathInduction
  <2>7. << >> \in Seq(Nat) /\ PartAt(t, << >>) = t
    BY PathNil
  <2> QED
    BY <2>4, <2>6, <2>7 DEF h
<1> QED
  BY <1>1, <1>2

(* dup_scan fails exactly on a type that repeats a key, and names one it repeats. *)
ScansRight(t) == Tells(DupScan(t), RepeatedKeys(t))

LEMMA DuplicateIsFailure == \A k : DuplicateKey(k) # NoFailure
<1>1. NoFailure.reason = "none"
  BY DEF NoFailure, Failure
<1>2. \A k : DuplicateKey(k).reason = "duplicate_key"
  BY DEF DuplicateKey, Failure
<1> QED
  BY <1>1, <1>2

LEMMA ScanOfCollection ==
  ASSUME NEW t \in AllTypes, \A i \in DOMAIN PartsOf(t) : ScansRight(PartsOf(t)[i])
  PROVE  ScansRight(t)
<1>1. PICK H : IsFold(H, Findings, ScanOfParts) /\ \A u \in AllTypes : DupScan(u) = H[u]
  BY ScanFold
<1> DEFINE vs == PartValues(H, t)
           ps == DOMAIN PartsOf(t)
<1>2. PartsOf(t) \in Seq(AllTypes) /\ \A i \in ps : PartsOf(t)[i] \in AllTypes
  BY AllTypesCases, SeqFacts
<1>3. vs \in Seq(Findings)
  <2>1. \A u \in AllTypes : H[u] \in Findings
    BY <1>1 DEF IsFold
  <2> QED
    BY <1>2, <2>1, PartValuesTyped
<1>4. DOMAIN vs = ps /\ \A i \in ps : vs[i] = DupScan(PartsOf(t)[i])
  BY <1>1, <1>2 DEF PartValues
<1>5. DupScan(t) = ScanOfParts[<< t, vs >>]
  BY <1>1 DEF IsFold
<1> HIDE DEF vs
<1>6. DupScan(t) = FirstFail(<< OwnScan(t) >> \o vs)
  BY <1>3, <1>5 DEF ScanOfParts
<1>7. /\ DupScan(t) = NoFailure <=> OwnScan(t) = NoFailure /\ \A i \in ps : vs[i] = NoFailure
      /\ DupScan(t) # NoFailure => DupScan(t) = OwnScan(t) \/ \E i \in ps : DupScan(t) = vs[i]
  BY <1>3, <1>4, <1>6, FirstFailCons
<1>8. RepeatedKeys(t) = OwnRepeats(t) \cup UNION {RepeatedKeys(PartsOf(t)[i]) : i \in ps}
  BY RepeatedKeysAre
<1>9. /\ OwnRepeats(t) = {} => OwnScan(t) = NoFailure
      /\ OwnScan(t) # NoFailure => \E k \in OwnRepeats(t) : OwnScan(t) = DuplicateKey(k)
  BY OwnScanIs DEF Tells
<1>10. ASSUME NEW i \in ps
       PROVE  /\ RepeatedKeys(PartsOf(t)[i]) = {} => vs[i] = NoFailure
              /\ vs[i] # NoFailure =>
                   \E k \in RepeatedKeys(PartsOf(t)[i]) : vs[i] = DuplicateKey(k)
  BY <1>4 DEF ScansRight, Tells
<1>11. OwnRepeats(t) # {} => OwnScan(t) # NoFailure
  BY OwnScanIs, DuplicateIsFailure DEF Tells
<1>12. ASSUME NEW i \in ps, RepeatedKeys(PartsOf(t)[i]) # {} PROVE vs[i] # NoFailure
  BY <1>4, <1>12, DuplicateIsFailure DEF ScansRight, Tells
<1>13. CASE RepeatedKeys(t) = {}
  <2>1. OwnRepeats(t) = {} /\ \A i \in ps : RepeatedKeys(PartsOf(t)[i]) = {}
    BY <1>8, <1>13
  <2>2. DupScan(t) = NoFailure
    BY <1>7, <1>9, <1>10, <2>1
  <2> QED
    BY <1>13, <2>2 DEF ScansRight, Tells
<1>14. CASE RepeatedKeys(t) # {}
  <2>1. OwnRepeats(t) # {} \/ \E i \in ps : RepeatedKeys(PartsOf(t)[i]) # {}
    BY <1>8, <1>14
  <2>2. DupScan(t) # NoFailure
    BY <1>7, <1>11, <1>12, <2>1
  <2>3. CASE DupScan(t) = OwnScan(t)
    <3>1. PICK k \in OwnRepeats(t) : OwnScan(t) = DuplicateKey(k)
      BY <1>9, <2>2, <2>3
    <3>2. k \in RepeatedKeys(t)
      BY <1>8
    <3> QED
      BY <1>14, <2>3, <3>1, <3>2 DEF ScansRight, Tells
  <2>4. CASE \E i \in ps : DupScan(t) = vs[i]
    <3>1. PICK i \in ps : DupScan(t) = vs[i]
      BY <2>4
    <3>2. PICK k \in RepeatedKeys(PartsOf(t)[i]) : vs[i] = DuplicateKey(k)
      BY <1>10, <2>2, <3>1
    <3>3. k \in RepeatedKeys(t)
      BY <1>8
    <3> QED
      BY <1>14, <3>1, <3>2, <3>3 DEF ScansRight, Tells
  <2> QED
    BY <1>7, <2>2, <2>3, <2>4
<1> QED
  BY <1>13, <1>14

LEMMA DupScanIsRight ==
  ASSUME NEW t \in AllTypes
  PROVE  ScansRight(t)
<1> DEFINE G == {n \in Nat : \A u \in Types[n] : ScansRight(u)}
<1>1. 0 \in G
  <2>1. ASSUME NEW u \in Types[0] PROVE ScansRight(u)
    <3>1. DOMAIN PartsOf(u) = {}
      <4>1. PartsOf(u) = << >>
        BY BaseCases
      <4> QED
        BY <4>1
    <3>2. u \in AllTypes
      BY DEF AllTypes
    <3> QED
      BY <3>1, <3>2, ScanOfCollection
  <2> QED
    BY <2>1
<1>2. ASSUME NEW n \in Nat, n \in G PROVE n + 1 \in G
  <2>1. ASSUME NEW u \in Types[n + 1] PROVE ScansRight(u)
    <3>1. PartsOf(u) \in Seq(Types[n])
      BY LevelParts
    <3>2. \A i \in DOMAIN PartsOf(u) : PartsOf(u)[i] \in Types[n]
      BY <3>1, SeqFacts
    <3>3. u \in AllTypes
      BY DEF AllTypes
    <3> QED
      BY <1>2, <3>2, <3>3, ScanOfCollection
  <2> QED
    BY <2>1
<1>3. G \in SUBSET Nat
  OBVIOUS
<1> HIDE DEF G
<1>4. G = Nat
  BY <1>1, <1>2, <1>3, AllNumbers
<1>5. PICK n \in Nat : t \in Types[n]
  BY DEF AllTypes
<1> QED
  BY <1>4, <1>5 DEF G

-----------------------------------------------------------------------------
(* The binder's proofs speak of the same lines and of the same tree. *)

LEMMA SameLines ==
  /\ R!Line = Line
  /\ R!Leaf = Leaf
BY DEF R!Line, Line, R!Leaf, Leaf

LEMMA SameNodes == \A ls : R!Tree!Nodes(ls) = Tree!Nodes(ls)
BY DEF R!Tree!Nodes, Tree!Nodes, R!Tree!NodesOfLast, Tree!NodesOfLast,
       R!Tree!LineNodes, Tree!LineNodes, R!Tree!Column, Tree!Column,
       R!Tree!Columns, Tree!Columns

LEMMA SameParent == \A ns, k : R!Tree!Parent(ns, k) = Tree!Parent(ns, k)
BY DEF R!Tree!Parent, Tree!Parent, R!Tree!Encloses, Tree!Encloses,
       R!Tree!IsEntry, Tree!IsEntry

LEMMA SameChildren == \A ns, k : R!Tree!Children(ns, k) = Tree!Children(ns, k)
BY DEF R!Tree!Children, Tree!Children, R!Tree!ChildrenUpTo, Tree!ChildrenUpTo,
       R!Tree!Parent, Tree!Parent, R!Tree!Encloses, Tree!Encloses,
       R!Tree!IsEntry, Tree!IsEntry

LEMMA SameIndent == \A ns : R!Tree!WellIndented(ns) = Tree!WellIndented(ns)
BY SameParent, SameChildren DEF R!Tree!WellIndented, Tree!WellIndented,
       R!Tree!HasRoom, Tree!HasRoom, R!Tree!IsBlock, Tree!IsBlock,
       R!Tree!IsEntry, Tree!IsEntry

LEMMA SameRepeats == \A ns, k : R!Tree!Repeated(ns, k) = Tree!Repeated(ns, k)
BY SameParent DEF R!Tree!Repeated, Tree!Repeated, R!Tree!IsEntry, Tree!IsEntry

LEMMA SameStart ==
  ASSUME lines \in Seq(Line), rest = lines, frames = << >>, built = << >>, pc = "start",
         blk = [type |-> Null, ok |-> TRUE]
  PROVE  R!BinderInv
<1>1. R!Init
  BY SameLines, SMTT(30) DEF R!Init, Null, R!Null
<1> QED
  BY <1>1, KeysAssumption, SameLines, R!InitBinder DEF R!InitBinder

LEMMA SameStep ==
  ASSUME pc # "gather", Binder!Next
  PROVE  R!Next
BY DEF R!Next, R!BindEmpty, R!BindBody, R!BindFinish, R!ParseBlockPair, R!ParseBlockSeqitem,
       R!ParseBlockValue, R!NestedDeeper, R!NestedSameIndentSeq, R!NestedNull, R!LoopDeeper,
       R!MapEnd, R!MapEntryValue, R!MapEntryNested, R!MapEntryResume, R!SeqEnd,
       R!SeqEntryAlone, R!SeqEntryInner, R!SeqEntryResume, R!Terminated, R!vars,
       R!Enter, R!Answer, R!Leave, R!Fold, R!Collect, R!Deeper, R!MapEnds, R!SeqEnds, R!SameIndentSeq,
       R!Top, R!Current, R!FrameOf,
       R!NodeIsSeqitem, R!NodeIsPair, R!HasInner, R!Synthetic, R!Null, R!Sequence,
       R!Mapping, R!Member, R!MembersUnique,
       Binder!Next, Binder!BindEmpty, Binder!BindBody, Binder!BindFinish,
       Binder!ParseBlockPair, Binder!ParseBlockSeqitem,
       Binder!ParseBlockValue, Binder!NestedDeeper, Binder!NestedSameIndentSeq,
       Binder!NestedNull, Binder!LoopDeeper,
       Binder!MapEnd, Binder!MapEntryValue, Binder!MapEntryNested, Binder!MapEntryResume,
       Binder!SeqEnd, Binder!SeqEntryAlone, Binder!SeqEntryInner, Binder!SeqEntryResume,
       Binder!Terminated, Binder!vars,
       Binder!Enter, Binder!Answer, Binder!Leave, Binder!Fold, Binder!Collect,
       Binder!Deeper, Binder!SameIndentSeq, Binder!MapEnds, Binder!SeqEnds, Binder!Top, Binder!Current,
       Binder!FrameOf,
       Binder!NodeIsSeqitem, Binder!NodeIsPair, Binder!HasInner, Binder!Synthetic,
       Binder!Null, Binder!Sequence, Binder!Mapping, Binder!Member, Binder!MembersUnique

-----------------------------------------------------------------------------
(* The gather pass. *)

LEMMA PlacesDef ==
  ASSUME NEW m \in Nat, m = Len(segs)
  PROVE  /\ PlacesUpTo[0] = << >>
         /\ \A n \in 1 .. m :
              PlacesUpTo[n] = IF segs[n].nl THEN PlacesUpTo[n - 1]
                              ELSE Append(PlacesUpTo[n - 1], n)
<1> DEFINE X == Seq(Nat)
           F == [q \in (1 .. m) \X X |-> IF segs[q[1]].nl THEN q[2] ELSE Append(q[2], q[1])]
           Body(g) == [n \in 0 .. m |->
                         IF n = 0 THEN << >>
                         ELSE IF segs[n].nl THEN g[n - 1] ELSE Append(g[n - 1], n)]
<1>1. F \in [(1 .. m) \X X -> X]
  <2>1. ASSUME NEW n \in 1 .. m, NEW s \in X
        PROVE  (IF segs[n].nl THEN s ELSE Append(s, n)) \in X
    <3>1. Append(s, n) \in X
      BY AppendProperties
    <3> QED
      BY <3>1
  <2> QED
    BY <2>1
<1>2. \A n \in 1 .. m, s \in X : F[<< n, s >>] = IF segs[n].nl THEN s ELSE Append(s, n)
  OBVIOUS
<1>3. << >> \in X
  BY EmptySeq
<1> HIDE DEF F, X
<1>4. PICK f : IteratesUpTo(f, m, X, << >>, F)
  BY <1>1, <1>3, RecursionUpTo
<1>5. f = Body(f)
  <2>1. f \in [0 .. m -> X] /\ f[0] = << >>
    BY <1>4 DEF IteratesUpTo
  <2>2. ASSUME NEW n \in 1 .. m
        PROVE  f[n] = IF segs[n].nl THEN f[n - 1] ELSE Append(f[n - 1], n)
    <3>1. n - 1 \in 0 .. m
      OBVIOUS
    <3>2. f[n] = F[<< n, f[n - 1] >>]
      BY <1>4 DEF IteratesUpTo
    <3> QED
      BY <1>2, <2>1, <3>1, <3>2
  <2>3. f = [n \in 0 .. m |-> f[n]]
    BY <2>1
  <2>4. \A n \in 0 .. m : f[n] = IF n = 0 THEN << >>
                                ELSE IF segs[n].nl THEN f[n - 1] ELSE Append(f[n - 1], n)
    <3>1. \A n \in 0 .. m : n = 0 \/ (n # 0 /\ n \in 1 .. m)
      OBVIOUS
    <3> QED
      BY <2>1, <2>2, <3>1
  <2> QED
    BY <2>3, <2>4
<1> DEFINE places == CHOOSE g : g = Body(g)
<1>7. PlacesUpTo = places
  BY DEF PlacesUpTo
<1> HIDE DEF Body
<1>6. places = Body(places)
  BY <1>5
<1> HIDE DEF places
<1>8. \A n \in 0 .. m : places[n] = IF n = 0 THEN << >>
                                   ELSE IF segs[n].nl THEN places[n - 1]
                                   ELSE Append(places[n - 1], n)
  BY <1>6 DEF Body
<1> QED
  BY <1>7, <1>8

(* A line is a content node, at the column it has in the text. *)
LineOf(l, t, a) ==
  /\ ~ t[a].nl
  /\ l.leaf = t[a].leaf
  /\ l.indent = IF \E b \in 1 .. a : t[b].nl THEN t[a].column ELSE 0

(* The lines ls are the content nodes of the first n segments of t, at ps. *)
GatheredFrom(t, ps, ls, n) ==
  /\ ls \in Seq(Line)
  /\ ps \in Seq(Nat) /\ DOMAIN ps = 1 .. Len(ls)
  /\ \A i \in 1 .. Len(ls) : ps[i] \in 1 .. n /\ LineOf(ls[i], t, ps[i])
  /\ \A a \in 1 .. n : ~ t[a].nl => \E i \in 1 .. Len(ls) : ps[i] = a

(* The indent of the line that is being read after the first n segments of t. *)
IndentAfter(t, n, c) ==
  /\ c \in Nat
  /\ n # 0 /\ t[n].nl => c = t[n].spaces
  /\ (\A b \in 1 .. n : ~ t[b].nl) => c = 0

(* What is still to do of t after the first n segments. *)
LeftAfter(t, n, td) ==
  /\ td \in Seq(NlToken \cup ContentNode)
  /\ Len(td) = Len(t) - n
  /\ \A i \in 1 .. Len(td) : td[i] = t[n + i]

GatheredUpTo(n) ==
  /\ GatheredFrom(segs, PlacesUpTo[n], lines, n)
  /\ IndentAfter(segs, n, cur)
  /\ LeftAfter(segs, n, todo)

Unbound ==
  rest = << >> /\ frames = << >> /\ built = << >> /\ blk = [type |-> Null, ok |-> TRUE]

Gathering == Unbound /\ \E n \in 0 .. Len(segs) : GatheredUpTo(n)

Gathered == GatheredFrom(segs, Places, lines, Len(segs))

Reported == report # NoReport => pc = "done" /\ report = DocFail

(***************************************************************************)
(* The inductive invariant: until the gather pass is over the lines are    *)
(* the content nodes of what it has looked at, and from then on those of   *)
(* the whole text, with the binder's own invariant.                        *)
(***************************************************************************)
DiagnosisInv ==
  /\ segs \in Texts
  /\ pc = "gather" => Gathering
  /\ pc # "gather" => Gathered /\ R!BinderInv
  /\ Reported

LEMMA TextFacts ==
  ASSUME NEW t \in Texts
  PROVE  /\ t \in Seq(NlToken \cup ContentNode)
         /\ Len(t) \in Nat /\ DOMAIN t = 1 .. Len(t)
         /\ \A a \in 1 .. Len(t) : t[a] \in NlToken \cup ContentNode
         /\ LineByLine(t)
         /\ \A a \in 1 .. Len(t) : ~ t[a].nl => FlagsAgree(t[a])
<1>1. t \in Seq(NlToken \cup ContentNode) /\ LineByLine(t)
      /\ \A i \in DOMAIN t : ~ t[i].nl => FlagsAgree(t[i])
  BY TextsAssumption
<1>2. /\ Len(t) \in Nat /\ DOMAIN t = 1 .. Len(t)
      /\ \A a \in 1 .. Len(t) : t[a] \in NlToken \cup ContentNode
  BY <1>1, SeqFacts
<1> QED
  BY <1>1, <1>2

LEMMA SegmentFacts ==
  ASSUME NEW c \in NlToken \cup ContentNode
  PROVE  /\ c.nl => c \in NlToken /\ c.spaces \in Nat
         /\ ~ c.nl => /\ c \in ContentNode /\ c.column \in Nat /\ c.leaf \in Leaf
                      /\ \A i \in Nat :
                           [indent |-> i, dashes |-> c.dashes, leaf |-> c.leaf] \in Line
BY DEF NlToken, ContentNode, Line

LEMMA InitDiagnosis == Init => DiagnosisInv
<1> SUFFICES ASSUME Init PROVE DiagnosisInv
  OBVIOUS
<1>1. /\ segs \in Texts /\ todo = segs /\ cur = 0 /\ lines = << >> /\ rest = << >>
      /\ frames = << >> /\ built = << >> /\ pc = "gather"
      /\ blk = [type |-> Null, ok |-> TRUE] /\ report = NoReport
  BY DEF Init
<1>2. segs \in Seq(NlToken \cup ContentNode) /\ Len(segs) \in Nat
  BY <1>1, TextFacts
<1>3. PlacesUpTo[0] = << >>
  BY <1>2, PlacesDef
<1>4. << >> \in Seq(Line) /\ << >> \in Seq(Nat) /\ Len(<< >>) = 0
  BY EmptySeq
<1>5. GatheredFrom(segs, PlacesUpTo[0], lines, 0)
  BY <1>1, <1>3, <1>4 DEF GatheredFrom
<1>6. IndentAfter(segs, 0, cur)
  BY <1>1 DEF IndentAfter
<1>7. LeftAfter(segs, 0, todo)
  BY <1>1, <1>2 DEF LeftAfter
<1>8. 0 \in 0 .. Len(segs)
  BY <1>2
<1>9. Gathering
  BY <1>1, <1>5, <1>6, <1>7, <1>8 DEF Gathering, Unbound, GatheredUpTo
<1> QED
  BY <1>1, <1>9 DEF DiagnosisInv, Reported

(* The head of what is left is the next segment. *)
LEMMA NextSegment ==
  ASSUME NEW t \in Texts, NEW n \in 0 .. Len(t), NEW td, LeftAfter(t, n, td), td # << >>
  PROVE  /\ n + 1 \in 1 .. Len(t) /\ Head(td) = t[n + 1]
         /\ LeftAfter(t, n + 1, Tail(td))
<1> DEFINE S == NlToken \cup ContentNode
           m == Len(t)
           k == Len(td)
<1>0. m \in Nat
  BY TextFacts
<1>1. td \in Seq(S) /\ k = m - n /\ \A i \in 1 .. k : td[i] = t[n + i]
  BY DEF LeftAfter
<1>2. k \in Nat \ {0} /\ Head(td) = td[1] /\ Tail(td) \in Seq(S) /\ Len(Tail(td)) = k - 1
      /\ \A i \in 1 .. k - 1 : Tail(td)[i] = td[i + 1]
  BY <1>1, HeadTailProperties, EmptySeq, LenProperties
<1> HIDE DEF S, m, k
<1>3. n + 1 \in 1 .. m /\ 1 \in 1 .. k /\ k - 1 = m - (n + 1)
  BY <1>0, <1>1, <1>2 DEF m
<1>4. ASSUME NEW i \in 1 .. k - 1 PROVE Tail(td)[i] = t[(n + 1) + i]
  <2>1. i + 1 \in 1 .. k /\ n + (i + 1) = (n + 1) + i
    BY <1>2
  <2> QED
    BY <1>1, <1>2, <2>1
<1>5. Head(td) = t[n + 1]
  BY <1>1, <1>2, <1>3
<1>6. LeftAfter(t, n + 1, Tail(td))
  BY <1>2, <1>3, <1>4 DEF LeftAfter, S, m
<1> QED
  BY <1>3, <1>5, <1>6 DEF m

LEMMA AfterNlToken ==
  ASSUME NEW t \in Texts, NEW n \in 0 .. Len(t), n + 1 \in 1 .. Len(t), t[n + 1].nl,
         NEW ps, NEW ls, GatheredFrom(t, ps, ls, n), NEW c
  PROVE  /\ GatheredFrom(t, ps, ls, n + 1)
         /\ IndentAfter(t, n + 1, NlIndent(t[n + 1]))
<1>1. t[n + 1] \in NlToken /\ t[n + 1].spaces \in Nat
  BY TextFacts, SegmentFacts
<1>2. NlIndent(t[n + 1]) = t[n + 1].spaces
  BY <1>1 DEF NlIndent, NlSize, NewlineAt
<1>3. n + 1 # 0 /\ n \in Nat
  BY TextFacts
<1>4. IndentAfter(t, n + 1, NlIndent(t[n + 1]))
  <2>1. n + 1 \in 1 .. n + 1
    BY <1>3
  <2> QED
    BY <1>1, <1>2, <2>1 DEF IndentAfter
<1>5. \A a \in 1 .. n + 1 : a \in 1 .. n \/ a = n + 1
  BY <1>3
<1>6. \A a \in 1 .. n : a \in 1 .. n + 1
  BY <1>3
<1>7. GatheredFrom(t, ps, ls, n + 1)
  <2>1. \A i \in 1 .. Len(ls) : ps[i] \in 1 .. n + 1 /\ LineOf(ls[i], t, ps[i])
    BY <1>6 DEF GatheredFrom
  <2>2. ASSUME NEW a \in 1 .. n + 1, ~ t[a].nl PROVE \E i \in 1 .. Len(ls) : ps[i] = a
    BY <1>5, <2>2 DEF GatheredFrom
  <2> QED
    BY <2>1, <2>2 DEF GatheredFrom
<1> QED
  BY <1>4, <1>7

LEMMA AfterContent ==
  ASSUME NEW t \in Texts, NEW n \in 0 .. Len(t), n + 1 \in 1 .. Len(t), ~ t[n + 1].nl,
         NEW ps, NEW ls, GatheredFrom(t, ps, ls, n), NEW c, IndentAfter(t, n, c),
         NEW l, l = [indent |-> c, dashes |-> t[n + 1].dashes, leaf |-> t[n + 1].leaf]
  PROVE  /\ GatheredFrom(t, Append(ps, n + 1), Append(ls, l), n + 1)
         /\ IndentAfter(t, n + 1, c)
<1> DEFINE m == Len(ls)
           qs == Append(ps, n + 1)
           ms == Append(ls, l)
<1>0. n \in Nat /\ n + 1 \in Nat /\ \A a \in 1 .. n + 1 : a \in 1 .. n \/ a = n + 1
  BY TextFacts
<1>1. c \in Nat /\ ls \in Seq(Line) /\ ps \in Seq(Nat) /\ DOMAIN ps = 1 .. m /\ m \in Nat
  BY LenProperties DEF IndentAfter, GatheredFrom
<1>2. l \in Line
  BY <1>1, TextFacts, SegmentFacts
<1>3. Len(ps) = m
  BY <1>1, SeqFacts
<1>4. /\ ms \in Seq(Line) /\ Len(ms) = m + 1 /\ ms[m + 1] = l
      /\ \A i \in 1 .. m : ms[i] = ls[i]
  BY <1>1, <1>2, AppendProperties
<1>5. /\ qs \in Seq(Nat) /\ Len(qs) = m + 1 /\ qs[m + 1] = n + 1
      /\ \A i \in 1 .. m : qs[i] = ps[i]
  BY <1>0, <1>1, <1>3, AppendProperties
<1>6. DOMAIN qs = 1 .. m + 1
  BY <1>5, SeqFacts
<1>7. LineOf(l, t, n + 1)
  <2>1. CASE n = 0
    <3>1. \A b \in 1 .. n + 1 : ~ t[b].nl
      BY <1>0, <2>1
    <3>2. c = 0
      <4>1. \A b \in 1 .. n : ~ t[b].nl
        BY <2>1
      <4> QED
        BY <4>1 DEF IndentAfter
    <3> QED
      BY <3>1, <3>2 DEF LineOf
  <2>2. CASE n # 0
    <3>1. n + 1 \in DOMAIN t /\ n + 1 > 1 /\ (n + 1) - 1 = n
      BY <2>2, TextFacts
    <3>2. t[n].nl /\ t[n + 1].column = t[n].spaces
      BY <3>1, TextFacts DEF LineByLine
    <3>3. n \in 1 .. n + 1
      BY <1>0, <2>2
    <3>4. c = t[n].spaces
      BY <2>2, <3>2 DEF IndentAfter
    <3> QED
      BY <3>2, <3>3, <3>4 DEF LineOf
  <2> QED
    BY <2>1, <2>2
<1> HIDE DEF qs, ms, m
<1>8. \A i \in 1 .. m + 1 : i \in 1 .. m \/ i = m + 1
  BY <1>1
<1>9. \A i \in 1 .. m : ps[i] \in 1 .. n /\ LineOf(ls[i], t, ps[i])
  BY DEF GatheredFrom, m
<1>10. ASSUME NEW i \in 1 .. m + 1
       PROVE  qs[i] \in 1 .. n + 1 /\ LineOf(ms[i], t, qs[i])
  <2>1. CASE i = m + 1
    <3>1. n + 1 \in 1 .. n + 1
      BY <1>0
    <3> QED
      BY <1>4, <1>5, <1>7, <2>1, <3>1
  <2>2. CASE i \in 1 .. m
    <3>1. qs[i] = ps[i] /\ ms[i] = ls[i]
      BY <1>4, <1>5, <2>2
    <3>2. ps[i] \in 1 .. n + 1
      BY <1>0, <1>9, <2>2
    <3> QED
      BY <1>9, <2>2, <3>1, <3>2
  <2> QED
    BY <1>8, <2>1, <2>2
<1>11. ASSUME NEW a \in 1 .. n + 1, ~ t[a].nl
       PROVE  \E i \in 1 .. m + 1 : qs[i] = a
  <2>1. CASE a = n + 1
    <3>1. m + 1 \in 1 .. m + 1
      BY <1>1
    <3> QED
      BY <1>5, <2>1, <3>1
  <2>2. CASE a \in 1 .. n
    <3>1. PICK i \in 1 .. m : ps[i] = a
      BY <1>11, <2>2 DEF GatheredFrom, m
    <3>2. i \in 1 .. m + 1
      BY <1>1
    <3> QED
      BY <1>5, <3>1, <3>2
  <2> QED
    BY <1>0, <2>1, <2>2
<1>12. GatheredFrom(t, qs, ms, n + 1)
  BY <1>4, <1>5, <1>6, <1>10, <1>11 DEF GatheredFrom
<1>13. IndentAfter(t, n + 1, c)
  <2>1. (\A b \in 1 .. n + 1 : ~ t[b].nl) => \A b \in 1 .. n : ~ t[b].nl
    BY <1>0
  <2> QED
    BY <2>1 DEF IndentAfter
<1> QED
  BY <1>12, <1>13 DEF qs, ms

LEMMA SamePlaces == segs' = segs => PlacesUpTo' = PlacesUpTo
BY DEF PlacesUpTo

NextGathering(n) ==
  /\ GatheredFrom(segs, PlacesUpTo[n], lines', n)
  /\ IndentAfter(segs, n, cur')
  /\ LeftAfter(segs, n, todo')

LEMMA GatheringGoesOn ==
  ASSUME segs' = segs, report' = report, report = NoReport, pc' = "gather",
         UNCHANGED << rest, frames, built, blk >>, Unbound, segs \in Texts,
         NEW n \in 0 .. Len(segs), NextGathering(n)
  PROVE  DiagnosisInv'
<1>1. PlacesUpTo' = PlacesUpTo
  BY SamePlaces
<1>2. GatheredUpTo(n)'
  BY <1>1 DEF GatheredUpTo, NextGathering
<1>3. Unbound'
  BY DEF Unbound
<1>4. Gathering'
  BY <1>2, <1>3 DEF Gathering
<1>5. Reported'
  BY DEF Reported, NoReport
<1> QED
  BY <1>4, <1>5 DEF DiagnosisInv

LEMMA ReportedInTime ==
  ASSUME DiagnosisInv, pc # "done"
  PROVE  report = NoReport
BY DEF DiagnosisInv, Reported

LEMMA NextGatherNl ==
  ASSUME DiagnosisInv, GatherNl
  PROVE  DiagnosisInv'
<1>1. /\ pc = "gather" /\ todo # << >> /\ Head(todo).nl /\ cur' = NlIndent(Head(todo))
      /\ todo' = Tail(todo) /\ segs' = segs /\ lines' = lines /\ report' = report /\ pc' = pc
      /\ UNCHANGED << rest, frames, built, blk >>
  BY DEF GatherNl, binderVars
<1>2. segs \in Texts /\ Unbound /\ Gathering
  BY <1>1 DEF DiagnosisInv, Gathering
<1>3. PICK n \in 0 .. Len(segs) : GatheredUpTo(n)
  BY <1>2 DEF Gathering
<1>4. n + 1 \in 1 .. Len(segs) /\ Head(todo) = segs[n + 1] /\ LeftAfter(segs, n + 1, Tail(todo))
  BY <1>1, <1>2, <1>3, NextSegment DEF GatheredUpTo
<1>5. /\ GatheredFrom(segs, PlacesUpTo[n], lines, n + 1)
      /\ IndentAfter(segs, n + 1, NlIndent(segs[n + 1]))
  BY <1>1, <1>2, <1>3, <1>4, AfterNlToken DEF GatheredUpTo
<1>6. PlacesUpTo[n + 1] = PlacesUpTo[n]
  <2>1. (n + 1) - 1 = n /\ Len(segs) \in Nat
    BY <1>2, TextFacts
  <2>2. PlacesUpTo[n + 1] = IF segs[n + 1].nl THEN PlacesUpTo[(n + 1) - 1]
                            ELSE Append(PlacesUpTo[(n + 1) - 1], n + 1)
    BY <1>4, <2>1, PlacesDef
  <2> QED
    BY <1>1, <1>4, <2>1, <2>2
<1>7. NextGathering(n + 1)
  BY <1>1, <1>4, <1>5, <1>6 DEF NextGathering
<1>8. n + 1 \in 0 .. Len(segs)
  BY <1>4
<1> QED
  BY <1>1, <1>2, <1>7, <1>8, ReportedInTime, GatheringGoesOn

LEMMA NextGatherContent ==
  ASSUME DiagnosisInv, GatherContent
  PROVE  DiagnosisInv'
<1> DEFINE c == Head(todo)
           l == [indent |-> cur, dashes |-> c.dashes, leaf |-> c.leaf]
<1>1. /\ pc = "gather" /\ todo # << >> /\ ~ c.nl /\ cur' = cur
      /\ todo' = Tail(todo) /\ segs' = segs /\ report' = report /\ pc' = pc
      /\ lines' = Append(lines, l)
      /\ UNCHANGED << rest, frames, built, blk >>
  BY DEF GatherContent
<1>2. segs \in Texts /\ Unbound /\ Gathering
  BY <1>1 DEF DiagnosisInv, Gathering
<1>3. PICK n \in 0 .. Len(segs) : GatheredUpTo(n)
  BY <1>2 DEF Gathering
<1>4. n + 1 \in 1 .. Len(segs) /\ c = segs[n + 1] /\ LeftAfter(segs, n + 1, Tail(todo))
  BY <1>1, <1>2, <1>3, NextSegment DEF GatheredUpTo
<1> DEFINE ps == PlacesUpTo[n]
<1>5. GatheredFrom(segs, ps, lines, n) /\ IndentAfter(segs, n, cur)
  BY <1>3 DEF GatheredUpTo
<1>6. PlacesUpTo[n + 1] = Append(ps, n + 1)
  <2>1. (n + 1) - 1 = n /\ Len(segs) \in Nat
    BY <1>2, TextFacts
  <2>2. PlacesUpTo[n + 1] = IF segs[n + 1].nl THEN PlacesUpTo[(n + 1) - 1]
                            ELSE Append(PlacesUpTo[(n + 1) - 1], n + 1)
    BY <1>4, <2>1, PlacesDef
  <2> QED
    BY <1>1, <1>4, <2>1, <2>2
<1>7. l = [indent |-> cur, dashes |-> segs[n + 1].dashes, leaf |-> segs[n + 1].leaf]
  BY <1>4
<1>8. ~ segs[n + 1].nl
  BY <1>1, <1>4
<1> HIDE DEF l, ps, c
<1>9. /\ GatheredFrom(segs, Append(ps, n + 1), Append(lines, l), n + 1)
      /\ IndentAfter(segs, n + 1, cur)
  BY <1>2, <1>4, <1>5, <1>7, <1>8, AfterContent
<1>10. NextGathering(n + 1)
  BY <1>1, <1>4, <1>6, <1>9 DEF NextGathering
<1>11. n + 1 \in 0 .. Len(segs)
  BY <1>4
<1> QED
  BY <1>1, <1>2, <1>10, <1>11, ReportedInTime, GatheringGoesOn

(* The state in which the binder begins. *)
Start ==
  /\ lines \in Seq(Line) /\ rest = lines /\ frames = << >> /\ built = << >> /\ pc = "start"
  /\ blk = [type |-> Null, ok |-> TRUE]

LEMMA NextStart == Start' => R!BinderInv'
<1>1. Start => R!BinderInv
  BY SameStart DEF Start
<1> QED
  BY <1>1, PTL

LEMMA NextGatherEnd ==
  ASSUME DiagnosisInv, GatherEnd
  PROVE  DiagnosisInv'
<1>1. /\ pc = "gather" /\ todo = << >> /\ pc' = "start" /\ rest' = lines /\ segs' = segs
      /\ lines' = lines /\ frames' = frames /\ built' = built /\ blk' = blk
      /\ report' = report
  BY DEF GatherEnd, gatherVars
<1>2. segs \in Texts /\ Unbound /\ Gathering
  BY <1>1 DEF DiagnosisInv, Gathering
<1>3. PICK n \in 0 .. Len(segs) : GatheredUpTo(n)
  BY <1>2 DEF Gathering
<1>4. n = Len(segs)
  <2>1. Len(segs) - n = 0
    BY <1>1, <1>3 DEF GatheredUpTo, LeftAfter
  <2>2. Len(segs) \in Nat
    BY <1>2, TextFacts
  <2> QED
    BY <2>1, <2>2
<1>5. Gathered
  BY <1>3, <1>4 DEF Gathered, GatheredUpTo, Places
<1>6. Gathered'
  <2>1. PlacesUpTo' = PlacesUpTo
    BY <1>1, SamePlaces
  <2>2. Places' = Places
    BY <1>1, <2>1 DEF Places
  <2> QED
    BY <1>1, <1>5, <2>2 DEF Gathered
<1>7. lines \in Seq(Line)
  BY <1>5 DEF Gathered, GatheredFrom
<1>8. Start'
  BY <1>1, <1>2, <1>7 DEF Start, Unbound
<1>9. R!BinderInv'
  BY <1>8, NextStart
<1>10. Reported'
  BY <1>1, ReportedInTime DEF Reported, NoReport
<1> QED
  BY <1>1, <1>2, <1>6, <1>9, <1>10 DEF DiagnosisInv

LEMMA BinderGoesOn == R!BinderInv /\ [R!Next]_R!vars => R!BinderInv'
BY KeysAssumption, SameLines, R!NextBinder DEF R!NextBinder

LEMMA LinesKept ==
  ASSUME R!BinderInv, R!Next
  PROVE  lines' = lines
<1>1. R!TypeOK /\ R!RestReal
  BY DEF R!BinderInv
<1> QED
  BY <1>1, KeysAssumption, SameLines, R!NextRest DEF R!NextRest

LEMMA NextBind ==
  ASSUME DiagnosisInv, Bind
  PROVE  DiagnosisInv'
<1>1. pc \notin {"gather", "done"} /\ Binder!Next /\ segs' = segs /\ report' = report
  BY DEF Bind, gatherVars
<1>2. segs \in Texts /\ Gathered /\ R!BinderInv
  BY <1>1 DEF DiagnosisInv
<1>3. R!Next
  BY <1>1, SameStep
<1>4. R!BinderInv'
  BY <1>2, <1>3, BinderGoesOn
<1>5. lines' = lines
  BY <1>2, <1>3, LinesKept
<1>6. Gathered'
  <2>1. Places' = Places
    BY <1>1, SamePlaces DEF Places
  <2> QED
    BY <1>1, <1>2, <1>5, <2>1 DEF Gathered
<1>7. pc' # "gather"
  BY <1>4 DEF R!BinderInv, R!TypeOK
<1>8. Reported'
  BY <1>1, ReportedInTime DEF Reported, NoReport
<1> QED
  BY <1>1, <1>2, <1>4, <1>6, <1>7, <1>8 DEF DiagnosisInv

LEMMA SameReport == gatherVars' = gatherVars /\ blk' = blk => DocFail' = DocFail
BY DEF gatherVars, DocFail, BoundOk, ScanNode

LEMMA NextDiagnose ==
  ASSUME DiagnosisInv, Diagnose
  PROVE  DiagnosisInv'
<1>1. /\ pc = "done" /\ report' = DocFail
      /\ UNCHANGED << segs, todo, cur, gatherOk, lines, rest, frames, built, pc, blk >>
  BY DEF Diagnose, gatherVars, binderVars
<1>2. segs \in Texts /\ Gathered /\ R!BinderInv
  BY <1>1 DEF DiagnosisInv
<1>3. UNCHANGED R!vars
  BY <1>1 DEF R!vars
<1>4. R!BinderInv'
  BY <1>2, <1>3, BinderGoesOn
<1>5. Gathered'
  <2>1. Places' = Places
    BY <1>1, SamePlaces DEF Places
  <2> QED
    BY <1>1, <1>2, <2>1 DEF Gathered
<1>6. DocFail' = DocFail
  BY <1>1, SameReport DEF gatherVars
<1>7. Reported'
  BY <1>1, <1>6 DEF Reported
<1> QED
  BY <1>1, <1>2, <1>4, <1>5, <1>7 DEF DiagnosisInv

LEMMA StutterDiagnosis ==
  ASSUME DiagnosisInv, UNCHANGED vars
  PROVE  DiagnosisInv'
<1>1. UNCHANGED << segs, todo, cur, gatherOk, lines, rest, frames, built, pc, blk, report >>
  BY DEF vars, gatherVars, binderVars
<1>2. PlacesUpTo' = PlacesUpTo
  BY <1>1, SamePlaces
<1>3. Places' = Places
  BY <1>1, <1>2 DEF Places
<1>4. Gathering => Gathering'
  BY <1>1, <1>2 DEF Gathering, Unbound, GatheredUpTo
<1>5. Gathered => Gathered'
  BY <1>1, <1>3 DEF Gathered
<1>6. UNCHANGED R!vars
  BY <1>1 DEF R!vars
<1>7. R!BinderInv => R!BinderInv'
  BY <1>6, BinderGoesOn
<1>8. DocFail' = DocFail
  BY <1>1, SameReport DEF gatherVars
<1>9. Reported => Reported'
  BY <1>1, <1>8 DEF Reported, NoReport
<1> QED
  BY <1>1, <1>4, <1>5, <1>7, <1>9 DEF DiagnosisInv

LEMMA NextDiagnosis == DiagnosisInv /\ [Next]_vars => DiagnosisInv'
<1> SUFFICES ASSUME DiagnosisInv, [Next]_vars PROVE DiagnosisInv'
  OBVIOUS
<1>1. CASE GatherNl
  BY <1>1, NextGatherNl
<1>2. CASE GatherContent
  BY <1>2, NextGatherContent
<1>3. CASE GatherEnd
  BY <1>3, NextGatherEnd
<1>4. CASE Bind
  BY <1>4, NextBind
<1>5. CASE Diagnose
  BY <1>5, NextDiagnose
<1>6. CASE Terminated
  BY <1>6, StutterDiagnosis DEF Terminated
<1>7. CASE UNCHANGED vars
  BY <1>7, StutterDiagnosis
<1> QED
  BY <1>1, <1>2, <1>3, <1>4, <1>5, <1>6, <1>7 DEF Next

LEMMA DiagnosisAlways == Spec => []DiagnosisInv
BY InitDiagnosis, NextDiagnosis, PTL DEF Spec

-----------------------------------------------------------------------------
(***************************************************************************)
(* The gather pass keeps every content node of every text, in order, at    *)
(* the column it has in the text.                                          *)
(***************************************************************************)
LEMMA ColumnsFollow == DiagnosisInv => IndentIsColumn
<1> SUFFICES ASSUME DiagnosisInv, pc # "gather" PROVE
       /\ Len(lines) = Len(Contents)
       /\ \A i \in DOMAIN lines :
            /\ lines[i].leaf = Contents[i].leaf
            /\ lines[i].indent = IF AfterNl(i) THEN Contents[i].column ELSE 0
  BY DEF IndentIsColumn
<1> DEFINE m == Len(lines)
<1>1. GatheredFrom(segs, Places, lines, Len(segs))
  BY DEF DiagnosisInv, Gathered
<1>2. m \in Nat /\ DOMAIN lines = 1 .. m /\ DOMAIN Places = 1 .. m
  BY <1>1, SeqFacts DEF GatheredFrom
<1>3. Contents = [i \in 1 .. m |-> segs[Places[i]]]
  BY <1>2 DEF Contents
<1>4. Len(Contents) = m
  <2>1. Contents \in [1 .. m -> {segs[Places[i]] : i \in 1 .. m}]
    BY <1>3
  <2> QED
    BY <1>2, <2>1, FunctionIsSeq
<1>5. ASSUME NEW i \in 1 .. m
      PROVE  /\ lines[i].leaf = Contents[i].leaf
             /\ lines[i].indent = IF AfterNl(i) THEN Contents[i].column ELSE 0
  <2>1. LineOf(lines[i], segs, Places[i])
    BY <1>1 DEF GatheredFrom
  <2>2. Contents[i] = segs[Places[i]]
    BY <1>3
  <2> QED
    BY <2>1, <2>2 DEF LineOf, AfterNl
<1> QED
  BY <1>2, <1>4, <1>5

(***************************************************************************)
(* gather (bind.hpp) gives a line the column its first segment really has: *)
(* for every text, every content node becomes one line, in order, with the *)
(* indent it has behind its newline, whatever blank lines come in between, *)
(* and 0 on the first line of the text.                                    *)
(***************************************************************************)
THEOREM IndentIsColumnOfText == Spec => []IndentIsColumn
BY ColumnsFollow, DiagnosisAlways, PTL

-----------------------------------------------------------------------------
(* The nodes of a text and the leaves of its lines are the same scalars. *)

LEMMA NodesOfLines ==
  ASSUME NEW ls \in Seq(Line)
  PROVE  R!AreNodes(R!Tree!Nodes(ls))
BY KeysAssumption, SameLines, R!NodesWellTyped DEF R!NodesWellTyped

HasNode(ns, f) == \E k \in 1 .. Len(ns) : ns[k].leaf = f /\ ns[k].kind = f.kind

LEMMA LeafNode ==
  ASSUME NEW ls \in Seq(Line), NEW i \in 1 .. Len(ls), ls[i].leaf.kind # "none"
  PROVE  HasNode(R!Tree!Nodes(ls), ls[i].leaf)
BY KeysAssumption, SameLines, R!LeafHasNode DEF R!LeafHasNode, R!HasLeaf, HasNode

HasLine(ls, n) == \E i \in 1 .. Len(ls) : n.leaf = ls[i].leaf /\ n.kind = ls[i].leaf.kind

LEMMA NodeLine ==
  ASSUME NEW ls \in Seq(Line), NEW k \in 1 .. Len(R!Tree!Nodes(ls)),
         R!Tree!Nodes(ls)[k].kind # "dash"
  PROVE  HasLine(ls, R!Tree!Nodes(ls)[k])
BY KeysAssumption, SameLines, R!NodeLeaves DEF R!NodeLeaves, HasLine

NoBadLeaf(ls) == \A i \in 1 .. Len(ls) : ~ R!BadLeaf(ls[i].leaf)

(* The nodes of a text are good when the leaves of its lines are. *)
LEMMA LeavesOk ==
  ASSUME NEW ls \in Seq(Line)
  PROVE  LET ns == R!Tree!Nodes(ls)
         IN  (\A k \in DOMAIN ns : R!Tree!LeafOk(ns[k])) <=> NoBadLeaf(ls)
<1> DEFINE ns == R!Tree!Nodes(ls)
<1>1. DOMAIN ns = 1 .. Len(ns)
  BY NodesOfLines DEF R!AreNodes
<1>2. ASSUME \A k \in DOMAIN ns : R!Tree!LeafOk(ns[k]) PROVE NoBadLeaf(ls)
  <2> SUFFICES ASSUME NEW i \in 1 .. Len(ls) PROVE ~ R!BadLeaf(ls[i].leaf)
    BY DEF NoBadLeaf
  <2>1. CASE ls[i].leaf.kind = "none"
    BY <2>1 DEF R!BadLeaf
  <2>2. CASE ls[i].leaf.kind # "none"
    <3>1. HasNode(ns, ls[i].leaf)
      BY <2>2, LeafNode
    <3> HIDE DEF ns
    <3>2. PICK k \in 1 .. Len(ns) : ns[k].leaf = ls[i].leaf /\ ns[k].kind = ls[i].leaf.kind
      BY <3>1 DEF HasNode
    <3>3. R!Tree!LeafOk(ns[k])
      BY <1>1, <1>2
    <3> QED
      BY <3>2, <3>3 DEF R!Tree!LeafOk, R!BadLeaf
  <2> QED
    BY <2>1, <2>2
<1>3. ASSUME NoBadLeaf(ls) PROVE \A k \in DOMAIN ns : R!Tree!LeafOk(ns[k])
  <2> SUFFICES ASSUME NEW k \in DOMAIN ns PROVE R!Tree!LeafOk(ns[k])
    OBVIOUS
  <2>1. CASE ns[k].kind = "dash"
    BY <2>1 DEF R!Tree!LeafOk
  <2>2. CASE ns[k].kind # "dash"
    <3>1. HasLine(ls, ns[k])
      BY <1>1, <2>2, NodeLine
    <3> HIDE DEF ns
    <3>2. PICK i \in 1 .. Len(ls) : ns[k].leaf = ls[i].leaf /\ ns[k].kind = ls[i].leaf.kind
      BY <3>1 DEF HasLine
    <3>3. ~ R!BadLeaf(ls[i].leaf)
      BY <1>3 DEF NoBadLeaf
    <3> QED
      BY <3>2, <3>3 DEF R!Tree!LeafOk, R!BadLeaf
  <2> QED
    BY <2>1, <2>2
<1> QED
  BY <1>2, <1>3

-----------------------------------------------------------------------------
(* A key that entries of the text share is in the type it is bound to. *)

LEMMA OwnInRepeated ==
  ASSUME NEW ms, Mapping(ms) \in AllTypes, NEW k, R!HasTwice(Mapping(ms), k)
  PROVE  k \in RepeatedKeys(Mapping(ms))
<1> DEFINE t == Mapping(ms)
<1>1. PICK ns : /\ t = R!Mapping(ns) /\ DOMAIN ns = 1 .. Len(ns) /\ Len(ns) \in Nat
                /\ \E u, v \in 1 .. Len(ns) : u < v /\ ns[u].key = k /\ ns[v].key = k
  BY DEF R!HasTwice
<1>2. t.members = ms /\ t.members = ns /\ t.kind = "mapping"
  BY <1>1 DEF Mapping, R!Mapping
<1>3. PICK u \in 1 .. Len(ns), v \in 1 .. Len(ns) : u < v /\ ns[u].key = k /\ ns[v].key = k
  BY <1>1
<1> DEFINE q == << u, v >>
<1>4. q \in (DOMAIN ns) \X (DOMAIN ns) /\ q[1] = u /\ q[2] = v
  BY <1>1
<1> HIDE DEF q, t
<1>5. k \in OwnRepeats(t)
  BY <1>2, <1>3, <1>4 DEF OwnRepeats
<1>6. t \in AllTypes
  BY DEF t
<1>7. k \in RepeatedKeys(t)
  BY <1>5, <1>6, RepeatedKeysAre
<1> QED
  BY <1>7 DEF t

Without(k) == {t \in AllTypes : k \notin RepeatedKeys(t)}

LEMMA WithoutHereditary ==
  ASSUME NEW k
  PROVE  R!Hereditary(Without(k))
<1> DEFINE N == Without(k)
<1>1. ASSUME NEW t \in N, NEW i \in DOMAIN PartsOf(t)
      PROVE  PartsOf(t)[i] \in N
  <2>1. t \in AllTypes /\ k \notin RepeatedKeys(t)
    BY DEF Without
  <2>2. PartsOf(t)[i] \in AllTypes
    BY <2>1, AllTypesCases, SeqFacts
  <2>3. k \notin RepeatedKeys(PartsOf(t)[i])
    BY <2>1, RepeatedKeysAre
  <2> QED
    BY <2>2, <2>3 DEF Without
<1> HIDE DEF N
<1>2. ASSUME NEW is, R!Sequence(is) \in N, NEW i \in DOMAIN is PROVE is[i] \in N
  <2>1. PartsOf(R!Sequence(is)) = is
    BY DEF PartsOf, R!Sequence
  <2> QED
    BY <1>1, <1>2, <2>1
<1>3. ASSUME NEW ms, R!Mapping(ms) \in N, NEW i \in DOMAIN ms PROVE ms[i].value \in N
  <2>1. PartsOf(R!Mapping(ms)) = [j \in DOMAIN ms |-> ms[j].value]
    BY DEF PartsOf, R!Mapping
  <2> DEFINE t == R!Mapping(ms)
  <2>2. t \in N /\ i \in DOMAIN PartsOf(t) /\ PartsOf(t)[i] = ms[i].value
    BY <1>3, <2>1
  <2> QED
    BY <1>1, <2>2
<1>4. R!Hereditary(N)
  BY <1>2, <1>3 DEF R!Hereditary
<1> QED
  BY <1>4 DEF N

AllIn(vs, m, N) == \A p \in 0 .. m : vs[p] \in N

LEMMA TreeWithin ==
  ASSUME NEW ns, R!AreNodes(ns), R!Tree!WellIndented(ns), NEW N, R!Hereditary(N),
         R!Tree!Values(ns)[0] \in N
  PROVE  AllIn(R!Tree!Values(ns), Len(ns), N)
BY KeysAssumption, SameLines, R!TreePartsIn DEF R!TreePartsIn, AllIn

SomeTwice(vs, m, k) == \E p \in 0 .. m : R!HasTwice(vs[p], k)

LEMMA TreeTwice ==
  ASSUME NEW ns, R!AreNodes(ns), R!Tree!WellIndented(ns), NEW k, R!Tree!Repeated(ns, k)
  PROVE  SomeTwice(R!Tree!Values(ns), Len(ns), k)
BY KeysAssumption, SameLines, R!TreeRepeats DEF R!TreeRepeats, SomeTwice

LEMMA TreeScalar ==
  ASSUME NEW ns, R!AreNodes(ns), NEW q \in 1 .. Len(ns), ns[q].kind \in {"member", "value"}
  PROVE  R!Tree!Values(ns)[q] = ns[q].leaf.val
<1>1. q \in 0 .. Len(ns) /\ q # 0
  BY DEF R!AreNodes
<1>2. R!Tree!Values(ns)[q] = R!ValueOf(ns, q, R!Tree!Values(ns))
  BY <1>1, KeysAssumption, SameLines, R!ValuesDef DEF R!ValuesDef
<1> QED
  BY <1>1, <1>2 DEF R!ValueOf

RepeatsIn(ls, k) ==
  \/ R!Tree!Repeated(R!Tree!Nodes(ls), k)
  \/ \E i \in 1 .. Len(ls) : /\ ls[i].leaf.kind \in {"member", "value"}
                            /\ k \in RepeatedKeys(ls[i].leaf.val)

LEMMA TreeKeepsRepeats ==
  ASSUME NEW ls \in Seq(Line), R!Tree!WellIndented(R!Tree!Nodes(ls)),
         R!Tree!TreeOf(ls) \in AllTypes, NEW k, RepeatsIn(ls, k)
  PROVE  k \in RepeatedKeys(R!Tree!TreeOf(ls))
<1> DEFINE ns == R!Tree!Nodes(ls)
           vs == R!Tree!Values(ns)
<1>1. R!AreNodes(ns) /\ R!Tree!TreeOf(ls) = vs[0]
  BY NodesOfLines DEF R!Tree!TreeOf
<1>2. SUFFICES ASSUME vs[0] \in Without(k) PROVE FALSE
  BY <1>1 DEF Without
<1>3. AllIn(vs, Len(ns), Without(k))
  BY <1>1, <1>2, WithoutHereditary, TreeWithin
<1>4. CASE R!Tree!Repeated(ns, k)
  <2>1. SomeTwice(vs, Len(ns), k)
    BY <1>1, <1>4, TreeTwice
  <2> HIDE DEF ns, vs
  <2>2. PICK p \in 0 .. Len(ns) : R!HasTwice(vs[p], k)
    BY <2>1 DEF SomeTwice
  <2>3. vs[p] \in Without(k)
    BY <1>3 DEF AllIn
  <2>4. PICK ms : vs[p] = Mapping(ms)
    BY <2>2 DEF R!HasTwice, Mapping, R!Mapping
  <2>5. Mapping(ms) \in AllTypes /\ k \notin RepeatedKeys(Mapping(ms)) /\ R!HasTwice(Mapping(ms), k)
    BY <2>2, <2>3, <2>4 DEF Without
  <2> QED
    BY <2>5, OwnInRepeated
<1>5. CASE ~ R!Tree!Repeated(ns, k)
  <2>1. PICK i \in 1 .. Len(ls) : /\ ls[i].leaf.kind \in {"member", "value"}
                                  /\ k \in RepeatedKeys(ls[i].leaf.val)
    BY <1>5 DEF RepeatsIn
  <2>2. HasNode(ns, ls[i].leaf)
    BY <2>1, LeafNode
  <2> HIDE DEF ns
  <2>3. PICK q \in 1 .. Len(ns) : ns[q].leaf = ls[i].leaf /\ ns[q].kind = ls[i].leaf.kind
    BY <2>2 DEF HasNode
  <2>4. vs[q] = ls[i].leaf.val
    BY <1>1, <2>1, <2>3, TreeScalar
  <2>5. q \in 0 .. Len(ns)
    BY <1>1 DEF R!AreNodes
  <2> HIDE DEF vs
  <2>6. vs[q] \in Without(k)
    BY <1>3, <2>5 DEF AllIn
  <2> QED
    BY <2>1, <2>4, <2>6 DEF Without
<1> QED
  BY <1>4, <1>5

-----------------------------------------------------------------------------
(* What scan_node finds. *)

(* A content node in which a scalar fails to decode. *)
BadNode(c) == c.escVal \/ (c.leaf.kind \in {"pair", "member"} /\ ~ c.leaf.keyOk)

IsBadEscape(f) == f.reason = "bad_escape"

LEMMA BadEscapeIsFailure == \A r, w : Failure(r, w).reason = r /\ NoFailure.reason = "none"
BY DEF Failure, NoFailure

LEMMA ScanContentIs ==
  ASSUME NEW i, NEW c
  PROVE  IF BadNode(c) THEN IsBadEscape(ScanContent(i, c)) ELSE ScanContent(i, c) = NoFailure
<1> DEFINE f == IF c.leaf.kind \in {"pair", "member"} /\ ~ c.leaf.keyOk
                THEN Failure("bad_escape", << i, "key" >>) ELSE NoFailure
           g == IF c.escVal THEN Failure("bad_escape", << i, "value" >>) ELSE NoFailure
           fs == << f, g >>
<1>1. ScanContent(i, c) = FirstFail(fs)
  BY DEF ScanContent
<1>2. /\ f = NoFailure \/ IsBadEscape(f)
      /\ g = NoFailure \/ IsBadEscape(g)
      /\ f = NoFailure /\ g = NoFailure <=> ~ BadNode(c)
  BY BadEscapeIsFailure DEF BadNode, IsBadEscape
<1> HIDE DEF f, g
<1>3. DOMAIN fs = 1 .. 2 /\ fs[1] = f /\ fs[2] = g /\ 2 \in Nat
  OBVIOUS
<1> HIDE DEF fs
<1>4. /\ FirstFail(fs) = NoFailure <=> \A n \in 1 .. 2 : fs[n] = NoFailure
      /\ FirstFail(fs) # NoFailure => \E n \in 1 .. 2 : FirstFail(fs) = fs[n]
  BY <1>3, FirstFailIs
<1>5. \A n \in 1 .. 2 : n = 1 \/ n = 2
  OBVIOUS
<1>6. 1 \in 1 .. 2 /\ 2 \in 1 .. 2
  OBVIOUS
<1>7. FirstFail(fs) = NoFailure <=> f = NoFailure /\ g = NoFailure
  BY <1>3, <1>4, <1>5, <1>6
<1>8. FirstFail(fs) # NoFailure => FirstFail(fs) = f \/ FirstFail(fs) = g
  BY <1>3, <1>4, <1>5
<1>9. FirstFail(fs) # NoFailure => IsBadEscape(FirstFail(fs))
  BY <1>2, <1>8
<1> QED
  BY <1>1, <1>2, <1>7, <1>9

SomeBad(t) == \E a \in 1 .. Len(t) : ~ t[a].nl /\ BadNode(t[a])

LEMMA ScanNodeIs ==
  ASSUME segs \in Texts
  PROVE  IF SomeBad(segs) THEN IsBadEscape(ScanNode) ELSE ScanNode = NoFailure
<1> DEFINE m == Len(segs)
           F(i) == IF segs[i].nl THEN NoFailure ELSE ScanContent(i, segs[i])
           fs == [i \in DOMAIN segs |-> F(i)]
<1>1. m \in Nat /\ DOMAIN fs = 1 .. m /\ \A i \in 1 .. m : fs[i] = F(i)
  BY TextFacts
<1>2. ScanNode = FirstFail(fs)
  BY DEF ScanNode
<1>3. ASSUME NEW i \in 1 .. m
      PROVE  /\ F(i) = NoFailure \/ IsBadEscape(F(i))
             /\ F(i) = NoFailure <=> segs[i].nl \/ ~ BadNode(segs[i])
  BY ScanContentIs, BadEscapeIsFailure DEF IsBadEscape
<1> HIDE DEF fs, F
<1>4. /\ FirstFail(fs) = NoFailure <=> \A n \in 1 .. m : fs[n] = NoFailure
      /\ FirstFail(fs) # NoFailure => \E n \in 1 .. m : FirstFail(fs) = fs[n]
  BY <1>1, FirstFailIs
<1>5. FirstFail(fs) = NoFailure <=> ~ SomeBad(segs)
  BY <1>1, <1>3, <1>4 DEF SomeBad
<1>6. FirstFail(fs) # NoFailure => IsBadEscape(FirstFail(fs))
  BY <1>1, <1>3, <1>4
<1> QED
  BY <1>2, <1>5, <1>6

-----------------------------------------------------------------------------
(* The faults of a text whose binding is over. *)

LEMMA GatheredLines ==
  ASSUME DiagnosisInv, pc = "done"
  PROVE  /\ lines \in Seq(Line) /\ DOMAIN lines = 1 .. Len(lines) /\ Len(lines) \in Nat
         /\ \A i \in 1 .. Len(lines) :
              /\ Places[i] \in 1 .. Len(segs) /\ ~ segs[Places[i]].nl
              /\ Contents[i] = segs[Places[i]] /\ lines[i].leaf = Contents[i].leaf
              /\ FlagsAgree(Contents[i])
         /\ DOMAIN Contents = 1 .. Len(lines)
         /\ BadEscape <=> SomeBad(segs)
         /\ BadEscape <=> \E i \in 1 .. Len(lines) : BadNode(Contents[i])
<1>1. GatheredFrom(segs, Places, lines, Len(segs)) /\ segs \in Texts
  BY DEF DiagnosisInv, Gathered
<1>2. /\ lines \in Seq(Line) /\ DOMAIN lines = 1 .. Len(lines) /\ Len(lines) \in Nat
      /\ DOMAIN Places = 1 .. Len(lines)
  BY <1>1, SeqFacts DEF GatheredFrom
<1>3. DOMAIN Contents = 1 .. Len(lines)
      /\ \A i \in 1 .. Len(lines) : Contents[i] = segs[Places[i]]
  BY <1>2 DEF Contents
<1>4. \A i \in 1 .. Len(lines) : /\ Places[i] \in 1 .. Len(segs) /\ ~ segs[Places[i]].nl
                                /\ lines[i].leaf = segs[Places[i]].leaf
  BY <1>1 DEF GatheredFrom, LineOf
<1>5. \A i \in 1 .. Len(lines) : FlagsAgree(Contents[i])
  BY <1>1, <1>3, <1>4, TextFacts
<1>6. BadEscape <=> \E i \in 1 .. Len(lines) : BadNode(Contents[i])
  BY <1>3 DEF BadEscape, BadNode
<1>7. (\E i \in 1 .. Len(lines) : BadNode(Contents[i])) <=> SomeBad(segs)
  <2>1. \A a \in 1 .. Len(segs) : ~ segs[a].nl => \E i \in 1 .. Len(lines) : Places[i] = a
    BY <1>1 DEF GatheredFrom
  <2> QED
    BY <1>3, <1>4, <2>1 DEF SomeBad
<1> QED
  BY <1>2, <1>3, <1>4, <1>5, <1>6, <1>7

(* A leaf is bad when a scalar of its node is, or its flow value repeats a key. *)
LEMMA BadLeafIs ==
  ASSUME NEW c, FlagsAgree(c)
  PROVE  R!BadLeaf(c.leaf) <=>
           BadNode(c) \/ (c.leaf.kind \in {"member", "value"} /\ RepeatedKeys(c.leaf.val) # {})
BY DEF R!BadLeaf, BadNode, FlagsAgree

LEMMA RepeatsAre ==
  ASSUME DOMAIN lines = 1 .. Len(lines)
  PROVE  \A k : Repeats(k) <=> RepeatsIn(lines, k)
<1>1. R!Tree!Nodes(lines) = Tree!Nodes(lines)
  BY SameNodes
<1>2. \A k : R!Tree!Repeated(Tree!Nodes(lines), k) <=> Tree!Repeated(Tree!Nodes(lines), k)
  BY SameRepeats
<1> QED
  BY <1>1, <1>2 DEF Repeats, RepeatsIn

LEMMA IndentIs == WellIndented <=> R!Tree!WellIndented(R!Tree!Nodes(lines))
BY SameNodes, SameIndent DEF WellIndented

LEMMA LineValueTyped ==
  ASSUME NEW l \in Line, l.leaf.kind \in {"member", "value"}
  PROVE  l.leaf.val \in AllTypes
<1>1. l.leaf \in Leaf
  BY DEF Line
<1>2. l.leaf.val \in Vals
  BY <1>1 DEF Leaf
<1> QED
  BY <1>2, AllTypesClosed

(***************************************************************************)
(* The document is accepted exactly when its text has none of the faults.  *)
(***************************************************************************)
LEMMA AcceptedIsFaultless ==
  ASSUME DiagnosisInv, pc = "done"
  PROVE  blk.ok <=> WellIndented /\ ~ BadEscape /\ \A k \in Keys : ~ Repeats(k)
<1> DEFINE ns == R!Tree!Nodes(lines)
           m == Len(lines)
<1>1. R!TypeOK /\ R!BadScalarsReject /\ R!DescentInv
  BY DEF DiagnosisInv, R!BinderInv
<1>2. blk.ok <=> ~ R!Failing
  <2>1. frames = << >>
    BY <1>1 DEF R!TypeOK
  <2>2. Len(frames) = 0
    BY <2>1
  <2> QED
    BY <2>2 DEF R!Failing
<1>3. blk.ok <=> R!Tree!Valid(lines)
  BY <1>1, <1>2 DEF R!DescentInv
<1>4. /\ lines \in Seq(Line) /\ DOMAIN lines = 1 .. m
      /\ \A i \in 1 .. m : lines[i].leaf = Contents[i].leaf /\ FlagsAgree(Contents[i])
      /\ BadEscape <=> \E i \in 1 .. m : BadNode(Contents[i])
  BY GatheredLines
<1>5. R!Tree!Valid(lines) <=>
        /\ R!Tree!WellIndented(ns)
        /\ \A k \in Keys : ~ R!Tree!Repeated(ns, k)
        /\ NoBadLeaf(lines)
  BY <1>4, LeavesOk DEF R!Tree!Valid
<1>6. NoBadLeaf(lines) <=>
        /\ ~ BadEscape
        /\ \A i \in 1 .. m : lines[i].leaf.kind \in {"member", "value"} =>
                               RepeatedKeys(lines[i].leaf.val) = {}
  BY <1>4, BadLeafIs DEF NoBadLeaf
<1>7. \A i \in 1 .. m : lines[i].leaf.kind \in {"member", "value"} =>
                          RepeatedKeys(lines[i].leaf.val) \subseteq Keys
  <2>1. \A i \in 1 .. m : lines[i] \in Line
    BY <1>4, SeqFacts
  <2> QED
    BY <2>1, LineValueTyped, RepeatedKeysAre
<1>8. (\A k \in Keys : ~ Repeats(k)) <=>
        /\ \A k \in Keys : ~ R!Tree!Repeated(ns, k)
        /\ \A i \in 1 .. m : lines[i].leaf.kind \in {"member", "value"} =>
                               RepeatedKeys(lines[i].leaf.val) = {}
  BY <1>4, <1>7, RepeatsAre DEF RepeatsIn
<1> QED
  BY <1>3, <1>5, <1>6, <1>8, IndentIs

(* The types that repeat only keys the lines ls repeat. *)
Blamed(ls) == {t \in AllTypes : \A k \in RepeatedKeys(t) : RepeatsIn(ls, k)}

LEMMA BlamedPart ==
  ASSUME NEW ls, NEW t \in AllTypes, \A k \in OwnRepeats(t) : RepeatsIn(ls, k),
         \A i \in DOMAIN PartsOf(t) : PartsOf(t)[i] \in Blamed(ls)
  PROVE  t \in Blamed(ls)
<1>1. ASSUME NEW k \in RepeatedKeys(t) PROVE RepeatsIn(ls, k)
  <2>1. k \in OwnRepeats(t) \/ \E i \in DOMAIN PartsOf(t) : k \in RepeatedKeys(PartsOf(t)[i])
    BY RepeatedKeysAre
  <2> QED
    BY <2>1 DEF Blamed
<1> QED
  BY <1>1 DEF Blamed

LEMMA BlamedIsGenuine ==
  ASSUME NEW ls \in Seq(Line)
  PROVE  R!Genuine(Blamed(ls), ls)
<1> DEFINE D == Blamed(ls)
<1>0. D \subseteq AllTypes
  BY DEF Blamed
<1>1. R!Null \in D
  <2>1. R!Null = Null /\ Null \in AllTypes
    BY AllTypesClosed DEF R!Null, Null
  <2>2. PartsOf(Null) = << >> /\ OwnRepeats(Null) = {}
    BY DEF PartsOf, OwnRepeats, Null
  <2>3. DOMAIN PartsOf(Null) = {}
    BY <2>2
  <2> QED
    BY <2>1, <2>2, <2>3, BlamedPart
<1>2. ASSUME NEW i \in 1 .. Len(ls), ls[i].leaf.kind \in {"member", "value"}
      PROVE  ls[i].leaf.val \in D
  <2>1. ls[i] \in Line
    BY SeqFacts
  <2>2. ls[i].leaf.val \in AllTypes
    BY <1>2, <2>1, LineValueTyped
  <2>3. \A k \in RepeatedKeys(ls[i].leaf.val) : RepeatsIn(ls, k)
    BY <1>2 DEF RepeatsIn
  <2> QED
    BY <2>2, <2>3 DEF Blamed
<1>3. ASSUME NEW is \in Seq(D) PROVE R!Sequence(is) \in D
  <2> DEFINE t == Sequence(is)
  <2>1. R!Sequence(is) = t
    BY DEF R!Sequence, Sequence
  <2>2. is \in Seq(AllTypes)
    BY <1>0, SeqMonotonic
  <2>3. t \in AllTypes
    BY <2>2, AllTypesClosed
  <2>4. PartsOf(t) = is /\ OwnRepeats(t) = {}
    BY DEF PartsOf, OwnRepeats, Sequence
  <2>5. \A i \in DOMAIN is : is[i] \in D
    BY SeqFacts
  <2> HIDE DEF D, t
  <2>6. t \in Blamed(ls)
    BY <2>3, <2>4, <2>5, BlamedPart DEF D
  <2> QED
    BY <2>1, <2>6 DEF D
<1>4. ASSUME NEW ms \in Seq(R!Members(D)), R!KeysRealIn(R!Tree!Nodes(ls), ms)
      PROVE  R!Mapping(ms) \in D
  <2> DEFINE t == Mapping(ms)
  <2>1. R!Mapping(ms) = t
    BY DEF R!Mapping, Mapping
  <2>2. R!Members(D) = [key : Keys, value : D]
    BY DEF R!Members
  <2>3. /\ DOMAIN ms = 1 .. Len(ms) /\ Len(ms) \in Nat
        /\ \A i \in 1 .. Len(ms) : ms[i] \in [key : Keys, value : D]
    BY <2>2, SeqFacts
  <2>4. ms \in Seq([key : Keys, value : AllTypes])
    <3>1. \A i \in 1 .. Len(ms) : ms[i] \in [key : Keys, value : AllTypes]
      BY <1>0, <2>3
    <3> QED
      BY <3>1, SeqFrom
  <2>5. t \in AllTypes
    BY <2>4, AllTypesClosed
  <2>6. PartsOf(t) = [i \in DOMAIN ms |-> ms[i].value]
    BY DEF PartsOf, Mapping
  <2>7. \A i \in DOMAIN PartsOf(t) : PartsOf(t)[i] \in D
    BY <2>3, <2>6
  <2>8. ASSUME NEW k \in OwnRepeats(t) PROVE RepeatsIn(ls, k)
    <3>1. t.members = ms /\ t.kind = "mapping"
      BY DEF Mapping
    <3> HIDE DEF t
    <3>2. PICK p \in (DOMAIN ms) \X (DOMAIN ms) :
            p[1] < p[2] /\ ms[p[1]].key = ms[p[2]].key /\ k = ms[p[1]].key
      BY <3>1 DEF OwnRepeats
    <3>3. p[1] \in 1 .. Len(ms) /\ p[2] \in 1 .. Len(ms)
      BY <2>3
    <3>4. R!Tree!Repeated(R!Tree!Nodes(ls), k)
      BY <1>4, <3>2, <3>3 DEF R!KeysRealIn
    <3> QED
      BY <3>4 DEF RepeatsIn
  <2> HIDE DEF D, t
  <2>9. t \in Blamed(ls)
    BY <2>5, <2>7, <2>8, BlamedPart DEF D
  <2> QED
    BY <2>1, <2>9 DEF D
<1> HIDE DEF D
<1>5. R!Genuine(D, ls)
  BY <1>1, <1>2, <1>3, <1>4 DEF R!Genuine
<1> QED
  BY <1>5 DEF D

(***************************************************************************)
(* The bound type repeats only keys the text repeats, and all of them when *)
(* nothing of the text was thrown away.                                    *)
(***************************************************************************)
LEMMA BoundRepeats ==
  ASSUME DiagnosisInv, pc = "done"
  PROVE  /\ blk.type \in AllTypes
         /\ \A k \in RepeatedKeys(blk.type) : Repeats(k)
         /\ WellIndented => \A k : Repeats(k) => k \in RepeatedKeys(blk.type)
<1>1. R!BoundIsGenuine /\ R!DescentInv
  BY DEF DiagnosisInv, R!BinderInv
<1>2. lines \in Seq(Line) /\ DOMAIN lines = 1 .. Len(lines)
  BY GatheredLines
<1>3. blk.type \in Blamed(lines)
  <2>1. R!Genuine(Blamed(lines), lines)
    BY <1>2, BlamedIsGenuine
  <2>2. R!AllBuilt(Blamed(lines))
    BY <1>1, <2>1 DEF R!BoundIsGenuine
  <2> QED
    BY <2>2 DEF R!AllBuilt
<1>4. blk.type \in AllTypes /\ \A k \in RepeatedKeys(blk.type) : RepeatsIn(lines, k)
  BY <1>3 DEF Blamed
<1>5. ASSUME WellIndented, NEW k, RepeatsIn(lines, k)
      PROVE  k \in RepeatedKeys(blk.type)
  <2>1. R!Tree!WellIndented(R!Tree!Nodes(lines))
    BY <1>5, IndentIs
  <2>2. blk.type = R!Tree!TreeOf(lines)
    BY <1>1, <2>1 DEF R!DescentInv, R!Legal
  <2> QED
    BY <1>2, <1>4, <1>5, <2>1, <2>2, TreeKeepsRepeats
<1> QED
  BY <1>2, <1>4, <1>5, RepeatsAre

(* What dup_scan says of the bound type. *)
LEMMA ScanOfBound ==
  ASSUME DiagnosisInv, pc = "done"
  PROVE  LET f == DupScan(blk.type)
         IN  /\ f # NoFailure => f.reason = "duplicate_key" /\ Repeats(f.where)
             /\ f = NoFailure /\ WellIndented => \A k : ~ Repeats(k)
<1> DEFINE f == DupScan(blk.type)
<1>1. /\ blk.type \in AllTypes
      /\ \A k \in RepeatedKeys(blk.type) : Repeats(k)
      /\ WellIndented => \A k : Repeats(k) => k \in RepeatedKeys(blk.type)
  BY BoundRepeats
<1>2. Tells(f, RepeatedKeys(blk.type))
  BY <1>1, DupScanIsRight DEF ScansRight
<1> HIDE DEF f
<1>3. ASSUME f # NoFailure PROVE f.reason = "duplicate_key" /\ Repeats(f.where)
  <2>1. PICK k \in RepeatedKeys(blk.type) : f = DuplicateKey(k)
    BY <1>2, <1>3 DEF Tells
  <2>2. f.reason = "duplicate_key" /\ f.where = k
    BY <2>1 DEF DuplicateKey, Failure
  <2> QED
    BY <1>1, <2>2
<1>4. ASSUME f = NoFailure, WellIndented PROVE \A k : ~ Repeats(k)
  <2>1. RepeatedKeys(blk.type) = {}
    BY <1>2, <1>4, DuplicateIsFailure DEF Tells
  <2> QED
    BY <1>1, <1>4, <2>1
<1> QED
  BY <1>3, <1>4 DEF f

LEMMA ReasonOf == \A r, w : Failure(r, w).reason = r
BY DEF Failure

(* The reasons doc_fail gives, in its order. *)
LEMMA Reasons ==
  ASSUME DiagnosisInv, report # NoReport
  PROVE  /\ pc = "done"
         /\ \/ BoundOk /\ report = NoFailure /\ report.reason = "none"
            \/ ~ BoundOk /\ BadEscape /\ report.reason = "bad_escape"
            \/ ~ BoundOk /\ ~ BadEscape /\ ~ gatherOk /\ report.reason = "doc_end"
            \/ /\ ~ BoundOk /\ ~ BadEscape /\ gatherOk /\ DupScan(blk.type) # NoFailure
               /\ report = DupScan(blk.type) /\ report.reason = "duplicate_key"
            \/ /\ ~ BoundOk /\ ~ BadEscape /\ gatherOk /\ DupScan(blk.type) = NoFailure
               /\ report.reason = "bad_indent"
<1>1. pc = "done" /\ report = DocFail /\ segs \in Texts
  BY DEF DiagnosisInv, Reported
<1>2. /\ BadEscape <=> SomeBad(segs)
      /\ SomeBad(segs) => ScanNode.reason = "bad_escape"
      /\ ~ SomeBad(segs) => ScanNode = NoFailure
  BY <1>1, GatheredLines, ScanNodeIs DEF IsBadEscape
<1>3. ScanNode # NoFailure <=> BadEscape
  BY <1>2, BadEscapeIsFailure
<1>4. DupScan(blk.type) # NoFailure => DupScan(blk.type).reason = "duplicate_key"
  BY <1>1, ScanOfBound
<1>5. CASE BoundOk
  BY <1>1, <1>5, BadEscapeIsFailure DEF DocFail
<1>6. CASE ~ BoundOk /\ BadEscape
  BY <1>1, <1>2, <1>3, <1>6 DEF DocFail
<1>7. CASE ~ BoundOk /\ ~ BadEscape /\ ~ gatherOk
  BY <1>1, <1>3, <1>7, BadEscapeIsFailure DEF DocFail
<1>8. CASE ~ BoundOk /\ ~ BadEscape /\ gatherOk
  <2>1. ScanNode = NoFailure
    BY <1>3, <1>8
  <2>2. CASE DupScan(blk.type) # NoFailure
    <3>1. DocFail = DupScan(blk.type)
      BY <1>8, <2>1, <2>2, Zenon DEF DocFail
    <3>2. report = DupScan(blk.type)
      BY <1>1, <3>1, Zenon
    <3>3. report.reason = "duplicate_key"
      BY <1>4, <2>2, <3>2, Zenon
    <3> QED
      BY <1>1, <1>8, <2>2, <3>2, <3>3, Zenon
  <2>3. CASE DupScan(blk.type) = NoFailure
    <3>1. DocFail = Failure("bad_indent", "")
      BY <1>8, <2>1, <2>3, Zenon DEF DocFail
    <3>2. report = Failure("bad_indent", "")
      BY <1>1, <3>1, Zenon
    <3>3. report.reason = "bad_indent"
      BY <3>2, ReasonOf, Zenon
    <3> QED
      BY <1>1, <1>8, <2>3, <3>3, Zenon
  <2> QED
    BY <2>2, <2>3, Zenon
<1> QED
  BY <1>1, <1>5, <1>6, <1>7, <1>8

(* The two properties follow from the invariant of the diagnosis. *)
LEMMA BlameFollows == DiagnosisInv => BlameIsReal
<1> SUFFICES ASSUME DiagnosisInv, report # NoReport
             PROVE  /\ report = NoFailure <=> BoundOk
                    /\ report.reason = "duplicate_key" => Repeats(report.where)
                    /\ report.reason = "bad_indent" => ~ WellIndented
  BY DEF BlameIsReal
<1>1. pc = "done"
  BY Reasons
<1>2. report = NoFailure <=> BoundOk
  BY Reasons, BadEscapeIsFailure
<1>3. report.reason = "duplicate_key" => Repeats(report.where)
  <2> SUFFICES ASSUME report.reason = "duplicate_key" PROVE Repeats(report.where)
    OBVIOUS
  <2>1. report = DupScan(blk.type) /\ DupScan(blk.type) # NoFailure
    BY Reasons
  <2> QED
    BY <1>1, <2>1, ScanOfBound
<1>4. ASSUME report.reason = "bad_indent", WellIndented PROVE FALSE
  <2>1. ~ BoundOk /\ ~ BadEscape /\ gatherOk /\ DupScan(blk.type) = NoFailure
    BY <1>4, Reasons
  <2>2. \A k : ~ Repeats(k)
    BY <1>1, <1>4, <2>1, ScanOfBound
  <2>3. blk.ok
    BY <1>1, <1>4, <2>1, <2>2, AcceptedIsFaultless
  <2> QED
    BY <2>1, <2>3 DEF BoundOk
<1> QED
  BY <1>2, <1>3, <1>4

LEMMA FaultsFollow == DiagnosisInv => NoFaultIsMissed
<1> SUFFICES ASSUME DiagnosisInv, report # NoReport
             PROVE  /\ BadEscape <=> report.reason = "bad_escape"
                    /\ report.reason = "none" =>
                         gatherOk /\ WellIndented /\ \A k \in Keys : ~ Repeats(k)
                    /\ WellIndented /\ gatherOk /\ ~ BadEscape
                         /\ (\E k \in Keys : Repeats(k)) =>
                         report.reason = "duplicate_key"
  BY DEF NoFaultIsMissed
<1>1. pc = "done"
  BY Reasons
<1>2. blk.ok <=> WellIndented /\ ~ BadEscape /\ \A k \in Keys : ~ Repeats(k)
  BY <1>1, AcceptedIsFaultless
<1>3. BoundOk => gatherOk /\ blk.ok
  BY DEF BoundOk
<1>4. BadEscape <=> report.reason = "bad_escape"
  BY <1>2, <1>3, Reasons
<1>5. report.reason = "none" =>
        gatherOk /\ WellIndented /\ \A k \in Keys : ~ Repeats(k)
  BY <1>2, <1>3, Reasons
<1>6. ASSUME WellIndented, gatherOk, ~ BadEscape, \E k \in Keys : Repeats(k)
      PROVE  report.reason = "duplicate_key"
  <2>1. ~ BoundOk
    BY <1>2, <1>3, <1>6
  <2>2. DupScan(blk.type) # NoFailure
    BY <1>1, <1>6, ScanOfBound
  <2> QED
    BY <1>6, <2>1, <2>2, Reasons
<1> QED
  BY <1>4, <1>5, <1>6

(***************************************************************************)
(* bind_error blames what is there (doc_fail, bind.hpp), for every text:   *)
(* none is reported exactly when the text binds, a key reported as         *)
(* repeated is repeated in one of the text's mappings - the flow values    *)
(* and the sequences of mappings included - and bad_indent, the reason     *)
(* left when no other applies, is given only for a text whose lines are    *)
(* not the layout of any tree.                                             *)
(***************************************************************************)
THEOREM BlameIsRealOfText == Spec => []BlameIsReal
BY BlameFollows, DiagnosisAlways, PTL

(***************************************************************************)
(* No fault is passed over: a bad escape is always what is reported; a     *)
(* text for which none is reported has a clean end, is well indented and   *)
(* repeats no key; and where a repeated key is the only fault, it is what  *)
(* is reported, although dup_scan looks at the type the binder built and   *)
(* not at the text.                                                        *)
(***************************************************************************)
THEOREM NoFaultOfTextIsMissed == Spec => []NoFaultIsMissed
BY FaultsFollow, DiagnosisAlways, PTL

-----------------------------------------------------------------------------
(* Snippets. *)

(* The line around a place starts at the last line feed before it. *)
LEMMA LineStartIs ==
  ASSUME NEW text, Len(text) \in Nat, NEW pos \in 0 .. Len(text)
  PROVE  /\ LineStart(text, pos) \in 0 .. pos
         /\ LineStart(text, pos) > 0 => text[LineStart(text, pos)] = "\n"
         /\ \A q \in LineStart(text, pos) + 1 .. pos : text[q] # "\n"
<1> DEFINE Starts == {s \in 0 .. pos : s > 0 => text[s] = "\n"}
           Back   == {d \in 0 .. pos : pos - d \in Starts}
<1>1. PICK d \in Back : \A e \in Back : d <= e
  <2>1. Back \in SUBSET Nat
    OBVIOUS
  <2>2. 0 \in Starts /\ pos - pos = 0 /\ pos \in 0 .. pos
    OBVIOUS
  <2>3. pos \in Back
    BY <2>2
  <2> QED
    BY <2>1, <2>3, Least
<1>2. pos - d \in Starts
  OBVIOUS
<1>3. \A q \in (pos - d) + 1 .. pos : text[q] # "\n"
  <2> SUFFICES ASSUME NEW q \in (pos - d) + 1 .. pos, text[q] = "\n"
               PROVE  FALSE
    OBVIOUS
  <2>1. q \in Starts /\ pos - (pos - q) = q /\ pos - q \in 0 .. pos
    BY <1>2
  <2>2. pos - q \in Back
    BY <2>1
  <2>3. d \in Int /\ q \in Int /\ pos \in Int /\ q > pos - d
    OBVIOUS
  <2> HIDE DEF Back
  <2>4. d <= pos - q
    BY <2>2, <1>1
  <2> QED
    BY <2>3, <2>4
<1> QED
  BY <1>2, <1>3 DEF LineStart

(* It ends at the first line feed from it on. *)
LEMMA LineEndIs ==
  ASSUME NEW text, Len(text) \in Nat, NEW pos \in 0 .. Len(text)
  PROVE  /\ LineEnd(text, pos) \in pos .. Len(text)
         /\ LineEnd(text, pos) < Len(text) => text[LineEnd(text, pos) + 1] = "\n"
         /\ \A q \in pos + 1 .. LineEnd(text, pos) : text[q] # "\n"
<1> DEFINE Ends == {e \in pos .. Len(text) : e < Len(text) => text[e + 1] = "\n"}
<1>1. PICK e \in Ends : \A f \in Ends : e <= f
  <2>1. Ends \in SUBSET Nat
    OBVIOUS
  <2>2. Len(text) \in Ends
    OBVIOUS
  <2> QED
    BY <2>1, <2>2, Least
<1>2. \A q \in pos + 1 .. e : text[q] # "\n"
  <2> SUFFICES ASSUME NEW q \in pos + 1 .. e, text[q] = "\n"
               PROVE  FALSE
    OBVIOUS
  <2>1. q - 1 \in pos .. Len(text) /\ (q - 1) + 1 = q
    OBVIOUS
  <2>2. q - 1 \in Ends
    BY <2>1
  <2>3. e \in Int /\ q \in Int /\ q <= e
    OBVIOUS
  <2> HIDE DEF Ends
  <2>4. e <= q - 1
    BY <2>2, <1>1
  <2> QED
    BY <2>3, <2>4
<1> QED
  BY <1>2 DEF LineEnd

(***************************************************************************)
(* However long the line is: the piece shown is of the line of the place,  *)
(* no wider than snippet_width, and the caret is below the character of    *)
(* that place, or right after the piece where the line ends.               *)
(***************************************************************************)
THEOREM CaretPointsAt ==
  ASSUME NEW text, Len(text) \in Nat, NEW pos \in 0 .. Len(text)
  PROVE  LET s    == Snippet(text, pos)
             size == WindowEnd(text, pos) - WindowStart(text, pos)
         IN  /\ size \in 0 .. SnippetWidth
             /\ s.caret \in 0 .. CaretMax
             /\ \A n \in 1 .. size :
                  /\ text[pos - s.caret + n] # "\n"
                  /\ s.piece[n] = Shown(text[pos - s.caret + n])
             /\ IF pos < Len(text) /\ text[pos + 1] # "\n"
                  THEN s.caret < size
                  ELSE s.caret = size
<1> DEFINE ls == LineStart(text, pos)
           le == LineEnd(text, pos)
           ws == WindowStart(text, pos)
           we == WindowEnd(text, pos)
<1>1. /\ ls \in 0 .. pos
      /\ \A q \in ls + 1 .. pos : text[q] # "\n"
  BY LineStartIs
<1>2. /\ le \in pos .. Len(text)
      /\ le < Len(text) => text[le + 1] = "\n"
      /\ \A q \in pos + 1 .. le : text[q] # "\n"
  BY LineEndIs
<1>3. ws = IF pos - ls > CaretMax THEN pos - CaretMax ELSE ls
  BY DEF WindowStart
<1>4. we = IF le > ws + SnippetWidth THEN ws + SnippetWidth ELSE le
  BY DEF WindowEnd, AtMost
<1> HIDE DEF ls, le, ws, we
<1>5. ws \in ls .. pos /\ pos - ws \in 0 .. CaretMax
  BY <1>1, <1>3, WidthsAssumption
<1>6. we \in ws .. le /\ we - ws \in 0 .. SnippetWidth
  BY <1>1, <1>2, <1>4, <1>5, WidthsAssumption
<1>7. \A n \in 1 .. we - ws : text[ws + n] # "\n"
  <2> SUFFICES ASSUME NEW n \in 1 .. we - ws PROVE text[ws + n] # "\n"
    OBVIOUS
  <2>1. ws + n \in ls + 1 .. pos \/ ws + n \in pos + 1 .. le
    BY <1>1, <1>2, <1>5, <1>6
  <2> QED
    BY <2>1, <1>1, <1>2
<1>8. IF pos < Len(text) /\ text[pos + 1] # "\n" THEN pos - ws < we - ws ELSE pos - ws = we - ws
  <2>1. CASE le = pos
    BY <2>1, <1>1, <1>2, <1>4, <1>5, WidthsAssumption
  <2>2. CASE le # pos
    <3>1. pos + 1 \in pos + 1 .. le /\ pos < Len(text)
      BY <2>2, <1>2
    <3>2. text[pos + 1] # "\n"
      BY <3>1, <1>2
    <3> QED
      BY <3>1, <3>2, <1>2, <1>4, <1>5, WidthsAssumption
  <2> QED
    BY <2>1, <2>2
<1>9. Snippet(text, pos) = [piece |-> [n \in 1 .. we - ws |-> Shown(text[ws + n])], caret |-> pos - ws]
  BY DEF Snippet, ws, we
<1>10. pos - (pos - ws) = ws
  BY <1>1, <1>5
<1> QED
  BY <1>5, <1>6, <1>7, <1>8, <1>9, <1>10 DEF ws, we
-----------------------------------------------------------------------------
(* Places of a text. *)

Feeds(text, p) == {n \in 1 .. p : text[n] = "\n"}

LEMMA FeedsAre ==
  ASSUME NEW text, NEW n \in Nat
  PROVE  /\ FeedsBefore(text, 0) = 0
         /\ FeedsBefore(text, n) \in Nat
         /\ FeedsBefore(text, n + 1)
              = IF text[n + 1] = "\n" THEN FeedsBefore(text, n) + 1 ELSE FeedsBefore(text, n)
<1>1. \A m \in Nat : IsFiniteSet(Feeds(text, m))
  <2> TAKE m \in Nat
  <2>1. IsFiniteSet(1 .. m) /\ Feeds(text, m) \in SUBSET (1 .. m)
    BY FS_Interval DEF Feeds
  <2> QED
    BY <2>1, FS_Subset
<1>2. Feeds(text, 0) = {}
  BY DEF Feeds
<1>3. Feeds(text, n + 1) = IF text[n + 1] = "\n" THEN Feeds(text, n) \cup {n + 1} ELSE Feeds(text, n)
  BY DEF Feeds
<1>4. n + 1 \notin Feeds(text, n)
  BY DEF Feeds
<1>5. \A m : FeedsBefore(text, m) = Cardinality(Feeds(text, m))
  BY DEF FeedsBefore, Feeds
<1>6. Cardinality(Feeds(text, n) \cup {n + 1}) = Cardinality(Feeds(text, n)) + 1
  BY <1>1, <1>4, FS_AddElement
<1> QED
  BY <1>1, <1>2, <1>3, <1>5, <1>6, FS_EmptySet, FS_CardinalityType

Position == [line : Nat, column : Nat]

(* at is the place after the first n characters of the text. *)
PlaceAfter(text, n, at) ==
  /\ at \in Position
  /\ at.column \in 1 .. n + 1
  /\ at.line = FeedsBefore(text, n) + 1
  /\ at.column <= n => text[(n - at.column) + 1] = "\n"
  /\ \A q \in (n - at.column) + 2 .. n : text[q] # "\n"

LEMMA PastKeepsPlace ==
  ASSUME NEW text, NEW n \in Nat, NEW at, PlaceAfter(text, n, at)
  PROVE  PlaceAfter(text, n + 1, PastChar(at, text[n + 1]))
<1>1. /\ at \in Position /\ at.column \in 1 .. n + 1
      /\ at.line = FeedsBefore(text, n) + 1
      /\ at.column <= n => text[(n - at.column) + 1] = "\n"
      /\ \A q \in (n - at.column) + 2 .. n : text[q] # "\n"
  BY DEF PlaceAfter
<1>2. FeedsBefore(text, n) \in Nat
  BY FeedsAre
<1>3. CASE text[n + 1] = "\n"
  <2> DEFINE to == [line |-> at.line + 1, column |-> 1]
  <2>1. PastChar(at, text[n + 1]) = to
    BY <1>3 DEF PastChar
  <2>2. to \in Position /\ to.column = 1 /\ to.line = at.line + 1
    BY <1>1 DEF Position
  <2>3. to.line = FeedsBefore(text, n + 1) + 1
    BY <1>1, <1>2, <1>3, <2>2, FeedsAre
  <2>4. ((n + 1) - 1) + 1 = n + 1 /\ ((n + 1) - 1) + 2 > n + 1
    OBVIOUS
  <2> HIDE DEF to
  <2> QED
    BY <1>3, <2>1, <2>2, <2>3, <2>4 DEF PlaceAfter
<1>4. CASE text[n + 1] # "\n"
  <2> DEFINE to == [at EXCEPT !.column = at.column + 1]
  <2>1. PastChar(at, text[n + 1]) = to
    BY <1>4 DEF PastChar
  <2>2. to \in Position /\ to.column = at.column + 1 /\ to.line = at.line
    BY <1>1 DEF Position
  <2>3. to.line = FeedsBefore(text, n + 1) + 1
    BY <1>1, <1>2, <1>4, <2>2, FeedsAre
  <2> HIDE DEF to
  <2>4. (n + 1) - to.column = n - at.column
    BY <1>1, <2>2
  <2>5. to.column <= n + 1 => text[((n + 1) - to.column) + 1] = "\n"
    BY <1>1, <2>2, <2>4
  <2>6. \A q \in ((n + 1) - to.column) + 2 .. n + 1 : text[q] # "\n"
    <3> SUFFICES ASSUME NEW q \in ((n + 1) - to.column) + 2 .. n + 1 PROVE text[q] # "\n"
      OBVIOUS
    <3>1. q = n + 1 \/ q \in (n - at.column) + 2 .. n
      BY <1>1, <2>2, <2>4
    <3> QED
      BY <1>1, <1>4, <3>1
  <2> QED
    BY <1>1, <2>1, <2>2, <2>3, <2>5, <2>6 DEF PlaceAfter
<1> QED
  BY <1>3, <1>4

(* locate counts the lines, and the characters of the last one. *)
LEMMA LocateIs ==
  ASSUME NEW text, Len(text) \in Nat, NEW pos \in 0 .. Len(text)
  PROVE  PlaceAfter(text, pos, Locate(text, pos))
<1> DEFINE x == [line |-> 1, column |-> 1]
           F == [q \in (1 .. pos) \X Position |-> PastChar(q[2], text[q[1]])]
           Body(g) == [n \in 0 .. pos |-> IF n = 0 THEN x ELSE PastChar(g[n - 1], text[n])]
<1>1. \A n \in 1 .. pos, p \in Position : PastChar(p, text[n]) \in Position
  BY DEF PastChar, Position
<1>2. F \in [(1 .. pos) \X Position -> Position]
  BY <1>1
<1>3. \A n \in 1 .. pos, p \in Position : F[<< n, p >>] = PastChar(p, text[n])
  OBVIOUS
<1>4. x \in Position
  BY DEF Position
<1>5. pos \in Nat /\ AtMost(pos, Len(text)) = pos
  BY DEF AtMost
<1> HIDE DEF F, x
<1>6. PICK f : IteratesUpTo(f, pos, Position, x, F)
  BY <1>2, <1>4, <1>5, RecursionUpTo
<1>7. f = Body(f)
  <2>1. f \in [0 .. pos -> Position] /\ f[0] = x
    BY <1>6 DEF IteratesUpTo
  <2>2. ASSUME NEW n \in 1 .. pos PROVE f[n] = PastChar(f[n - 1], text[n])
    <3>1. n - 1 \in 0 .. pos
      OBVIOUS
    <3>2. f[n] = F[<< n, f[n - 1] >>]
      BY <1>6 DEF IteratesUpTo
    <3> QED
      BY <1>3, <2>1, <3>1, <3>2
  <2>3. f = [n \in 0 .. pos |-> f[n]]
    BY <2>1
  <2>4. \A n \in 0 .. pos : f[n] = IF n = 0 THEN x ELSE PastChar(f[n - 1], text[n])
    <3>1. \A n \in 0 .. pos : n = 0 \/ (n # 0 /\ n \in 1 .. pos)
      OBVIOUS
    <3> QED
      BY <2>1, <2>2, <3>1
  <2> QED
    BY <2>3, <2>4
<1> DEFINE at == CHOOSE g : g = Body(g)
<1>8. Locate(text, pos) = at[pos]
  BY <1>5 DEF Locate, x
<1> HIDE DEF Body
<1>9. at = Body(at)
  BY <1>7
<1> HIDE DEF at
<1>10. at[0] = x /\ \A n \in 1 .. pos : at[n] = PastChar(at[n - 1], text[n])
  BY <1>5, <1>9 DEF Body
<1> DEFINE G == {n \in Nat : PlaceAfter(text, n, at[n])}
<1>11. 0 \in G
  <2>1. x.line = 1 /\ x.column = 1
    BY DEF x
  <2>2. FeedsBefore(text, 0) = 0
    BY FeedsAre
  <2> QED
    BY <1>4, <1>10, <2>1, <2>2 DEF PlaceAfter
<1>12. \A n \in 0 .. pos - 1 : n \in G => n + 1 \in G
  <2> SUFFICES ASSUME NEW n \in 0 .. pos - 1, n \in G PROVE n + 1 \in G
    OBVIOUS
  <2>1. n \in Nat /\ n + 1 \in 1 .. pos /\ (n + 1) - 1 = n
    OBVIOUS
  <2>2. at[n + 1] = PastChar(at[n], text[n + 1])
    BY <1>10, <2>1
  <2> QED
    BY <2>1, <2>2, PastKeepsPlace
<1> HIDE DEF G
<1>13. pos \in G
  <2>1. 0 .. pos \subseteq G
    BY <1>5, <1>11, <1>12, AllUpTo, Zenon
  <2> QED
    BY <1>5, <2>1
<1> QED
  BY <1>8, <1>13 DEF G

LEMMA ShownIs ==
  \A c : /\ Shown(c) = IF c \in {"\t", "\r"} THEN " " ELSE c
         /\ c # "\n" => Shown(c) # "\n"
BY Zenon DEF Shown

(***************************************************************************)
(* What error_info_of (ctyaml.hpp of ctlark) tells of a place in a text,   *)
(* for every text, place and width of the window: line and column lead to  *)
(* the place, the snippet is of the line that is named, and the caret      *)
(* stands below its character, or behind the snippet where the line ends.  *)
(* The loops that count lines, the ones that look for the ends of the line *)
(* and the window are separate in the code.                                *)
(***************************************************************************)
THEOREM InfoPoints ==
  ASSUME NEW text, Len(text) \in Nat, NEW pos \in 0 .. Len(text), NEW kind, NEW expected
  PROVE  PointsInto(text, Info(kind, text, pos, expected))
<1> DEFINE info == Info(kind, text, pos, expected)
           at   == Locate(text, pos)
           s    == Snippet(text, pos)
           size == WindowEnd(text, pos) - WindowStart(text, pos)
           ls   == LineStart(text, pos)
<1>1. /\ info.position = pos /\ info.line = at.line /\ info.column = at.column
      /\ info.snippet = s
  BY DEF Info
<1>2. PlaceAfter(text, pos, at)
  BY LocateIs
<1>3. /\ at.line \in Nat /\ at.column \in 1 .. pos + 1
      /\ at.line = FeedsBefore(text, pos) + 1
      /\ at.column <= pos => text[(pos - at.column) + 1] = "\n"
      /\ \A q \in (pos - at.column) + 2 .. pos : text[q] # "\n"
  BY <1>2 DEF PlaceAfter, Position
<1>4. /\ size \in 0 .. SnippetWidth
      /\ s.caret \in 0 .. CaretMax
      /\ \A n \in 1 .. size :
           /\ text[(pos - s.caret) + n] # "\n"
           /\ s.piece[n] = Shown(text[(pos - s.caret) + n])
      /\ IF pos < Len(text) /\ text[pos + 1] # "\n" THEN s.caret < size ELSE s.caret = size
  BY CaretPointsAt
<1>5. DOMAIN s.piece = 1 .. size /\ Len(s.piece) = size
  <2> DEFINE piece == [n \in 1 .. size |-> Shown(text[WindowStart(text, pos) + n])]
  <2>1. s.piece = piece
    BY DEF Snippet
  <2>2. piece \in [1 .. size -> {Shown(text[WindowStart(text, pos) + n]) : n \in 1 .. size}]
    OBVIOUS
  <2> HIDE DEF piece, size
  <2>3. size \in Nat
    BY <1>4
  <2>4. piece \in Seq({Shown(text[WindowStart(text, pos) + n]) : n \in 1 .. size}) /\ Len(piece) = size
    BY <2>2, <2>3, FunctionIsSeq
  <2> QED
    BY <2>1, <2>2, <2>4
<1>6. s.caret <= pos - ls
  <2>1. s.caret = pos - WindowStart(text, pos)
    BY DEF Snippet
  <2>2. ls \in 0 .. pos
    BY LineStartIs
  <2> HIDE DEF ls
  <2>3. WindowStart(text, pos) = IF pos - ls > CaretMax THEN pos - CaretMax ELSE ls
    BY DEF WindowStart, ls
  <2> QED
    BY <2>1, <2>2, <2>3, WidthsAssumption
<1>7. ls \in 0 .. pos /\ \A q \in ls + 1 .. pos : text[q] # "\n"
  BY LineStartIs
<1> HIDE DEF info, at, s, size, ls
<1> DEFINE c == at.column
<1>8. /\ c \in 1 .. pos + 1 /\ pos \in Nat
      /\ c <= pos => text[(pos - c) + 1] = "\n"
      /\ \A q \in (pos - c) + 2 .. pos : text[q] # "\n"
  BY <1>3
<1> HIDE DEF c
<1>9. s.caret < c
  <2>1. pos - ls < c
    <3>1. CASE c <= pos
      <4>1. text[(pos - c) + 1] = "\n" /\ (pos - c) + 1 \in 1 .. pos
        BY <1>8, <3>1
      <4>2. ~ (pos - c) + 1 > ls
        BY <1>7, <4>1
      <4> QED
        BY <1>7, <1>8, <4>2
    <3>2. CASE ~ c <= pos
      BY <1>7, <1>8, <3>2
    <3> QED
      BY <3>1, <3>2
  <2> QED
    BY <1>4, <1>6, <1>7, <1>8, <2>1
<1>10. FeedsBefore(text, (pos - c) + 1) = FeedsBefore(text, pos)
  <2>1. \A q \in 1 .. pos : text[q] = "\n" => q \in 1 .. (pos - c) + 1
    <3> SUFFICES ASSUME NEW q \in 1 .. pos, ~ q \in 1 .. (pos - c) + 1 PROVE text[q] # "\n"
      OBVIOUS
    <3>1. q \in (pos - c) + 2 .. pos
      BY <1>8
    <3> QED
      BY <1>8, <3>1
  <2>2. (pos - c) + 1 \in 0 .. pos
    BY <1>8
  <2>3. {n \in 1 .. (pos - c) + 1 : text[n] = "\n"} = {n \in 1 .. pos : text[n] = "\n"}
    BY <2>1, <2>2
  <2> QED
    BY <2>3, Zenon DEF FeedsBefore
<1>11. FeedsBefore(text, pos) = at.line - 1
  <2>1. FeedsBefore(text, pos) \in Nat
    BY FeedsAre
  <2> QED
    BY <1>3, <2>1
<1>12. \A n \in 1 .. size :
         /\ s.piece[n] # "\n"
         /\ s.piece[n] = IF text[(pos - s.caret) + n] \in {"\t", "\r"} THEN " "
                         ELSE text[(pos - s.caret) + n]
  BY <1>4, ShownIs, Zenon
<1>13. IF pos < Len(text) /\ text[pos + 1] # "\n"
         THEN s.caret \in 0 .. Len(s.piece) - 1 ELSE s.caret = Len(s.piece)
  BY <1>4, <1>5
<1> QED
  BY <1>1, <1>5, <1>8, <1>9, <1>10, <1>11, <1>12, <1>13, Zenon DEF PointsInto, info, c

=============================================================================
