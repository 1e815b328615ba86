------------------------- MODULE BlockBinderProofs -------------------------
(***************************************************************************)
(* Theorems about the block binder, for every set of keys and values and   *)
(* every set of line lists.                                                *)
(***************************************************************************)
EXTENDS BlockBinder, SequenceTheorems, TLAPS

-----------------------------------------------------------------------------
(* Sequences of anything. *)

LEMMA SequenceIntro ==
  ASSUME NEW S, NEW s \in Seq(S)
  PROVE  IsSequence(s)
BY SeqOfRange DEF Range, IsSequence

LEMMA SequenceAppend ==
  ASSUME NEW s, IsSequence(s), NEW x
  PROVE  /\ IsSequence(Append(s, x))
         /\ Len(Append(s, x)) = Len(s) + 1
         /\ \A i \in 1 .. Len(s) : Append(s, x)[i] = s[i]
         /\ Append(s, x)[Len(s) + 1] = x
         /\ Append(s, x) # << >>
<1> DEFINE S == {s[i] : i \in DOMAIN s} \cup {x}
           t == Append(s, x)
<1>1. s \in Seq(S) BY SeqMonotonic DEF IsSequence
<1>2. /\ t \in Seq(S)
      /\ Len(t) = Len(s) + 1
      /\ \A i \in 1 .. Len(s) : t[i] = s[i]
      /\ t[Len(s) + 1] = x
  BY <1>1, AppendProperties
<1>3. IsSequence(t)  BY <1>2, SequenceIntro
<1>4. t # << >>  BY <1>1, AppendProperties
<1> QED BY <1>2, <1>3, <1>4

LEMMA SequenceFront ==
  ASSUME NEW s, IsSequence(s), s # << >>
  PROVE  LET t == SubSeq(s, 1, Len(s) - 1)
         IN  /\ IsSequence(t)
             /\ Len(t) = Len(s) - 1
             /\ \A i \in 1 .. Len(t) : t[i] = s[i]
<1> DEFINE S == {s[i] : i \in DOMAIN s}
           t == SubSeq(s, 1, Len(s) - 1)
<1>1. s \in Seq(S) BY DEF IsSequence
<1>2. PICK n \in Nat : Len(s) = n + 1
  <2>1. Len(s) \in Nat \ {0}  BY <1>1, EmptySeq
  <2> QED BY <2>1
<1>3. /\ t \in Seq(S)
      /\ Len(t) = Len(s) - 1
      /\ \A i \in 1 .. Len(t) : t[i] = s[i]
  <2>1. \A i \in 1 .. n : s[i] \in S  BY <1>1, <1>2, ElementOfSeq
  <2>2. t = SubSeq(s, 1, n)  BY <1>2
  <2> HIDE DEF t, S
  <2>3. /\ t \in Seq(S)
        /\ Len(t) = IF 1 <= n THEN n - 1 + 1 ELSE 0
        /\ \A i \in 1 .. n - 1 + 1 : t[i] = s[1 + i - 1]
    BY <2>1, <2>2, SubSeqProperties
  <2> QED BY <1>2, <2>3
<1>4. IsSequence(t)  BY <1>3, SequenceIntro
<1> QED BY <1>3, <1>4

-----------------------------------------------------------------------------
(* The line list. *)

LEMMA RestHeadTail ==
  ASSUME rest \in Seq(Line), rest # << >>
  PROVE  /\ Current \in Line
         /\ Current.indent \in Nat
         /\ Current = rest[1]
         /\ Tail(rest) \in Seq(Line)
         /\ Len(rest) \in Nat \ {0}
         /\ Len(Tail(rest)) = Len(rest) - 1
         /\ \A i \in 1 .. Len(Tail(rest)) : Tail(rest)[i] = rest[i + 1]
<1>1. Current \in Line /\ Current = rest[1]
  BY HeadTailProperties DEF Current
<1>2. Current.indent \in Nat  BY <1>1 DEF Line
<1>3. Len(rest) \in Nat \ {0}  BY EmptySeq
<1> QED BY <1>1, <1>2, <1>3, HeadTailProperties

(* The synthetic line of `- content` is a line, deeper by the dash. *)
LEMMA SyntheticLine ==
  ASSUME NEW l \in Line, NodeIsSeqitem(l), HasInner(l)
  PROVE  /\ Synthetic(l) \in Line
         /\ Synthetic(l).indent > l.indent
         /\ Synthetic(l).leaf = l.leaf
         /\ Synthetic(l).dashes = Tail(l.dashes)
         /\ Len(Tail(l.dashes)) = Len(l.dashes) - 1
         /\ Len(l.dashes) \in Nat \ {0}
<1>1. /\ l \in [indent : Nat, dashes : Seq(Nat \ {0}), leaf : Leaf]
      /\ l.leaf.kind = "none" => l.dashes # << >>
  BY DEF Line
<1>2. l.dashes \in Seq(Nat \ {0}) /\ l.dashes # << >>
  BY <1>1 DEF NodeIsSeqitem
<1>3. /\ Head(l.dashes) \in Nat \ {0}
      /\ Tail(l.dashes) \in Seq(Nat \ {0})
      /\ Len(Tail(l.dashes)) = Len(l.dashes) - 1
      /\ Len(l.dashes) \in Nat \ {0}
      /\ Tail(l.dashes) = << >> => Len(Tail(l.dashes)) = 0
  BY <1>2, HeadTailProperties, EmptySeq
<1>4. Synthetic(l) = [indent |-> l.indent + Head(l.dashes),
                      dashes |-> Tail(l.dashes), leaf |-> l.leaf]
  BY <1>1 DEF Synthetic
<1>5. l.leaf.kind = "none" => Tail(l.dashes) # << >>
  <2> DEFINE t == Tail(l.dashes)
             n == Len(l.dashes)
  <2>1. /\ n \in Nat /\ Len(t) = n - 1
        /\ t = << >> => Len(t) = 0
        /\ n > 1 \/ l.leaf.kind # "none"
    BY <1>3 DEF HasInner
  <2> HIDE DEF t, n
  <2>2. n > 1 => t # << >>  BY <2>1
  <2> QED BY <2>1, <2>2 DEF t
<1>6. Synthetic(l) \in Line
  BY <1>1, <1>3, <1>4, <1>5 DEF Line
<1> QED BY <1>1, <1>3, <1>4, <1>6

LEMMA LineLeaf ==
  ASSUME NEW l \in Line
  PROVE  /\ l.leaf.kind \in {"none", "pair", "member", "value"}
         /\ l.leaf.kind \in {"pair", "member"} =>
              l.leaf.key \in Keys /\ l.leaf.keyOk \in BOOLEAN
         /\ l.leaf.kind \in {"member", "value"} => l.leaf.valOk \in BOOLEAN
         /\ ~ NodeIsSeqitem(l) /\ ~ NodeIsPair(l) => l.leaf.kind = "value"
<1>1. l.leaf \in Leaf /\ (l.leaf.kind = "none" => l.dashes # << >>)
  BY DEF Line
<1>2. CASE l.leaf \in [kind : {"none"}]
  BY <1>1, <1>2 DEF NodeIsSeqitem
<1>3. CASE l.leaf \in [kind : {"pair"}, key : Keys, keyOk : BOOLEAN]
  BY <1>1, <1>3 DEF NodeIsSeqitem, NodeIsPair
<1>4. CASE l.leaf \in [kind : {"member"}, key : Keys, keyOk : BOOLEAN,
                        val : Vals, valOk : BOOLEAN]
  BY <1>1, <1>4 DEF NodeIsSeqitem, NodeIsPair
<1>5. CASE l.leaf \in [kind : {"value"}, val : Vals, valOk : BOOLEAN]
  BY <1>5
<1> QED BY <1>1, <1>2, <1>3, <1>4, <1>5 DEF Leaf

-----------------------------------------------------------------------------
(***************************************************************************)
(* Type correctness: one lemma for each way a step moves between           *)
(* templates, then one step for each action.                               *)
(***************************************************************************)

LEMMA TopFrame ==
  ASSUME TypeOK, frames # << >>
  PROVE  /\ Len(frames) \in Nat \ {0}
         /\ Len(frames) \in 1 .. Len(frames)
         /\ Top \in Frame
         /\ Top.indent \in Nat
         /\ Top.kind \in {"map", "seq"}
         /\ Top.ok \in BOOLEAN
<1>1. frames \in Seq(Frame) BY DEF TypeOK
<1>2. Len(frames) \in Nat \ {0}  BY <1>1, EmptySeq
<1>3. Len(frames) \in 1 .. Len(frames)  BY <1>2
<1>4. Top \in Frame BY <1>1, <1>3, ElementOfSeq DEF Top
<1> QED BY <1>2, <1>3, <1>4 DEF Frame

LEMMA FrameTypes ==
  ASSUME TypeOK
  PROVE  /\ Len(frames) \in Nat
         /\ \A j \in 1 .. Len(frames) :
              /\ frames[j] \in Frame
              /\ frames[j].indent \in Nat
              /\ frames[j].ok \in BOOLEAN
<1>1. frames \in Seq(Frame) BY DEF TypeOK
<1>2. Len(frames) \in Nat  BY <1>1, LenProperties
<1>3. \A j \in 1 .. Len(frames) : frames[j] \in Frame
  BY <1>1, ElementOfSeq
<1> QED BY <1>2, <1>3 DEF Frame

LEMMA EnterKeepsTypes ==
  ASSUME TypeOK, pc \in {"block", "nested"},
         NEW k \in {"map", "seq"}, NEW i \in Nat, Enter(k, i)
  PROVE  TypeOK'
<1> DEFINE f == FrameOf(k, i, TRUE, NoKey)
<1>1. f \in Frame /\ f.key = NoKey  BY DEF Frame, FrameOf
<1>2. frames \in Seq(Frame) BY DEF TypeOK
<1>3. frames' = Append(frames, f) BY DEF Enter
<1> HIDE DEF f
<1>4. /\ frames' \in Seq(Frame)
      /\ frames' # << >>
      /\ Len(frames') = Len(frames) + 1
      /\ \A j \in 1 .. Len(frames) : frames'[j] = frames[j]
      /\ frames'[Len(frames) + 1] = f
  BY <1>1, <1>2, <1>3, AppendProperties
<1>5. Len(frames) \in Nat  BY <1>2, LenProperties
<1>6. /\ IsSequence(built')
      /\ Len(built') = Len(frames')
      /\ \A j \in 1 .. Len(frames) : built'[j] = built[j]
      /\ built'[Len(frames) + 1] = << >>
  BY <1>4, SequenceAppend DEF TypeOK, Enter
<1>7. IsSequence(<< >>)  BY EmptySeq, SequenceIntro
<1>8. \A j \in 1 .. Len(frames') : IsSequence(built'[j])
  BY <1>4, <1>5, <1>6, <1>7 DEF TypeOK
<1>9. ASSUME NEW j \in 1 .. Len(frames')
      PROVE  frames'[j].key \in Keys <=> frames'[j].kind = "map" /\ Suspended(j)'
  <2>1. CASE j \in 1 .. Len(frames)
    <3>1. Suspended(j) /\ Suspended(j)'
      BY <1>4, <1>5, <2>1 DEF Suspended
    <3> QED BY <1>4, <2>1, <3>1 DEF TypeOK
  <2>2. CASE j = Len(frames) + 1
    <3>1. ~ Suspended(j)'  BY <1>4, <1>5, <2>2 DEF Suspended, Enter
    <3> QED BY <1>1, <1>4, <2>2, <3>1, KeysAssumption
  <2> QED BY <1>4, <1>5, <2>1, <2>2
<1> QED BY <1>4, <1>6, <1>8, <1>9 DEF TypeOK, Enter

LEMMA AnswerKeepsTypes ==
  ASSUME TypeOK, pc \in {"block", "nested"},
         NEW t, NEW ok \in BOOLEAN, NEW left \in Seq(Line),
         Answer(t, ok, left), UNCHANGED << frames, built >>
  PROVE  TypeOK'
<1>1. blk'.ok \in BOOLEAN  BY DEF Answer
<1>2. \A j \in 1 .. Len(frames) : Suspended(j) /\ Suspended(j)'
  BY DEF Answer, Suspended
<1> QED BY <1>1, <1>2 DEF TypeOK, Answer

LEMMA LeaveKeepsTypes ==
  ASSUME TypeOK, pc = "loop",
         NEW t, NEW ok \in BOOLEAN, NEW left \in Seq(Line), Leave(t, ok, left)
  PROVE  TypeOK'
<1>1. frames \in Seq(Frame) /\ frames # << >> /\ built # << >>
  BY EmptySeq DEF TypeOK
<1>2. PICK n \in Nat : Len(frames) = n + 1
  BY <1>1, TopFrame
<1>3. /\ IsSequence(frames')
      /\ Len(frames') = n
      /\ \A j \in 1 .. n : frames'[j] = frames[j]
  BY <1>1, <1>2, SequenceIntro, SequenceFront DEF Leave
<1>4. /\ IsSequence(built')
      /\ Len(built') = n
      /\ \A j \in 1 .. n : built'[j] = built[j]
  BY <1>1, <1>2, SequenceFront DEF Leave, TypeOK
<1>5. frames' \in Seq(Frame)
  <2>1. \A j \in 1 .. n : frames[j] \in Frame
    BY <1>1, <1>2, ElementOfSeq
  <2>2. SubSeq(frames, 1, n) \in Seq(Frame)
    BY <2>1, SubSeqProperties
  <2> QED BY <1>2, <2>2 DEF Leave
<1>6. \A j \in 1 .. n : Suspended(j) /\ Suspended(j)'
  BY <1>2 DEF Leave, Answer, Suspended
<1>7. blk'.ok \in BOOLEAN  BY DEF Leave, Answer
<1> QED BY <1>2, <1>3, <1>4, <1>5, <1>6, <1>7 DEF TypeOK, Leave, Answer

(* A step that changes the frame on top keeps the frames a stack of frames. *)
LEMMA FoldFrames ==
  ASSUME TypeOK, frames # << >>, NEW ok \in BOOLEAN,
         NEW key \in Keys \cup {NoKey}, Fold(ok, key)
  PROVE  /\ frames' \in Seq(Frame)
         /\ frames' # << >>
         /\ Len(frames') = Len(frames)
         /\ \A j \in 1 .. Len(frames) :
              /\ frames'[j].kind = frames[j].kind
              /\ frames'[j].indent = frames[j].indent
              /\ j # Len(frames) => frames'[j] = frames[j]
         /\ Top' = FrameOf(Top.kind, Top.indent, Top.ok /\ ok, key)
         /\ frames'[Len(frames)] = Top'
         /\ frames'[Len(frames)].key = key
<1> DEFINE f == FrameOf(Top.kind, Top.indent, Top.ok /\ ok, key)
           n == Len(frames)
<1>1. frames \in Seq(Frame) /\ n \in 1 .. n  BY TopFrame DEF TypeOK
<1>2. f \in Frame /\ f.kind = Top.kind /\ f.indent = Top.indent
  BY TopFrame DEF Frame, FrameOf
<1>3. frames' = [frames EXCEPT ![n] = f]  BY DEF Fold
<1>4. Top = frames[n]  BY DEF Top
<1> HIDE DEF f
<1>5. /\ frames' \in Seq(Frame)
      /\ Len(frames') = n
      /\ \A j \in 1 .. n : frames'[j] = IF j = n THEN f ELSE frames[j]
  BY <1>1, <1>2, <1>3, ExceptSeq
<1>6. Top' = f  BY <1>1, <1>5 DEF Top
<1>7. frames' # << >>  BY <1>1, <1>5, EmptySeq
<1>8. f.key = key  BY DEF f, FrameOf
<1> QED BY <1>1, <1>2, <1>4, <1>5, <1>6, <1>7, <1>8 DEF f

(* The same without what is known of the new ok and key. *)
LEMMA FoldShape ==
  ASSUME TypeOK, frames # << >>, NEW ok, NEW key, Fold(ok, key)
  PROVE  /\ Len(frames') = Len(frames)
         /\ \A j \in 1 .. Len(frames) :
              /\ frames'[j].kind = frames[j].kind
              /\ frames'[j].indent = frames[j].indent
<1> DEFINE f == FrameOf(Top.kind, Top.indent, Top.ok /\ ok, key)
           n == Len(frames)
           S == Frame \cup {f}
<1>1. frames \in Seq(S) /\ n \in 1 .. n  BY TopFrame, SeqMonotonic DEF TypeOK
<1>2. f \in S /\ f.kind = Top.kind /\ f.indent = Top.indent
  BY DEF FrameOf
<1>3. frames' = [frames EXCEPT ![n] = f]  BY DEF Fold
<1>4. Top = frames[n]  BY DEF Top
<1> HIDE DEF f, S
<1>5. /\ Len(frames') = n
      /\ \A j \in 1 .. n : frames'[j] = IF j = n THEN f ELSE frames[j]
  BY <1>1, <1>2, <1>3, ExceptSeq
<1> QED BY <1>2, <1>4, <1>5

LEMMA CollectKeepsTypes ==
  ASSUME TypeOK, pc \in {"loop", "return"}, frames # << >>,
         NEW x, NEW ok \in BOOLEAN, Collect(x, ok), UNCHANGED << lines, blk >>,
         rest' \in Seq(Line)
  PROVE  /\ TypeOK'
         /\ built'[Len(built')] # << >>
<1> DEFINE n == Len(frames)
           b == Append(built[n], x)
<1>1. n \in 1 .. n /\ Len(built) = n  BY TopFrame DEF TypeOK
<1>2. Fold(ok, NoKey) /\ pc' = "loop" /\ built' = [built EXCEPT ![n] = b]
  BY <1>1 DEF Collect
<1>3. IsSequence(b) /\ b # << >>  BY <1>1, SequenceAppend DEF TypeOK
<1> HIDE DEF b
<1>4. /\ IsSequence(built')
      /\ Len(built') = n
      /\ \A j \in 1 .. n : built'[j] = IF j = n THEN b ELSE built[j]
  <2> DEFINE S == {built[i] : i \in DOMAIN built} \cup {b}
  <2>1. built \in Seq(S)  BY SeqMonotonic DEF TypeOK, IsSequence
  <2>2. b \in S /\ n \in 1 .. Len(built)  BY <1>1
  <2> HIDE DEF S, n
  <2>3. /\ built' \in Seq(S)
        /\ Len(built') = Len(built)
        /\ \A j \in 1 .. Len(built) : built'[j] = IF j = n THEN b ELSE built[j]
    BY <1>2, <2>1, <2>2, ExceptSeq
  <2> QED BY <1>1, <2>3, SequenceIntro
<1>5. \A j \in 1 .. n : IsSequence(built'[j])
  BY <1>1, <1>3, <1>4 DEF TypeOK
<1>6. ASSUME NEW j \in 1 .. Len(frames')
      PROVE  frames'[j].key \in Keys <=> frames'[j].kind = "map" /\ Suspended(j)'
  <2>1. CASE j = n
    <3>1. ~ Suspended(j)'  BY <1>2, <2>1, FoldFrames DEF Suspended
    <3>2. frames'[j].key = NoKey  BY <1>2, <2>1, FoldFrames DEF FrameOf
    <3> QED BY <3>1, <3>2, KeysAssumption
  <2>2. CASE j # n
    <3>1. j \in 1 .. n /\ j < n /\ frames'[j] = frames[j] /\ Len(frames') = n
      BY <1>1, <1>2, <2>2, FoldFrames
    <3>2. Suspended(j) /\ Suspended(j)'  BY <3>1 DEF Suspended
    <3> QED BY <3>1, <3>2 DEF TypeOK
  <2> QED BY <2>1, <2>2
<1>7. /\ frames' \in Seq(Frame)
      /\ frames' # << >>
      /\ Len(frames') = n
  BY <1>2, FoldFrames
<1>8. TypeOK'
  BY <1>2, <1>4, <1>5, <1>6, <1>7 DEF TypeOK
<1> QED BY <1>1, <1>3, <1>4, <1>8

(* Replacing the head of the lines by its synthetic line. *)
LEMMA RestSynthetic ==
  ASSUME rest \in Seq(Line), rest # << >>,
         NodeIsSeqitem(Current), HasInner(Current),
         rest' = << Synthetic(Current) >> \o Tail(rest)
  PROVE  /\ rest' \in Seq(Line)
         /\ rest' # << >>
         /\ Len(rest') = Len(rest)
         /\ Current' = Synthetic(Current)
         /\ rest'[1] = Synthetic(Current)
         /\ \A i \in 2 .. Len(rest) : rest'[i] = rest[i]
<1> DEFINE l == Synthetic(Current)
<1>1. l \in Line  BY RestHeadTail, SyntheticLine
<1>2. /\ Tail(rest) \in Seq(Line)
      /\ Len(rest) \in Nat \ {0}
      /\ Len(Tail(rest)) = Len(rest) - 1
      /\ \A i \in 1 .. Len(Tail(rest)) : Tail(rest)[i] = rest[i + 1]
  BY RestHeadTail
<1> HIDE DEF l
<1>3. << l >> \in Seq(Line) /\ Len(<< l >>) = 1 /\ << l >>[1] = l
  BY <1>1
<1>4. /\ rest' \in Seq(Line)
      /\ Len(rest') = 1 + Len(Tail(rest))
      /\ \A i \in 1 .. Len(<< l >>) + Len(Tail(rest)) :
           rest'[i] = IF i <= Len(<< l >>) THEN << l >>[i]
                      ELSE Tail(rest)[i - Len(<< l >>)]
  BY <1>2, <1>3, ConcatProperties DEF l
<1>5. Len(rest') = Len(rest)  BY <1>2, <1>4
<1>6. rest' # << >>  BY <1>2, <1>5, EmptySeq
<1>7. rest'[1] = l  BY <1>2, <1>3, <1>4
<1>8. \A i \in 2 .. Len(rest) : rest'[i] = rest[i]
  <2> SUFFICES ASSUME NEW i \in 2 .. Len(rest) PROVE rest'[i] = rest[i]
    OBVIOUS
  <2>1. rest'[i] = Tail(rest)[i - 1]  BY <1>2, <1>3, <1>4
  <2>2. i - 1 \in 1 .. Len(Tail(rest)) /\ (i - 1) + 1 = i  BY <1>2
  <2> QED BY <1>2, <2>1, <2>2
<1>9. Current' = rest'[1]  BY <1>4, <1>6, HeadTailProperties DEF Current
<1> QED BY <1>4, <1>5, <1>6, <1>7, <1>8, <1>9 DEF l

(* A sequence loop that is suspended has no key to wait for. *)
LEMMA SuspendSeq ==
  ASSUME TypeOK, pc = "loop", frames # << >>, Top.kind = "seq",
         frames' = frames, pc' \in {"block", "nested"}
  PROVE  \A j \in 1 .. Len(frames) :
           frames[j].key \in Keys <=> frames[j].kind = "map" /\ Suspended(j)'
<1> TAKE j \in 1 .. Len(frames)
<1>1. Suspended(j)'  BY DEF Suspended
<1>2. CASE j = Len(frames)
  BY <1>2 DEF Top, TypeOK
<1>3. CASE j # Len(frames)
  <2>1. Len(frames) \in Nat  BY TopFrame
  <2>2. Suspended(j)  BY <1>3, <2>1 DEF Suspended
  <2> QED BY <1>1, <2>2 DEF TypeOK
<1> QED BY <1>2, <1>3

LEMMA InitTypes == Init => TypeOK
<1> SUFFICES ASSUME Init PROVE TypeOK
  OBVIOUS
<1>1. rest \in Seq(Line)  BY DocsAssumption DEF Init
<1>2. /\ frames \in Seq(Frame) /\ Len(frames) = 0
      /\ IsSequence(built) /\ Len(built) = 0
  BY EmptySeq, SequenceIntro DEF Init
<1> QED BY <1>1, <1>2 DEF Init, TypeOK

LEMMA NextTypes == TypeOK /\ [Next]_vars => TypeOK'
<1> SUFFICES ASSUME TypeOK, [Next]_vars PROVE TypeOK'
  OBVIOUS
<1>0. rest \in Seq(Line) /\ << >> \in Seq(Line)
  BY EmptySeq DEF TypeOK
<1>a. CASE BindEmpty
  BY <1>a DEF BindEmpty, TypeOK, Suspended
<1>b. CASE BindBody
  BY <1>b DEF BindBody, TypeOK, Suspended
<1>c. CASE BindFinish
  <2>1. blk'.ok \in BOOLEAN  BY <1>c DEF BindFinish, TypeOK
  <2> QED BY <1>0, <1>c, <2>1 DEF BindFinish, TypeOK, Suspended
<1>d. CASE ParseBlockPair
  BY <1>0, <1>d, RestHeadTail, EnterKeepsTypes DEF ParseBlockPair
<1>e. CASE ParseBlockSeqitem
  BY <1>0, <1>e, RestHeadTail, EnterKeepsTypes DEF ParseBlockSeqitem
<1>f. CASE ParseBlockValue
  <2>1. Current.leaf.valOk \in BOOLEAN /\ Tail(rest) \in Seq(Line)
    BY <1>0, <1>f, RestHeadTail, LineLeaf DEF ParseBlockValue
  <2> QED BY <1>f, <2>1, AnswerKeepsTypes DEF ParseBlockValue
<1>g. CASE NestedDeeper
  BY <1>g DEF NestedDeeper, TypeOK, Suspended
<1>h. CASE NestedSameIndentSeq
  <2>1. Top.indent \in Nat  BY <1>h, TopFrame DEF NestedSameIndentSeq, TypeOK
  <2> QED BY <1>h, <2>1, EnterKeepsTypes DEF NestedSameIndentSeq
<1>i. CASE NestedNull
  BY <1>0, <1>i, AnswerKeepsTypes DEF NestedNull
<1>j. CASE LoopDeeper
  BY <1>0, <1>j, LeaveKeepsTypes DEF LoopDeeper
<1>k. CASE MapEnd
  <2>1. Top.ok \in BOOLEAN  BY <1>k, TopFrame DEF MapEnd, TypeOK
  <2>2. (Top.ok /\ MembersUnique(built[Len(built)])) \in BOOLEAN
    BY <2>1 DEF MembersUnique
  <2> QED BY <1>0, <1>k, <2>2, LeaveKeepsTypes DEF MapEnd
<1>l. CASE MapEntryValue
  <2>1. frames # << >> /\ rest # << >>
    BY <1>l DEF MapEntryValue, MapEnds, TypeOK
  <2>2. (Current.leaf.keyOk /\ Current.leaf.valOk) \in BOOLEAN
    OBVIOUS
  <2>3. rest' \in Seq(Line)  BY <1>0, <1>l, <2>1, RestHeadTail DEF MapEntryValue
  <2> QED BY <1>l, <2>1, <2>2, <2>3, CollectKeepsTypes DEF MapEntryValue
<1>m. CASE MapEntryNested
  <2>1. frames # << >> /\ rest # << >>
    BY <1>m DEF MapEntryNested, MapEnds, TypeOK
  <2>2. Current.leaf.keyOk \in BOOLEAN /\ Current.leaf.key \in Keys
    BY <1>0, <1>m, <2>1, RestHeadTail, LineLeaf DEF MapEntryNested
  <2>3. Fold(Current.leaf.keyOk, Current.leaf.key)  BY <1>m DEF MapEntryNested
  <2>4. rest' \in Seq(Line)  BY <1>0, <1>m, <2>1, RestHeadTail DEF MapEntryNested
  <2>5. /\ frames' \in Seq(Frame) /\ frames' # << >> /\ Len(frames') = Len(frames)
        /\ \A j \in 1 .. Len(frames) :
             /\ frames'[j].kind = frames[j].kind
             /\ j # Len(frames) => frames'[j] = frames[j]
        /\ frames'[Len(frames)].key = Current.leaf.key
    BY <2>1, <2>2, <2>3, FoldFrames
  <2>7. Top.kind = "map" /\ Top = frames[Len(frames)]
    BY <1>m DEF MapEntryNested, Top
  <2>6. ASSUME NEW j \in 1 .. Len(frames')
        PROVE  frames'[j].key \in Keys <=> frames'[j].kind = "map" /\ Suspended(j)'
    <3>1. Suspended(j)'  BY <1>m DEF Suspended, MapEntryNested
    <3>2. CASE j = Len(frames)
      BY <2>1, <2>2, <2>5, <2>7, <3>1, <3>2, TopFrame
    <3>3. CASE j # Len(frames)
      <4>1. Len(frames) \in Nat  BY <2>1, TopFrame
      <4>2. j \in 1 .. Len(frames) /\ j < Len(frames)  BY <2>5, <3>3, <4>1
      <4>3. Suspended(j)  BY <4>2 DEF Suspended
      <4> QED BY <2>5, <3>1, <3>3, <4>2, <4>3 DEF TypeOK
    <3> QED BY <3>2, <3>3
  <2> QED BY <1>m, <2>4, <2>5, <2>6 DEF MapEntryNested, TypeOK
<1>n. CASE MapEntryResume
  BY <1>0, <1>n, CollectKeepsTypes DEF MapEntryResume, TypeOK
<1>o. CASE SeqEnd
  <2>1. Top.ok \in BOOLEAN  BY <1>o, TopFrame DEF SeqEnd, TypeOK
  <2> QED BY <1>0, <1>o, <2>1, LeaveKeepsTypes DEF SeqEnd
<1>p. CASE SeqEntryAlone
  <2>1. frames # << >> /\ rest # << >>
    BY <1>p DEF SeqEntryAlone, SeqEnds, TypeOK
  <2>2. rest' \in Seq(Line)  BY <1>0, <1>p, <2>1, RestHeadTail DEF SeqEntryAlone
  <2>3. \A j \in 1 .. Len(frames) :
          frames[j].key \in Keys <=> frames[j].kind = "map" /\ Suspended(j)'
    BY <1>p, <2>1, SuspendSeq DEF SeqEntryAlone
  <2> QED BY <1>p, <2>1, <2>2, <2>3 DEF SeqEntryAlone, TypeOK
<1>q. CASE SeqEntryInner
  <2>1. frames # << >> /\ rest # << >> /\ NodeIsSeqitem(Current)
    BY <1>q DEF SeqEntryInner, SeqEnds, TypeOK
  <2>2. rest' \in Seq(Line) /\ rest' # << >>
    BY <1>q, <2>1, RestSynthetic DEF SeqEntryInner, TypeOK
  <2>3. \A j \in 1 .. Len(frames) :
          frames[j].key \in Keys <=> frames[j].kind = "map" /\ Suspended(j)'
    BY <1>q, <2>1, SuspendSeq DEF SeqEntryInner
  <2> QED BY <1>q, <2>1, <2>2, <2>3 DEF SeqEntryInner, TypeOK
<1>r. CASE SeqEntryResume
  BY <1>0, <1>r, CollectKeepsTypes DEF SeqEntryResume, TypeOK
<1>s. CASE UNCHANGED vars
  BY <1>s DEF vars, TypeOK, Suspended
<1> QED
  BY <1>a, <1>b, <1>c, <1>d, <1>e, <1>f, <1>g, <1>h, <1>i, <1>j, <1>k, <1>l,
     <1>m, <1>n, <1>o, <1>p, <1>q, <1>r, <1>s DEF Next, Terminated

(***************************************************************************)
(* Every step of the descent keeps its types: the control state always has *)
(* what the next template takes for granted.                               *)
(***************************************************************************)
THEOREM TypeCorrect == Spec => []TypeOK
<1>1. Init => TypeOK  BY InitTypes
<1>2. TypeOK /\ [Next]_vars => TypeOK'  BY NextTypes
<1> QED BY <1>1, <1>2, PTL DEF Spec

-----------------------------------------------------------------------------
(***************************************************************************)
(* Nesting.  What changes the stack of indents is a loop entered or left.  *)
(***************************************************************************)

LEMMA EnterFrames ==
  ASSUME TypeOK, NEW k \in {"map", "seq"}, NEW i \in Nat, Enter(k, i)
  PROVE  /\ Len(frames) \in Nat
         /\ Len(frames') = Len(frames) + 1
         /\ \A j \in 1 .. Len(frames) : frames'[j] = frames[j]
         /\ frames'[Len(frames) + 1] = FrameOf(k, i, TRUE, NoKey)
         /\ Top' = FrameOf(k, i, TRUE, NoKey)
<1> DEFINE f == FrameOf(k, i, TRUE, NoKey)
<1>1. f \in Frame  BY DEF Frame, FrameOf
<1>2. frames \in Seq(Frame)  BY DEF TypeOK
<1>3. frames' = Append(frames, f)  BY DEF Enter
<1> HIDE DEF f
<1>4. /\ Len(frames') = Len(frames) + 1
      /\ \A j \in 1 .. Len(frames) : frames'[j] = frames[j]
      /\ frames'[Len(frames) + 1] = f
  BY <1>1, <1>2, <1>3, AppendProperties
<1>5. Len(frames) \in Nat  BY <1>2, LenProperties
<1> QED BY <1>4, <1>5 DEF f, Top

LEMMA EnterKeepsNesting ==
  ASSUME TypeOK, NestingFollowsIndent,
         NEW k \in {"map", "seq"}, NEW i \in Nat, Enter(k, i),
         \A j \in 1 .. Len(frames) : Inside(frames[j], FrameOf(k, i, TRUE, NoKey))
  PROVE  NestingFollowsIndent'
<1>0. /\ Len(frames) \in Nat
      /\ Len(frames') = Len(frames) + 1
      /\ \A j \in 1 .. Len(frames) : frames'[j] = frames[j]
      /\ frames'[Len(frames) + 1] = FrameOf(k, i, TRUE, NoKey)
  BY EnterFrames
<1>1. ASSUME NEW a \in 1 .. Len(frames'), NEW b \in 1 .. Len(frames'), a < b
      PROVE  Inside(frames'[a], frames'[b])
  <2>1. a \in 1 .. Len(frames) /\ frames'[a] = frames[a]
    BY <1>0, <1>1
  <2>2. CASE b = Len(frames) + 1
    BY <1>0, <2>1, <2>2
  <2>3. CASE b # Len(frames) + 1
    <3>1. b \in 1 .. Len(frames) /\ frames'[b] = frames[b]
      BY <1>0, <2>3
    <3> QED BY <1>1, <2>1, <3>1 DEF NestingFollowsIndent
  <2> QED BY <2>2, <2>3
<1>2. pc' # "block"  BY DEF Enter
<1> QED BY <1>1, <1>2 DEF NestingFollowsIndent, Inside

LEMMA PrefixKeepsNesting ==
  ASSUME NestingFollowsIndent, pc' # "block",
         Len(frames) \in Nat, Len(frames') \in Nat, Len(frames') <= Len(frames),
         \A j \in 1 .. Len(frames') : /\ frames'[j].kind = frames[j].kind
                                      /\ frames'[j].indent = frames[j].indent
  PROVE  NestingFollowsIndent'
<1>1. ASSUME NEW a \in 1 .. Len(frames'), NEW b \in 1 .. Len(frames'), a < b
      PROVE  Inside(frames'[a], frames'[b])
  <2>1. a \in 1 .. Len(frames) /\ b \in 1 .. Len(frames)
    OBVIOUS
  <2>2. Inside(frames[a], frames[b])  BY <1>1, <2>1 DEF NestingFollowsIndent
  <2> QED BY <2>2 DEF Inside
<1> QED BY <1>1 DEF NestingFollowsIndent, Inside

LEMMA LeaveFrames ==
  ASSUME TypeOK, frames # << >>, NEW t, NEW ok, NEW left, Leave(t, ok, left)
  PROVE  /\ Len(frames') \in Nat
         /\ Len(frames) = Len(frames') + 1
         /\ \A j \in 1 .. Len(frames') : frames'[j] = frames[j]
<1>1. IsSequence(frames)  BY SequenceIntro DEF TypeOK
<1>2. PICK n \in Nat : Len(frames) = n + 1  BY TopFrame, SMTT(30)
<1>3. Len(frames') = n /\ \A j \in 1 .. n : frames'[j] = frames[j]
  BY <1>1, <1>2, SequenceFront DEF Leave
<1> QED BY <1>2, <1>3

(* The frames below the top one are at its indent at the most. *)
LEMMA TopIsDeepest ==
  ASSUME TypeOK, NestingFollowsIndent, frames # << >>
  PROVE  \A j \in 1 .. Len(frames) :
           /\ frames[j].indent \in Nat
           /\ frames[j].indent <= Top.indent
           /\ j # Len(frames) => Inside(frames[j], Top)
<1> TAKE j \in 1 .. Len(frames)
<1>1. frames[j].indent \in Nat
  BY FrameTypes
<1>2. Top = frames[Len(frames)]  BY DEF Top
<1>3. CASE j = Len(frames)  BY <1>1, <1>2, <1>3
<1>4. CASE j # Len(frames)
  <2>1. j < Len(frames) /\ Len(frames) \in 1 .. Len(frames)  BY <1>4, TopFrame
  <2>2. Inside(frames[j], Top)  BY <1>2, <2>1 DEF NestingFollowsIndent
  <2> QED BY <1>1, <2>2, TopFrame DEF Inside
<1> QED BY <1>3, <1>4

LEMMA InitNesting == Init => NestingFollowsIndent
<1> SUFFICES ASSUME Init PROVE NestingFollowsIndent
  OBVIOUS
<1>1. Len(frames) = 0 /\ pc # "block"  BY EmptySeq DEF Init
<1> QED BY <1>1 DEF NestingFollowsIndent

LEMMA NextNesting ==
  TypeOK /\ NestingFollowsIndent /\ [Next]_vars => NestingFollowsIndent'
<1> SUFFICES ASSUME TypeOK, NestingFollowsIndent, [Next]_vars
             PROVE  NestingFollowsIndent'
  OBVIOUS
<1>0. /\ rest \in Seq(Line) /\ Len(frames) \in Nat
      /\ \A j \in 1 .. Len(frames) : frames[j].indent \in Nat
  BY FrameTypes DEF TypeOK
<1>1. CASE BindEmpty \/ BindFinish \/ ParseBlockValue \/ NestedNull \/ SeqEntryAlone
  <2>1. frames' = frames /\ pc' # "block"
    BY <1>1 DEF BindEmpty, BindFinish, ParseBlockValue, NestedNull,
                SeqEntryAlone, Answer
  <2> QED BY <1>0, <2>1, PrefixKeepsNesting
<1>2. CASE BindBody
  BY <1>2, EmptySeq DEF BindBody, TypeOK, NestingFollowsIndent
<1>3. CASE ParseBlockPair \/ ParseBlockSeqitem
  <2> DEFINE i == Current.indent
  <2>1. i \in Nat  BY <1>0, <1>3, RestHeadTail DEF ParseBlockPair, ParseBlockSeqitem
  <2>2. PICK k \in {"map", "seq"} : Enter(k, i)
    BY <1>3 DEF ParseBlockPair, ParseBlockSeqitem
  <2>3. pc = "block"  BY <1>3 DEF ParseBlockPair, ParseBlockSeqitem
  <2>4. \A j \in 1 .. Len(frames) : frames[j].indent < i
    BY <2>3 DEF NestingFollowsIndent
  <2>5. FrameOf(k, i, TRUE, NoKey).indent = i  BY DEF FrameOf
  <2>6. \A j \in 1 .. Len(frames) : Inside(frames[j], FrameOf(k, i, TRUE, NoKey))
    BY <2>4, <2>5 DEF Inside
  <2> QED BY <2>1, <2>2, <2>6, EnterKeepsNesting
<1>4. CASE NestedDeeper
  <2>1. /\ frames' = frames /\ rest' = rest /\ Current.indent > Top.indent
        /\ frames # << >> /\ rest # << >>
    BY <1>4 DEF NestedDeeper, TypeOK
  <2>2. Current.indent \in Nat /\ Top.indent \in Nat
    BY <1>0, <2>1, RestHeadTail, TopFrame
  <2>3. \A j \in 1 .. Len(frames) : frames[j].indent < Current.indent
    BY <2>1, <2>2, TopIsDeepest
  <2>4. Current' = Current  BY <2>1 DEF Current
  <2> QED BY <2>1, <2>3, <2>4 DEF NestingFollowsIndent
<1>5. CASE NestedSameIndentSeq
  <2>1. frames # << >> /\ Top.kind = "map" /\ Enter("seq", Top.indent)
    BY <1>5 DEF NestedSameIndentSeq, SameIndentSeq, TypeOK
  <2> DEFINE g == FrameOf("seq", Top.indent, TRUE, NoKey)
  <2>2. g.indent = Top.indent /\ g.kind = "seq"  BY DEF FrameOf
  <2>3. \A j \in 1 .. Len(frames) : Inside(frames[j], g)
    <3> TAKE j \in 1 .. Len(frames)
    <3> HIDE DEF g
    <3>1. CASE j = Len(frames)  BY <2>1, <2>2, <3>1 DEF Inside, Top
    <3>2. CASE j # Len(frames)
      <4>1. Inside(frames[j], Top)  BY <2>1, <3>2, TopIsDeepest
      <4> QED BY <2>1, <2>2, <4>1 DEF Inside
    <3> QED BY <3>1, <3>2
  <2>4. Top.indent \in Nat  BY <2>1, TopFrame
  <2> QED BY <2>1, <2>3, <2>4, EnterKeepsNesting
<1>6. CASE LoopDeeper \/ MapEnd \/ SeqEnd
  <2>1. frames # << >>  BY <1>6 DEF LoopDeeper, MapEnd, SeqEnd, TypeOK
  <2>2. PICK t, ok, left : Leave(t, ok, left)
    BY <1>6 DEF LoopDeeper, MapEnd, SeqEnd
  <2>3. pc' # "block"  BY <2>2 DEF Leave, Answer
  <2>4. Len(frames') \in Nat /\ Len(frames) = Len(frames') + 1
        /\ \A j \in 1 .. Len(frames') : frames'[j] = frames[j]
    BY <2>1, <2>2, LeaveFrames
  <2> QED BY <1>0, <2>3, <2>4, PrefixKeepsNesting
<1>7. CASE MapEntryValue \/ MapEntryNested \/ MapEntryResume \/ SeqEntryResume
  <2>1. frames # << >> /\ (rest # << >> \/ MapEntryResume \/ SeqEntryResume)
    BY <1>7 DEF MapEntryValue, MapEntryNested, MapEntryResume, SeqEntryResume,
                MapEnds, TypeOK
  <2>2. PICK ok, key : Fold(ok, key)
    BY <1>7 DEF MapEntryValue, MapEntryNested, MapEntryResume, SeqEntryResume, Collect
  <2>3. pc' # "block"
    BY <1>7 DEF MapEntryValue, MapEntryNested, MapEntryResume, SeqEntryResume, Collect
  <2>4. /\ Len(frames') = Len(frames)
        /\ \A j \in 1 .. Len(frames) : /\ frames'[j].kind = frames[j].kind
                                       /\ frames'[j].indent = frames[j].indent
    BY <2>1, <2>2, FoldShape
  <2> QED BY <1>0, <2>3, <2>4, PrefixKeepsNesting
<1>8. CASE SeqEntryInner
  <2>1. /\ frames # << >> /\ rest # << >> /\ frames' = frames
        /\ NodeIsSeqitem(Current) /\ HasInner(Current)
        /\ ~ Current.indent < Top.indent /\ ~ Current.indent > Top.indent
        /\ rest' = << Synthetic(Current) >> \o Tail(rest)
    BY <1>8 DEF SeqEntryInner, SeqEnds, Deeper, TypeOK
  <2>2. Current \in Line /\ Current.indent \in Nat /\ Top.indent \in Nat
    BY <1>0, <2>1, RestHeadTail, TopFrame
  <2>3. Current' = Synthetic(Current)  BY <1>0, <2>1, RestSynthetic
  <2>4. Current'.indent > Current.indent /\ Current'.indent \in Nat
    BY <2>1, <2>2, <2>3, SyntheticLine DEF Line
  <2>5. \A j \in 1 .. Len(frames) : frames[j].indent < Current'.indent
    BY <2>1, <2>2, <2>4, TopIsDeepest
  <2> QED BY <2>1, <2>5 DEF NestingFollowsIndent
<1>9. CASE UNCHANGED vars
  <2>1. frames' = frames /\ pc' = pc /\ Current' = Current
    BY <1>9 DEF vars, Current
  <2> QED BY <2>1 DEF NestingFollowsIndent
<1> QED
  BY <1>1, <1>2, <1>3, <1>4, <1>5, <1>6, <1>7, <1>8, <1>9 DEF Next, Terminated

(***************************************************************************)
(* Whatever the lines, the blocks being bound nest by indent.              *)
(***************************************************************************)
THEOREM NestingCorrect == Spec => []NestingFollowsIndent
<1>1. Init => NestingFollowsIndent  BY InitNesting
<1>2. TypeOK /\ NestingFollowsIndent /\ [Next]_vars => NestingFollowsIndent'
  BY NextNesting
<1> QED BY <1>1, <1>2, TypeCorrect, PTL DEF Spec

-----------------------------------------------------------------------------
(* Loops and their entries. *)

LEMMA NextEntries ==
  TypeOK /\ LoopsHaveEntries /\ [Next]_vars => LoopsHaveEntries'
<1> SUFFICES ASSUME TypeOK, LoopsHaveEntries, [Next]_vars
             PROVE  LoopsHaveEntries'
  OBVIOUS
<1>0. rest \in Seq(Line)  BY DEF TypeOK
<1>1. CASE ParseBlockPair
  <2>1. Current.indent \in Nat /\ Enter("map", Current.indent)
    BY <1>0, <1>1, RestHeadTail DEF ParseBlockPair
  <2>2. Top' = FrameOf("map", Current.indent, TRUE, NoKey)
    BY <2>1, EnterFrames
  <2>3. Current' = Current /\ rest' = rest  BY <2>1 DEF Enter, Current
  <2> QED BY <1>1, <2>2, <2>3 DEF LoopsHaveEntries, ParseBlockPair, FrameOf
<1>2. CASE ParseBlockSeqitem
  <2>1. Current.indent \in Nat /\ Enter("seq", Current.indent)
    BY <1>0, <1>2, RestHeadTail DEF ParseBlockSeqitem
  <2>2. Top' = FrameOf("seq", Current.indent, TRUE, NoKey)
    BY <2>1, EnterFrames
  <2>3. Current' = Current /\ rest' = rest  BY <2>1 DEF Enter, Current
  <2> QED BY <1>2, <2>2, <2>3 DEF LoopsHaveEntries, ParseBlockSeqitem, FrameOf
<1>3. CASE NestedSameIndentSeq
  <2>1. /\ Top.indent \in Nat /\ Enter("seq", Top.indent)
        /\ Current.indent = Top.indent /\ NodeIsSeqitem(Current) /\ rest # << >>
    BY <1>3, TopFrame DEF NestedSameIndentSeq, SameIndentSeq, TypeOK
  <2>2. Top' = FrameOf("seq", Top.indent, TRUE, NoKey)
    BY <2>1, EnterFrames
  <2>3. Current' = Current /\ rest' = rest  BY <2>1 DEF Enter, Current
  <2> QED BY <2>1, <2>2, <2>3 DEF LoopsHaveEntries, FrameOf
<1>4. CASE MapEntryValue
  <2>1. frames # << >> /\ rest # << >>
    BY <1>4 DEF MapEntryValue, MapEnds, TypeOK
  <2>2. rest' \in Seq(Line)  BY <1>0, <1>4, <2>1, RestHeadTail DEF MapEntryValue
  <2>3. (Current.leaf.keyOk /\ Current.leaf.valOk) \in BOOLEAN
    OBVIOUS
  <2>4. built'[Len(built')] # << >>
    BY <1>4, <2>1, <2>2, <2>3, CollectKeepsTypes DEF MapEntryValue
  <2> QED BY <2>4 DEF LoopsHaveEntries
<1>5. CASE MapEntryResume \/ SeqEntryResume
  <2>1. built'[Len(built')] # << >>
    BY <1>0, <1>5, CollectKeepsTypes DEF MapEntryResume, SeqEntryResume, TypeOK
  <2> QED BY <2>1 DEF LoopsHaveEntries
<1>6. CASE BindEmpty \/ BindBody \/ BindFinish \/ ParseBlockValue \/ NestedDeeper
           \/ NestedNull \/ LoopDeeper \/ MapEnd \/ MapEntryNested \/ SeqEnd
           \/ SeqEntryAlone \/ SeqEntryInner
  <2>1. pc' # "loop"
    BY <1>6 DEF BindEmpty, BindBody, BindFinish, ParseBlockValue, NestedDeeper,
                NestedNull, LoopDeeper, MapEnd, MapEntryNested, SeqEnd,
                SeqEntryAlone, SeqEntryInner, Leave, Answer
  <2> QED BY <2>1 DEF LoopsHaveEntries
<1>7. CASE UNCHANGED vars
  BY <1>7 DEF vars, LoopsHaveEntries, Current, Top
<1> QED BY <1>1, <1>2, <1>3, <1>4, <1>5, <1>6, <1>7 DEF Next, Terminated

(***************************************************************************)
(* No loop is entered on a line that is not its own: block structure never *)
(* makes an empty mapping or an empty sequence.                            *)
(***************************************************************************)
THEOREM EntriesCorrect == Spec => []LoopsHaveEntries
<1>1. Init => LoopsHaveEntries  BY DEF Init, LoopsHaveEntries
<1>2. TypeOK /\ LoopsHaveEntries /\ [Next]_vars => LoopsHaveEntries'
  BY NextEntries
<1> QED BY <1>1, <1>2, TypeCorrect, PTL DEF Spec

-----------------------------------------------------------------------------
(* The fold of ok. *)

LEMMA LeaveFails ==
  ASSUME TypeOK, pc = "loop", NEW t, NEW ok, NEW left, Leave(t, ok, left),
         ok => Top.ok, Failing
  PROVE  Failing'
<1>1. PICK i \in 1 .. Len(frames) : ~ frames[i].ok
  BY DEF Failing
<1>2. /\ Len(frames') \in Nat /\ Len(frames) = Len(frames') + 1
      /\ \A j \in 1 .. Len(frames') : frames'[j] = frames[j]
  BY LeaveFrames DEF TypeOK
<1>3. CASE i = Len(frames)
  <2>1. ~ ok  BY <1>1, <1>3 DEF Top
  <2> QED BY <2>1 DEF Leave, Answer, Failing
<1>4. CASE i # Len(frames)
  <2>1. i \in 1 .. Len(frames') /\ ~ frames'[i].ok  BY <1>1, <1>2, <1>4
  <2> QED BY <2>1 DEF Failing
<1> QED BY <1>3, <1>4

LEMMA FoldFails ==
  ASSUME TypeOK, frames # << >>, NEW ok \in BOOLEAN,
         NEW key \in Keys \cup {NoKey}, Fold(ok, key),
         ~ ok \/ \E i \in 1 .. Len(frames) : ~ frames[i].ok
  PROVE  Failing'
<1> DEFINE n == Len(frames)
<1>0. /\ Len(frames') = n /\ n \in 1 .. n
      /\ \A j \in 1 .. n : j # n => frames'[j] = frames[j]
      /\ frames'[n] = Top'
      /\ Top' = FrameOf(Top.kind, Top.indent, Top.ok /\ ok, key)
  BY FoldFrames, TopFrame
<1>1. Top'.ok = (Top.ok /\ ok)  BY <1>0 DEF FrameOf
<1>2. CASE ~ ok
  BY <1>0, <1>1, <1>2 DEF Failing
<1>3. ASSUME NEW i \in 1 .. Len(frames), ~ frames[i].ok
      PROVE  Failing'
  <2>1. CASE i = n
    <3>1. ~ Top.ok  BY <1>3, <2>1 DEF Top
    <3> QED BY <1>0, <1>1, <3>1 DEF Failing
  <2>2. CASE i # n
    BY <1>0, <1>3, <2>2 DEF Failing
  <2> QED BY <2>1, <2>2
<1> QED BY <1>2, <1>3

LEMMA NextFails ==
  ASSUME TypeOK, Next, Failing
  PROVE  Failing'
<1>0. rest \in Seq(Line) /\ NoKey \in Keys \cup {NoKey}  BY DEF TypeOK
<1>1. CASE BindEmpty \/ BindBody
  BY <1>1, EmptySeq DEF BindEmpty, BindBody, TypeOK, Failing
<1>2. CASE BindFinish
  <2>1. ~ blk.ok  BY <1>2, EmptySeq DEF BindFinish, Failing
  <2> QED BY <1>2, <2>1 DEF BindFinish, Failing
<1>3. CASE ParseBlockPair \/ ParseBlockSeqitem \/ NestedSameIndentSeq
  <2>1. pc \in {"block", "nested"}
    BY <1>3 DEF ParseBlockPair, ParseBlockSeqitem, NestedSameIndentSeq
  <2>2. PICK i \in 1 .. Len(frames) : ~ frames[i].ok  BY <2>1 DEF Failing
  <2>3. PICK k \in {"map", "seq"}, a \in Nat : Enter(k, a)
    BY <1>0, <1>3, RestHeadTail, TopFrame
       DEF ParseBlockPair, ParseBlockSeqitem, NestedSameIndentSeq, TypeOK
  <2>4. i \in 1 .. Len(frames') /\ frames'[i] = frames[i]
    <3>1. /\ Len(frames) \in Nat /\ Len(frames') = Len(frames) + 1
          /\ \A j \in 1 .. Len(frames) : frames'[j] = frames[j]
      BY <2>3, EnterFrames
    <3> QED BY <3>1
  <2> QED BY <2>2, <2>4 DEF Failing
<1>4. CASE ParseBlockValue \/ NestedDeeper \/ NestedNull \/ SeqEntryAlone \/ SeqEntryInner
  <2>1. frames' = frames /\ pc \in {"block", "nested", "loop"}
    BY <1>4 DEF ParseBlockValue, NestedDeeper, NestedNull, SeqEntryAlone, SeqEntryInner
  <2> QED BY <2>1 DEF Failing
<1>5. CASE LoopDeeper
  BY <1>5 DEF LoopDeeper, Leave, Answer, Failing
<1>6. CASE MapEnd
  <2>1. PICK ok : (ok => Top.ok) /\ Leave(Mapping(built[Len(built)]), ok, rest)
    BY <1>6 DEF MapEnd
  <2> QED BY <1>6, <2>1, LeaveFails DEF MapEnd
<1>7. CASE SeqEnd
  BY <1>7, LeaveFails DEF SeqEnd
<1>8. CASE MapEntryValue
  <2> DEFINE ok == Current.leaf.keyOk /\ Current.leaf.valOk
  <2>1. pc = "loop" /\ frames # << >> /\ Fold(ok, NoKey)
    BY <1>8 DEF MapEntryValue, Collect, TypeOK
  <2>2. ok \in BOOLEAN  OBVIOUS
  <2> HIDE DEF ok
  <2> QED BY <1>0, <2>1, <2>2, FoldFails DEF Failing
<1>9. CASE MapEntryNested
  <2>1. /\ pc = "loop" /\ frames # << >> /\ rest # << >>
        /\ Current.leaf.kind = "pair" /\ Fold(Current.leaf.keyOk, Current.leaf.key)
    BY <1>9 DEF MapEntryNested, MapEnds, TypeOK
  <2>2. Current.leaf.keyOk \in BOOLEAN /\ Current.leaf.key \in Keys
    BY <1>0, <2>1, RestHeadTail, LineLeaf
  <2> QED BY <2>1, <2>2, FoldFails DEF Failing
<1>10. CASE MapEntryResume \/ SeqEntryResume
  <2>1. frames # << >> /\ Fold(blk.ok, NoKey) /\ blk.ok \in BOOLEAN
    BY <1>10 DEF MapEntryResume, SeqEntryResume, Collect, TypeOK
  <2>2. ~ blk.ok \/ \E i \in 1 .. Len(frames) : ~ frames[i].ok
    BY DEF Failing
  <2> QED BY <1>0, <2>1, <2>2, FoldFails
<1>11. CASE Terminated
  BY <1>11 DEF Terminated, vars, Failing
<1> QED
  BY <1>1, <1>2, <1>3, <1>4, <1>5, <1>6, <1>7, <1>8, <1>9, <1>10, <1>11 DEF Next

(***************************************************************************)
(* A failure is final: nothing a later line brings mends a document.       *)
(***************************************************************************)
THEOREM FailureFinal == Spec => FailureSticks
<1>1. TypeOK /\ [Next]_vars => [Failing => Failing']_vars
  BY NextFails
<1> QED BY <1>1, TypeCorrect, PTL DEF Spec, FailureSticks

-----------------------------------------------------------------------------
(* What is left of the line list. *)

LEMMA NextBadScalars ==
  ASSUME TypeOK, Next, BadScalarsReject
  PROVE  BadScalarsReject'
<1>0. /\ rest \in Seq(Line) /\ lines \in Seq(Line)
      /\ Len(rest) \in Nat /\ Len(lines) \in Nat
  BY DocsAssumption, LenProperties DEF TypeOK
<1> SUFFICES ASSUME ~ Failing, ~ Failing'  PROVE BadScalarsReject'
  BY NextFails DEF BadScalarsReject
<1>1. /\ Consumed >= 0
      /\ \A i \in 1 .. Consumed : ~ BadLeaf(lines[i].leaf)
      /\ \A i \in 1 .. Len(rest) : rest[i].leaf = lines[Consumed + i].leaf
  BY DEF BadScalarsReject
<1>2. lines' = lines
  BY DEF Next, BindEmpty, BindBody, BindFinish, ParseBlockPair, ParseBlockSeqitem,
         ParseBlockValue, NestedDeeper, NestedSameIndentSeq, NestedNull, LoopDeeper,
         MapEnd, MapEntryValue, MapEntryNested, MapEntryResume, SeqEnd, SeqEntryAlone,
         SeqEntryInner, SeqEntryResume, Terminated, vars, Enter, Answer, Leave
<1>3. CASE rest' = rest
  <2>1. Consumed' = Consumed  BY <1>2, <1>3 DEF Consumed
  <2> QED BY <1>1, <1>2, <1>3, <2>1 DEF BadScalarsReject
<1>4. ASSUME rest # << >>, rest' = Tail(rest), ~ BadLeaf(Current.leaf)
      PROVE  BadScalarsReject'
  <2>1. /\ Len(rest') = Len(rest) - 1 /\ Len(rest') \in Nat
        /\ Current = rest[1]
        /\ \A i \in 1 .. Len(rest') : rest'[i] = rest[i + 1]
    BY <1>0, <1>4, RestHeadTail
  <2>2. Consumed' = Consumed + 1 /\ Consumed \in Nat
    BY <1>0, <1>1, <1>2, <2>1 DEF Consumed
  <2>3. ASSUME NEW i \in 1 .. Consumed'
        PROVE  ~ BadLeaf(lines[i].leaf)
    <3>1. CASE i \in 1 .. Consumed  BY <1>1, <3>1
    <3>2. CASE i = Consumed + 1
      <4>1. 1 \in 1 .. Len(rest)  BY <1>0, <2>1
      <4>2. rest[1].leaf = lines[i].leaf  BY <1>1, <3>2, <4>1
      <4> QED BY <1>4, <2>1, <4>2
    <3> QED BY <2>2, <3>1, <3>2
  <2>4. ASSUME NEW i \in 1 .. Len(rest')
        PROVE  rest'[i].leaf = lines[Consumed' + i].leaf
    <3>1. i + 1 \in 1 .. Len(rest)  BY <1>0, <2>1
    <3>2. rest'[i].leaf = lines[Consumed + (i + 1)].leaf  BY <1>1, <2>1, <3>1
    <3>3. Consumed + (i + 1) = Consumed' + i  BY <2>2
    <3> QED BY <3>2, <3>3
  <2> QED BY <1>2, <2>2, <2>3, <2>4 DEF BadScalarsReject, BadLeaf
<1>5. CASE BindFinish
  <2>1. rest = << >>  BY <1>5 DEF BindFinish, Failing
  <2> QED BY <1>3, <1>5, <2>1 DEF BindFinish
<1>6. CASE ParseBlockValue
  <2>1. /\ rest # << >> /\ rest' = Tail(rest)
        /\ pc' = "return" /\ blk'.ok = Current.leaf.valOk
        /\ ~ NodeIsSeqitem(Current) /\ ~ NodeIsPair(Current)
    BY <1>6 DEF ParseBlockValue, Answer
  <2>2. Current.leaf.kind = "value"  BY <1>0, <2>1, RestHeadTail, LineLeaf
  <2>3. ~ BadLeaf(Current.leaf)  BY <2>1, <2>2 DEF BadLeaf, Failing
  <2> QED BY <1>4, <2>1, <2>3
<1>7. CASE LoopDeeper
  BY <1>7 DEF LoopDeeper, Leave, Answer, Failing
<1>8. CASE MapEntryValue
  <2> DEFINE ok == Current.leaf.keyOk /\ Current.leaf.valOk
  <2>1. /\ rest # << >> /\ rest' = Tail(rest) /\ frames # << >>
        /\ Fold(ok, NoKey)
    BY <1>8 DEF MapEntryValue, MapEnds, Collect, TypeOK
  <2>2. ok \in BOOLEAN /\ NoKey \in Keys \cup {NoKey}  OBVIOUS
  <2> HIDE DEF ok
  <2>3. ok  BY <2>1, <2>2, FoldFails
  <2>4. ~ BadLeaf(Current.leaf)  BY <2>3 DEF ok, BadLeaf
  <2> QED BY <1>4, <2>1, <2>4
<1>9. CASE MapEntryNested
  <2>1. /\ frames # << >> /\ rest # << >> /\ rest' = Tail(rest)
        /\ Current.leaf.kind = "pair" /\ Fold(Current.leaf.keyOk, Current.leaf.key)
    BY <1>9 DEF MapEntryNested, MapEnds, TypeOK
  <2>2. Current.leaf.keyOk \in BOOLEAN /\ Current.leaf.key \in Keys
    BY <1>0, <2>1, RestHeadTail, LineLeaf
  <2>3. Current.leaf.keyOk  BY <2>1, <2>2, FoldFails
  <2>4. ~ BadLeaf(Current.leaf)  BY <2>1, <2>3 DEF BadLeaf
  <2> QED BY <1>4, <2>1, <2>4
<1>10. CASE SeqEntryAlone
  <2>1. rest # << >> /\ rest' = Tail(rest) /\ Current.leaf.kind = "none"
    BY <1>10 DEF SeqEntryAlone, SeqEnds, HasInner
  <2>2. ~ BadLeaf(Current.leaf)  BY <2>1 DEF BadLeaf
  <2> QED BY <1>4, <2>1, <2>2
<1>11. CASE SeqEntryInner
  <2>1. /\ rest # << >> /\ NodeIsSeqitem(Current) /\ HasInner(Current)
        /\ rest' = << Synthetic(Current) >> \o Tail(rest)
    BY <1>11 DEF SeqEntryInner, SeqEnds
  <2>2. /\ Len(rest') = Len(rest)
        /\ rest'[1] = Synthetic(Current)
        /\ \A i \in 2 .. Len(rest) : rest'[i] = rest[i]
    BY <1>0, <2>1, RestSynthetic
  <2>3. Synthetic(Current).leaf = rest[1].leaf
    BY <1>0, <2>1, RestHeadTail, SyntheticLine
  <2>4. \A i \in 1 .. Len(rest) : rest'[i].leaf = rest[i].leaf
    BY <1>0, <2>2, <2>3
  <2>5. Consumed' = Consumed  BY <1>2, <2>2 DEF Consumed
  <2> QED BY <1>1, <1>2, <2>2, <2>4, <2>5 DEF BadScalarsReject
<1>12. CASE BindEmpty \/ BindBody \/ ParseBlockPair \/ ParseBlockSeqitem
            \/ NestedDeeper \/ NestedSameIndentSeq \/ NestedNull
            \/ MapEnd \/ MapEntryResume \/ SeqEnd \/ SeqEntryResume \/ Terminated
  <2>1. rest' = rest
    BY <1>12 DEF BindEmpty, BindBody, ParseBlockPair, ParseBlockSeqitem,
         NestedDeeper, NestedSameIndentSeq, NestedNull, MapEnd, MapEntryResume,
         SeqEnd, SeqEntryResume, Terminated, vars, Enter, Answer, Leave
  <2> QED BY <1>3, <2>1
<1> QED
  BY <1>5, <1>6, <1>7, <1>8, <1>9, <1>10, <1>11, <1>12 DEF Next

LEMMA InitBadScalars == Init => BadScalarsReject
<1> SUFFICES ASSUME Init PROVE BadScalarsReject
  OBVIOUS
<1>1. rest = lines /\ Len(lines) \in Nat
  BY DocsAssumption, LenProperties DEF Init
<1>2. Consumed = 0  BY <1>1 DEF Consumed
<1> QED BY <1>1, <1>2 DEF BadScalarsReject

LEMMA StutterBadScalars == BadScalarsReject /\ UNCHANGED vars => BadScalarsReject'
BY DEF vars, BadScalarsReject, Failing, Consumed, BadLeaf

(***************************************************************************)
(* No bad key or value is ever lost, however deep it stands and whatever   *)
(* error follows it, and no line is skipped or bound twice.                *)
(***************************************************************************)
THEOREM ScalarsCorrect == Spec => []BadScalarsReject
<1>1. Init => BadScalarsReject  BY InitBadScalars
<1>2. TypeOK /\ BadScalarsReject /\ [Next]_vars => BadScalarsReject'
  BY NextBadScalars, StutterBadScalars
<1> QED BY <1>1, <1>2, TypeCorrect, PTL DEF Spec

-----------------------------------------------------------------------------
(* The instantiation is well-founded. *)

LEMMA NextDescends ==
  ASSUME TypeOK, Next
  PROVE  Descends \/ UNCHANGED vars
<1>0. /\ rest \in Seq(Line) /\ Len(rest) \in Nat /\ Len(frames) \in Nat
      /\ rest # << >> => Len(rest) \in Nat \ {0}
  BY LenProperties, EmptySeq, FrameTypes DEF TypeOK
<1>1. ASSUME rest # << >>, rest' = Tail(rest) \/ rest' = << >>
      PROVE  Descends
  <2>1. Len(Tail(rest)) = Len(rest) - 1  BY <1>0, <1>1, RestHeadTail
  <2> QED BY <1>0, <1>1, <2>1 DEF Descends
<1>2. ASSUME rest' = rest, Work' < Work  PROVE Descends
  <2>1. Dashes' = Dashes  BY <1>2 DEF Dashes, Current
  <2> QED BY <1>2, <2>1 DEF Descends
<1>3. CASE BindEmpty
  BY <1>0, <1>2, <1>3 DEF BindEmpty, Work, Weight
<1>4. CASE BindBody
  BY <1>0, <1>2, <1>4 DEF BindBody, Work, Weight
<1>5. CASE BindFinish
  <2>1. CASE rest = << >>
    BY <1>0, <1>2, <1>5, <2>1 DEF BindFinish, Work, Weight
  <2>2. CASE rest # << >>
    BY <1>1, <1>5, <2>2 DEF BindFinish
  <2> QED BY <2>1, <2>2
<1>6. CASE ParseBlockPair \/ ParseBlockSeqitem \/ NestedSameIndentSeq
  <2>1. PICK k \in {"map", "seq"}, a \in Nat : Enter(k, a)
    BY <1>0, <1>6, RestHeadTail, TopFrame
       DEF ParseBlockPair, ParseBlockSeqitem, NestedSameIndentSeq, TypeOK
  <2>2. Len(frames') = Len(frames) + 1  BY <2>1, EnterFrames
  <2>3. pc \in {"block", "nested"}
    BY <1>6 DEF ParseBlockPair, ParseBlockSeqitem, NestedSameIndentSeq
  <2>4. rest' = rest /\ pc' = "loop"  BY <2>1 DEF Enter
  <2>5. Work' < Work  BY <1>0, <2>2, <2>3, <2>4 DEF Work, Weight
  <2> QED BY <1>2, <2>4, <2>5
<1>7. CASE ParseBlockValue
  BY <1>1, <1>7 DEF ParseBlockValue, Answer
<1>8. CASE NestedDeeper
  BY <1>0, <1>2, <1>8 DEF NestedDeeper, Work, Weight
<1>9. CASE NestedNull
  BY <1>0, <1>2, <1>9 DEF NestedNull, Answer, Work, Weight
<1>10. CASE LoopDeeper
  BY <1>1, <1>10 DEF LoopDeeper, Deeper, Leave, Answer
<1>11. CASE MapEnd \/ SeqEnd
  <2>1. PICK t, ok : Leave(t, ok, rest)  BY <1>11 DEF MapEnd, SeqEnd
  <2>2. frames # << >> /\ pc = "loop"  BY <1>11 DEF MapEnd, SeqEnd, TypeOK
  <2>3. Len(frames') \in Nat /\ Len(frames) = Len(frames') + 1
    BY <2>1, <2>2, LeaveFrames
  <2>4. rest' = rest /\ pc' = "return"  BY <2>1 DEF Leave, Answer
  <2>5. Work' < Work  BY <2>2, <2>3, <2>4 DEF Work, Weight
  <2> QED BY <1>2, <2>4, <2>5
<1>12. CASE MapEntryValue \/ MapEntryNested \/ SeqEntryAlone
  BY <1>1, <1>12 DEF MapEntryValue, MapEntryNested, SeqEntryAlone, MapEnds, SeqEnds
<1>13. CASE MapEntryResume \/ SeqEntryResume
  <2>1. /\ frames # << >> /\ rest' = rest /\ pc = "return" /\ pc' = "loop"
        /\ Fold(blk.ok, NoKey)
    BY <1>13 DEF MapEntryResume, SeqEntryResume, Collect
  <2>2. Len(frames') = Len(frames)  BY <2>1, FoldShape
  <2>3. Work' < Work  BY <1>0, <2>1, <2>2 DEF Work, Weight
  <2> QED BY <1>2, <2>1, <2>3
<1>14. CASE SeqEntryInner
  <2>1. /\ rest # << >> /\ NodeIsSeqitem(Current) /\ HasInner(Current)
        /\ rest' = << Synthetic(Current) >> \o Tail(rest)
    BY <1>14 DEF SeqEntryInner, SeqEnds
  <2>2. Len(rest') = Len(rest) /\ rest' # << >> /\ Current' = Synthetic(Current)
    BY <1>0, <2>1, RestSynthetic
  <2>3. /\ Current'.dashes = Tail(Current.dashes)
        /\ Len(Tail(Current.dashes)) = Len(Current.dashes) - 1
        /\ Len(Current.dashes) \in Nat \ {0}
    BY <1>0, <2>1, <2>2, RestHeadTail, SyntheticLine
  <2>4. Dashes' < Dashes  BY <2>1, <2>2, <2>3 DEF Dashes
  <2> QED BY <2>2, <2>4 DEF Descends
<1>15. CASE Terminated
  BY <1>15 DEF Terminated
<1> QED
  BY <1>3, <1>4, <1>5, <1>6, <1>7, <1>8, <1>9, <1>10, <1>11, <1>12, <1>13,
     <1>14, <1>15 DEF Next

(***************************************************************************)
(* Every step of the instantiation goes down in a well-founded order, so   *)
(* no line list makes the compiler instantiate for ever.                   *)
(***************************************************************************)
THEOREM StepsAreWellFounded == Spec => StepsDescend
<1>1. TypeOK /\ [Next]_vars => [Descends]_vars
  BY NextDescends
<1> QED BY <1>1, TypeCorrect, PTL DEF Spec, StepsDescend

-----------------------------------------------------------------------------
(***************************************************************************)
(* Keys.  A set of documents is closed when it has the scalars and is      *)
(* closed under sequences and under mappings with distinct keys: the least *)
(* such set is the documents in which no mapping, however deep, has the    *)
(* same key twice.                                                         *)
(***************************************************************************)

Members(D) == [key : Keys, value : D]

Closed(D) ==
  /\ Null \in D /\ Vals \subseteq D
  /\ \A is \in Seq(D) : Sequence(is) \in D
  /\ \A ms \in Seq(Members(D)) : MembersUnique(ms) => Mapping(ms) \in D

Parts(D, k) == IF k = "map" THEN Members(D) ELSE D

(* All that is built is of such documents; it is, while nothing has failed. *)
AllBuilt(D) ==
  /\ \A i \in 1 .. Len(frames) : built[i] \in Seq(Parts(D, frames[i].kind))
  /\ pc \in {"return", "done"} => blk.type \in D

BuiltIn(D) == Failing \/ AllBuilt(D)

LEMMA LineValue ==
  ASSUME NEW l \in Line, l.leaf.kind \in {"member", "value"}
  PROVE  l.leaf.val \in Vals
<1>1. l.leaf \in Leaf  BY DEF Line
<1> QED BY <1>1 DEF Leaf

LEMMA EnterBuilt ==
  ASSUME NEW D, TypeOK, AllBuilt(D),
         NEW k \in {"map", "seq"}, NEW a \in Nat, Enter(k, a)
  PROVE  AllBuilt(D)'
<1> DEFINE n == Len(frames)
<1>1. /\ n \in Nat /\ Len(frames') = n + 1
      /\ \A j \in 1 .. n : frames'[j] = frames[j]
      /\ frames'[n + 1] = FrameOf(k, a, TRUE, NoKey)
  BY EnterFrames
<1>2. /\ \A j \in 1 .. n : built'[j] = built[j]
      /\ built'[n + 1] = << >>
  BY SequenceAppend DEF TypeOK, Enter
<1>3. ASSUME NEW i \in 1 .. n + 1
      PROVE  built'[i] \in Seq(Parts(D, frames'[i].kind))
  <2>1. CASE i \in 1 .. n  BY <1>1, <1>2, <2>1 DEF AllBuilt
  <2>2. CASE i = n + 1  BY <1>2, <2>2, EmptySeq
  <2> QED BY <1>1, <2>1, <2>2
<1>4. pc' = "loop"  BY DEF Enter
<1> QED BY <1>1, <1>3, <1>4 DEF AllBuilt, Parts, Members

LEMMA LeaveBuilt ==
  ASSUME NEW D, TypeOK, AllBuilt(D), pc = "loop",
         NEW t \in D, NEW ok, NEW left, Leave(t, ok, left)
  PROVE  AllBuilt(D)'
<1>1. /\ Len(frames') \in Nat /\ Len(frames) = Len(frames') + 1
      /\ \A j \in 1 .. Len(frames') : frames'[j] = frames[j]
  BY LeaveFrames DEF TypeOK
<1>2. \A j \in 1 .. Len(frames') : built'[j] = built[j]
  <2>1. IsSequence(built) /\ Len(built) = Len(frames)  BY DEF TypeOK
  <2>2. built # << >>  BY <1>1, <2>1, EmptySeq
  <2>3. LET b == SubSeq(built, 1, Len(built) - 1)
        IN  Len(b) = Len(built) - 1 /\ \A j \in 1 .. Len(b) : b[j] = built[j]
    BY <2>1, <2>2, SequenceFront
  <2> QED BY <1>1, <2>1, <2>3 DEF Leave
<1>3. blk'.type = t  BY DEF Leave, Answer
<1>4. \A j \in 1 .. Len(frames') : j \in 1 .. Len(frames)  BY <1>1
<1> QED BY <1>1, <1>2, <1>3, <1>4 DEF AllBuilt, Parts, Members

LEMMA CollectBuilt ==
  ASSUME NEW D, TypeOK, AllBuilt(D), frames # << >>,
         NEW x \in Parts(D, Top.kind), NEW ok, Collect(x, ok)
  PROVE  AllBuilt(D)'
<1> DEFINE n == Len(frames)
           b == Append(built[n], x)
           S == {built[i] : i \in DOMAIN built} \cup {b}
<1>1. n \in 1 .. n /\ Len(built) = n  BY TopFrame DEF TypeOK
<1>2. built[n] \in Seq(Parts(D, Top.kind))  BY <1>1 DEF AllBuilt, Top
<1>3. b \in Seq(Parts(D, Top.kind))  BY <1>2, AppendProperties
<1>4. built \in Seq(S)  BY SeqMonotonic DEF TypeOK, IsSequence
<1>5. built' = [built EXCEPT ![n] = b] /\ Fold(ok, NoKey) /\ pc' = "loop"
  BY <1>1 DEF Collect
<1>6. b \in S  OBVIOUS
<1> HIDE DEF b, S
<1>7. \A j \in 1 .. n : built'[j] = IF j = n THEN b ELSE built[j]
  BY <1>1, <1>4, <1>5, <1>6, ExceptSeq
<1>8. Len(frames') = n /\ \A j \in 1 .. n : frames'[j].kind = frames[j].kind
  BY <1>5, FoldShape
<1>9. ASSUME NEW j \in 1 .. n
      PROVE  built'[j] \in Seq(Parts(D, frames'[j].kind))
  <2>1. CASE j = n  BY <1>3, <1>7, <1>8, <2>1 DEF Top
  <2>2. CASE j # n  BY <1>7, <1>8, <2>2 DEF AllBuilt
  <2> QED BY <2>1, <2>2
<1> QED BY <1>5, <1>8, <1>9 DEF AllBuilt, Parts, Members

(* What the collections and values that a step makes are of. *)
StepIn(D) ==
  /\ Null \in D
  /\ \A is \in Seq(D) : Sequence(is) \in D
  /\ rest # << >> /\ Current.leaf.kind \in {"member", "value"} => Current.leaf.val \in D
  /\ MapEnd /\ built[Len(built)] \in Seq(Members(D)) => Mapping(built[Len(built)]) \in D

LEMMA NextAllBuilt ==
  ASSUME NEW D, StepIn(D), TypeOK, AllBuilt(D), Next
  PROVE  AllBuilt(D)'
<1>0. rest \in Seq(Line) /\ << >> \in Seq(Line)
  BY EmptySeq DEF TypeOK
<1>1. ASSUME frames' = frames, built' = built,
             pc' \in {"return", "done"} => blk'.type \in D
      PROVE  AllBuilt(D)'
  BY <1>1 DEF AllBuilt, Parts, Members
<1>2. CASE BindEmpty \/ NestedNull
  BY <1>1, <1>2 DEF BindEmpty, NestedNull, Answer, StepIn
<1>3. CASE BindBody \/ NestedDeeper \/ SeqEntryAlone \/ SeqEntryInner
  BY <1>1, <1>3 DEF BindBody, NestedDeeper, SeqEntryAlone, SeqEntryInner
<1>4. CASE BindFinish
  BY <1>1, <1>4 DEF BindFinish, AllBuilt
<1>5. CASE ParseBlockPair \/ ParseBlockSeqitem \/ NestedSameIndentSeq
  <2>1. PICK k \in {"map", "seq"}, a \in Nat : Enter(k, a)
    BY <1>0, <1>5, RestHeadTail, TopFrame
       DEF ParseBlockPair, ParseBlockSeqitem, NestedSameIndentSeq, TypeOK
  <2> QED BY <2>1, EnterBuilt
<1>6. CASE ParseBlockValue
  <2>1. /\ rest # << >> /\ ~ NodeIsPair(Current) /\ ~ NodeIsSeqitem(Current)
        /\ blk'.type = Current.leaf.val /\ frames' = frames /\ built' = built
    BY <1>6 DEF ParseBlockValue, Answer
  <2>2. Current.leaf.val \in D
    BY <1>0, <2>1, RestHeadTail, LineLeaf DEF StepIn
  <2> QED BY <1>1, <2>1, <2>2 DEF StepIn
<1>7. CASE LoopDeeper
  <2>1. pc = "loop" /\ Null \in D /\ Leave(Null, FALSE, << >>)
    BY <1>7 DEF LoopDeeper, StepIn
  <2> QED BY <2>1, LeaveBuilt
<1>8. CASE MapEnd
  <2> DEFINE ms == built[Len(built)]
  <2>1. /\ pc = "loop" /\ frames # << >> /\ Top.kind = "map"
        /\ Leave(Mapping(ms), Top.ok /\ MembersUnique(ms), rest)
    BY <1>8 DEF MapEnd, TypeOK
  <2>2. ms \in Seq(Members(D))
    BY <2>1, TopFrame DEF AllBuilt, Parts, Top, TypeOK
  <2>3. Mapping(ms) \in D  BY <1>8, <2>2 DEF StepIn
  <2> HIDE DEF ms
  <2> QED BY <2>1, <2>3, LeaveBuilt
<1>9. CASE SeqEnd
  <2> DEFINE is == built[Len(built)]
  <2>1. /\ pc = "loop" /\ frames # << >> /\ Top.kind = "seq"
        /\ Leave(Sequence(is), Top.ok, rest)
    BY <1>9 DEF SeqEnd, TypeOK
  <2>2. is \in Seq(D)
    BY <2>1, TopFrame DEF AllBuilt, Parts, Top, TypeOK
  <2>3. Sequence(is) \in D  BY <2>2 DEF StepIn
  <2> HIDE DEF is
  <2> QED BY <2>1, <2>3, LeaveBuilt
<1>10. CASE MapEntryValue
  <2> DEFINE c == Current.leaf
             x == Member(c.key, c.val)
  <2>1. /\ frames # << >> /\ rest # << >> /\ Top.kind = "map"
        /\ c.kind = "member" /\ Collect(x, c.keyOk /\ c.valOk)
    BY <1>10 DEF MapEntryValue, MapEnds, TypeOK
  <2>2. c.key \in Keys /\ c.val \in D
    BY <1>0, <2>1, RestHeadTail, LineLeaf, LineValue DEF StepIn
  <2>3. x \in Parts(D, Top.kind)  BY <2>1, <2>2 DEF Member, Members, Parts
  <2> HIDE DEF x
  <2> QED BY <2>1, <2>3, CollectBuilt
<1>11. CASE MapEntryNested
  <2>1. frames # << >> /\ pc' = "nested" /\ built' = built /\ rest # << >>
    BY <1>11 DEF MapEntryNested, MapEnds, TypeOK
  <2>2. PICK ok, key : Fold(ok, key)  BY <1>11 DEF MapEntryNested
  <2>3. /\ Len(frames') = Len(frames)
        /\ \A j \in 1 .. Len(frames) : frames'[j].kind = frames[j].kind
    BY <2>1, <2>2, FoldShape
  <2>4. \A i \in 1 .. Len(frames') : built'[i] \in Seq(Parts(D, frames'[i].kind))
    BY <2>1, <2>3 DEF AllBuilt
  <2> QED BY <2>1, <2>4 DEF AllBuilt, Parts, Members
<1>12. CASE MapEntryResume
  <2> DEFINE x == Member(Top.key, blk.type)
  <2>1. /\ pc = "return" /\ frames # << >> /\ Top.kind = "map"
        /\ Collect(x, blk.ok)
    BY <1>12 DEF MapEntryResume
  <2>2. Top.key \in Keys
    BY <2>1, TopFrame DEF TypeOK, Top, Suspended
  <2>3. x \in Parts(D, Top.kind)
    BY <2>1, <2>2 DEF Member, Members, Parts, AllBuilt
  <2> HIDE DEF x
  <2> QED BY <2>1, <2>3, CollectBuilt
<1>13. CASE SeqEntryResume
  <2>1. /\ pc = "return" /\ frames # << >> /\ Top.kind = "seq"
        /\ Collect(blk.type, blk.ok)
    BY <1>13 DEF SeqEntryResume
  <2>2. blk.type \in Parts(D, Top.kind)  BY <2>1 DEF Parts, AllBuilt
  <2> QED BY <2>1, <2>2, CollectBuilt
<1>14. CASE Terminated
  BY <1>14 DEF Terminated, vars, AllBuilt, Parts, Members
<1> QED
  BY <1>2, <1>3, <1>4, <1>5, <1>6, <1>7, <1>8, <1>9, <1>10, <1>11, <1>12,
     <1>13, <1>14 DEF Next

LEMMA NextBuilt ==
  ASSUME NEW D, Closed(D), TypeOK, BuiltIn(D), Next
  PROVE  BuiltIn(D)'
<1> SUFFICES ASSUME ~ Failing, ~ Failing', AllBuilt(D)  PROVE AllBuilt(D)'
  BY NextFails DEF BuiltIn
<1>1. rest # << >> /\ Current.leaf.kind \in {"member", "value"} => Current.leaf.val \in D
  <2> SUFFICES ASSUME rest # << >>, Current.leaf.kind \in {"member", "value"}
               PROVE  Current.leaf.val \in D
    OBVIOUS
  <2>1. Current.leaf.val \in Vals  BY RestHeadTail, LineValue DEF TypeOK
  <2> QED BY <2>1 DEF Closed
<1>2. MapEnd /\ built[Len(built)] \in Seq(Members(D)) => Mapping(built[Len(built)]) \in D
  <2> DEFINE ms == built[Len(built)]
  <2> SUFFICES ASSUME MapEnd, ms \in Seq(Members(D))  PROVE Mapping(ms) \in D
    OBVIOUS
  <2>1. Leave(Mapping(ms), Top.ok /\ MembersUnique(ms), rest)  BY DEF MapEnd
  <2> HIDE DEF ms
  <2>2. MembersUnique(ms)  BY <2>1 DEF Leave, Answer, Failing
  <2> QED BY <2>2 DEF Closed
<1> QED BY <1>1, <1>2, NextAllBuilt DEF StepIn, Closed

(***************************************************************************)
(* A valid document is one in which no mapping has a key twice: the check  *)
(* each map_loop makes at its end, folded through every loop around it,    *)
(* reaches the whole document.                                             *)
(***************************************************************************)
THEOREM AcceptedKeysUnique ==
  ASSUME NEW CONSTANT D, Closed(D)
  PROVE  Spec => [](pc = "done" /\ blk.ok => blk.type \in D)
<1>1. Init => BuiltIn(D)
  BY EmptySeq DEF Init, BuiltIn, AllBuilt
<1>2. TypeOK /\ BuiltIn(D) /\ [Next]_vars => BuiltIn(D)'
  <2>1. BuiltIn(D) /\ UNCHANGED vars => BuiltIn(D)'
    BY DEF vars, BuiltIn, AllBuilt, Parts, Members, Failing
  <2> QED BY <2>1, NextBuilt
<1>3. TypeOK /\ BuiltIn(D) => (pc = "done" /\ blk.ok => blk.type \in D)
  <2> SUFFICES ASSUME TypeOK, BuiltIn(D), pc = "done", blk.ok
               PROVE  blk.type \in D
    OBVIOUS
  <2>1. Len(frames) = 0  BY EmptySeq DEF TypeOK
  <2> QED BY <2>1 DEF BuiltIn, AllBuilt, Failing
<1> QED BY <1>1, <1>2, <1>3, TypeCorrect, PTL DEF Spec

=============================================================================
