---------------------------- MODULE ViewsProofs -----------------------------
(***************************************************************************)
(* The views, for every set of documents, keys and indices and for chains  *)
(* of any length: the view a client holds is that of the value the typed   *)
(* accessors lead to, and every loop over it stays in its array.  And its  *)
(* text is as long as the array it is written to, however deep and long    *)
(* the document is.                                                        *)
(***************************************************************************)
EXTENDS Views, Induction, TLAPS

LOCAL INSTANCE SequencesExt

Places == Docs \cup {Null}

LEMMA PlacesAreDocs == \A d \in Places : IsDoc(d)
<1>1. IsDoc(Null)
  <2>1. Null.kind = "null"
    BY DEF Null
  <2> QED
    BY <2>1 DEF IsDoc
<1> QED
  BY <1>1, DocsAssumption DEF Places

(* What a view tells of the value it is made of. *)
LEMMA ViewOfSequence ==
  ASSUME NEW d, d.kind = "sequence"
  PROVE  /\ ViewOf(d).type = "sequence"
         /\ ViewOf(d).element_data = << d >>
         /\ ViewOf(d).member_data = NullPointer
         /\ ViewOf(d).child_count = Len(d.items)
BY DEF ViewOf, SequenceView, ArrayOf

LEMMA ViewOfMapping ==
  ASSUME NEW d, d.kind = "mapping"
  PROVE  /\ ViewOf(d).type = "mapping"
         /\ ViewOf(d).element_data = NullPointer
         /\ ViewOf(d).member_data = << d >>
         /\ ViewOf(d).child_count = Len(d.members)
BY DEF ViewOf, MappingView, ArrayOf

LEMMA ViewOfScalar ==
  ASSUME NEW d, d.kind # "sequence", d.kind # "mapping"
  PROVE  /\ ViewOf(d).type = d.kind
         /\ ViewOf(d).element_data = NullPointer
         /\ ViewOf(d).member_data = NullPointer
         /\ ViewOf(d).child_count = 0
BY DEF ViewOf, ScalarView

LEMMA ViewOfNull == ViewOf(Null) = NullView
BY DEF ViewOf, ScalarView, Literal, Null, NullView

(* A pointer to an array is not null. *)
LEMMA ArrayIsThere == \A d : << d >> # NullPointer /\ << d >>[1] = d
BY DEF NullPointer

(* A list that is filled in order. *)
LEMMA AppendNext ==
  ASSUME NEW n \in Nat, NEW S, NEW f \in [1 .. n + 1 -> S]
  PROVE  Append([m \in 1 .. n |-> f[m]], f[n + 1]) = [m \in 1 .. n + 1 |-> f[m]]
<1> DEFINE s == [m \in 1 .. n |-> f[m]]
           t == Append(s, f[n + 1])
<1>1. s \in Seq(S) /\ Len(s) = n
  OBVIOUS
<1> QED
  OBVIOUS

(* The typed accessors lead from a value to its children, or to null. *)
LEMMA ChildAtIsPlace ==
  ASSUME NEW d \in Places, NEW n \in Nat
  PROVE  ChildAt(d, n) \in Places
<1>1. IsDoc(d)
  BY PlacesAreDocs
<1>2. CASE n < Size(d) /\ d.kind = "sequence"
  <2>1. n + 1 \in 1 .. Len(d.items)
    BY <1>1, <1>2 DEF Size, IsDoc
  <2> QED
    BY <1>1, <1>2, <2>1 DEF ChildAt, Nth, IsDoc, Places
<1>3. CASE n < Size(d) /\ d.kind = "mapping"
  <2>1. n + 1 \in 1 .. Len(d.members)
    BY <1>1, <1>3 DEF Size, IsDoc
  <2> QED
    BY <1>1, <1>3, <2>1 DEF ChildAt, Nth, IsDoc, Places
<1>4. CASE d.kind \notin {"sequence", "mapping"}
  BY <1>4 DEF ChildAt, Size, Places
<1> QED
  BY <1>2, <1>3, <1>4 DEF ChildAt, Places

(* find, when the members before place n do not match and n does. *)
LEMMA FindsFirst ==
  ASSUME NEW d, NEW k, d.kind = "mapping", Len(d.members) \in Nat,
         NEW n \in 1 .. Len(d.members), d.members[n].key = k,
         \A m \in 1 .. n - 1 : d.members[m].key # k
  PROVE  ChildOf(d, k) = d.members[n].value
<1>1. HasMember(d, k)
  BY DEF HasMember, Size
<1> DEFINE First(x) == d.members[x].key = k /\ \A m \in 1 .. x - 1 : d.members[m].key # k
<1>2. \A x \in 1 .. Len(d.members) : First(x) => x = n
  OBVIOUS
<1>3. (CHOOSE x \in 1 .. Len(d.members) : First(x)) = n
  BY <1>2
<1>4. Size(d) = Len(d.members)
  BY DEF Size
<1>5. Find(d, k) = d.members[n].value
  BY <1>3, <1>4 DEF Find
<1> QED
  BY <1>1, <1>5 DEF ChildOf

-----------------------------------------------------------------------------
(***************************************************************************)
(* The view is that of target, always; a search has passed no member that  *)
(* matches; an iteration has handed out what comes before its index.       *)
(***************************************************************************)
Holds == target \in Places /\ view = ViewOf(target)

Searching ==
  pc \in {"lookup", "contains"} /\ target.kind = "mapping" =>
    /\ i <= Len(target.members)
    /\ \A n \in 1 .. i : target.members[n].key # key

ElementsSeen ==
  pc = "elements" =>
    /\ upto = EndOf(view.element_data)
    /\ i <= upto
    /\ seen = [n \in 1 .. i |-> ElementAt(view.element_data, n - 1)]

MembersSeen ==
  pc = "items" =>
    /\ upto = EndOf(view.member_data)
    /\ i <= upto
    /\ seen = [n \in 1 .. i |-> MemberAt(view.member_data, n - 1)]

IInv ==
  /\ Holds
  /\ i \in Nat /\ upto \in Nat
  /\ pc \in {"idle", "lookup", "contains", "answered", "elements", "items"}
  /\ Searching
  /\ pc = "answered" => answer = HasMember(target, key)
  /\ ElementsSeen
  /\ MembersSeen

LEMMA InitInv == Init => IInv
BY DEF Init, IInv, Holds, Places, Searching, ElementsSeen, MembersSeen

(* Where a search is in a mapping, and where it is past its end. *)
LEMMA SearchIsInMapping ==
  ASSUME Holds, i \in Nat
  PROVE  /\ InMembers <=> target.kind = "mapping" /\ i < Len(target.members)
         /\ target.kind = "mapping" =>
              /\ Len(target.members) \in Nat
              /\ view.member_data = << target >>
              /\ view.child_count = Len(target.members)
              /\ Here = [key   |-> target.members[i + 1].key,
                         value |-> ViewOf(target.members[i + 1].value)]
<1>1. IsDoc(target)
  BY PlacesAreDocs DEF Holds
<1>2. CASE target.kind = "mapping"
  <2>1. /\ view.type = "mapping" /\ view.member_data = << target >>
        /\ view.child_count = Len(target.members)
    BY <1>2, ViewOfMapping DEF Holds
  <2>2. Len(target.members) \in Nat
    BY <1>1, <1>2 DEF IsDoc
  <2>3. << target >>[1] = target
    BY ArrayIsThere
  <2>4. Here = [key   |-> target.members[i + 1].key,
                value |-> ViewOf(target.members[i + 1].value)]
    BY <2>1, <2>3 DEF Here, MemberAt
  <2> QED
    BY <1>2, <2>1, <2>2, <2>4 DEF InMembers
<1>3. CASE target.kind = "sequence"
  BY <1>3, ViewOfSequence DEF Holds, InMembers
<1>4. CASE target.kind \notin {"sequence", "mapping"}
  BY <1>4, ViewOfScalar DEF Holds, InMembers
<1> QED
  BY <1>2, <1>3, <1>4

LEMMA IndexInv == ASSUME IInv, NEW n \in Indices, Index(n) PROVE IInv'
<1>1. n \in Nat /\ target' = ChildAt(target, n) /\ target' \in Places /\ target \in Places
  BY IndicesAssumption, ChildAtIsPlace DEF Index, IInv, Holds
<1>2. IsDoc(target) /\ view = ViewOf(target)
  BY <1>1, PlacesAreDocs DEF IInv, Holds
<1>3. view' = ViewOf(target')
  <2>1. CASE target.kind = "sequence"
    <3>1. /\ view.type = "sequence" /\ view.element_data[1] = target
          /\ view.child_count = Len(target.items)
      BY <1>2, <2>1, ViewOfSequence, ArrayIsThere
    <3>2. Size(target) = Len(target.items)
      BY <2>1 DEF Size
    <3> QED
      BY <1>1, <2>1, <3>1, <3>2, ViewOfNull DEF Index, ChildAt, Nth, ElementAt
  <2>2. CASE target.kind = "mapping"
    <3>1. /\ view.type = "mapping" /\ view.member_data[1] = target
          /\ view.child_count = Len(target.members)
      BY <1>2, <2>2, ViewOfMapping, ArrayIsThere
    <3>2. Size(target) = Len(target.members)
      BY <2>2 DEF Size
    <3>3. MemberAt(view.member_data, n).value = ViewOf(target.members[n + 1].value)
      BY <3>1 DEF MemberAt
    <3> QED
      BY <1>1, <2>2, <3>1, <3>2, <3>3, ViewOfNull DEF Index, ChildAt, Nth
  <2>3. CASE target.kind \notin {"sequence", "mapping"}
    <3>1. view.type \notin {"sequence", "mapping"}
      BY <1>2, <2>3, ViewOfScalar
    <3>2. Size(target) = 0
      BY <2>3 DEF Size
    <3> QED
      BY <1>1, <2>3, <3>1, <3>2, ViewOfNull DEF Index, ChildAt
  <2> QED
    BY <2>1, <2>2, <2>3
<1> QED
  BY <1>1, <1>3 DEF Index, IInv, Holds, Searching, ElementsSeen, MembersSeen

LEMMA LookInv ==
  ASSUME IInv, NEW k \in Asked, NEW goal \in {"lookup", "contains"}, Look(k, goal) PROVE IInv'
<1>1. Holds' /\ i' = 0
  BY DEF Look, IInv, Holds
<1>2. target.kind = "mapping" => Len(target.members) \in Nat
  BY PlacesAreDocs DEF IInv, Holds, IsDoc
<1>3. Searching'
  BY <1>1, <1>2 DEF Look, Searching
<1> QED
  BY <1>1, <1>3 DEF Look, IInv, ElementsSeen, MembersSeen

LEMMA SkipInv == ASSUME IInv, Skip PROVE IInv'
<1>1. Holds /\ i \in Nat
  BY DEF IInv
<1>2. /\ target.kind = "mapping" /\ i < Len(target.members) /\ Len(target.members) \in Nat
      /\ target.members[i + 1].key # key
  BY <1>1, SearchIsInMapping DEF Skip
<1>3. Searching'
  BY <1>1, <1>2 DEF Skip, IInv, Searching
<1> QED
  BY <1>1, <1>3 DEF Skip, IInv, Holds, ElementsSeen, MembersSeen

(* What a search knows when it ends: the member it found, or that none is. *)
LEMMA SearchFinds ==
  ASSUME IInv, pc \in {"lookup", "contains"}, InMembers => Here.key = key
  PROVE  /\ InMembers => /\ HasMember(target, key)
                         /\ Here.value = ViewOf(ChildOf(target, key))
                         /\ ChildOf(target, key) \in Places
         /\ ~ InMembers => ~ HasMember(target, key)
<1>1. Holds /\ i \in Nat /\ Searching /\ IsDoc(target)
  BY PlacesAreDocs DEF IInv, Holds
<1>2. CASE InMembers
  <2>1. /\ target.kind = "mapping" /\ Len(target.members) \in Nat
        /\ i + 1 \in 1 .. Len(target.members)
        /\ target.members[i + 1].key = key
        /\ Here.value = ViewOf(target.members[i + 1].value)
    BY <1>1, <1>2, SearchIsInMapping
  <2>2. \A m \in 1 .. (i + 1) - 1 : target.members[m].key # key
    BY <1>1, <2>1 DEF Searching
  <2>3. ChildOf(target, key) = target.members[i + 1].value
    BY <2>1, <2>2, FindsFirst
  <2>4. HasMember(target, key)
    BY <2>1 DEF HasMember, Size
  <2>5. target.members[i + 1].value \in Places
    BY <1>1, <2>1 DEF IsDoc, Places
  <2> QED
    BY <1>2, <2>1, <2>3, <2>4, <2>5
<1>3. CASE ~ InMembers
  <2>1. CASE target.kind = "mapping"
    <3>1. /\ Len(target.members) \in Nat /\ i >= Len(target.members)
          /\ Size(target) = Len(target.members)
      BY <1>1, <1>3, <2>1, SearchIsInMapping DEF Size
    <3>2. \A n \in 1 .. Size(target) : target.members[n].key # key
      BY <1>1, <2>1, <3>1 DEF Searching
    <3> QED
      BY <1>3, <3>2 DEF HasMember
  <2>2. CASE target.kind # "mapping"
    BY <1>3, <2>2 DEF HasMember
  <2> QED
    BY <2>1, <2>2
<1> QED
  BY <1>2, <1>3

LEMMA LookupEndsInv == ASSUME IInv, LookupEnds PROVE IInv'
<1>1. pc \in {"lookup", "contains"} /\ (InMembers => Here.key = key)
  BY DEF LookupEnds
<1>2. target' = ChildOf(target, key)
  BY DEF LookupEnds
<1>3. CASE InMembers
  <2>1. target' \in Places /\ view' = ViewOf(target')
    BY <1>1, <1>2, <1>3, SearchFinds DEF LookupEnds
  <2> QED
    BY <2>1 DEF LookupEnds, IInv, Holds, Searching, ElementsSeen, MembersSeen
<1>4. CASE ~ InMembers
  <2>1. target' = Null
    BY <1>1, <1>2, <1>4, SearchFinds DEF ChildOf
  <2>2. target' \in Places /\ view' = ViewOf(target')
    BY <1>4, <2>1, ViewOfNull DEF LookupEnds, Miss, Places
  <2> QED
    BY <2>2 DEF LookupEnds, IInv, Holds, Searching, ElementsSeen, MembersSeen
<1> QED
  BY <1>3, <1>4

LEMMA ContainsEndsInv == ASSUME IInv, ContainsEnds PROVE IInv'
<1>1. pc \in {"lookup", "contains"} /\ (InMembers => Here.key = key)
  BY DEF ContainsEnds
<1>2. InMembers = HasMember(target, key)
  BY <1>1, SearchFinds DEF InMembers, HasMember
<1>3. answer' = HasMember(target, key)
  BY <1>2 DEF ContainsEnds, Contained
<1>4. HasMember(target, key)' = HasMember(target, key)
  BY DEF ContainsEnds, HasMember, Size
<1> QED
  BY <1>3, <1>4 DEF ContainsEnds, IInv, Holds, Searching, ElementsSeen, MembersSeen

(* The span of a view ends where its array does; a null span is empty. *)
LEMMA SpanEnds ==
  ASSUME Holds
  PROVE  /\ EndOf(view.element_data)
              = IF target.kind = "sequence" THEN Len(target.items) ELSE 0
         /\ EndOf(view.member_data)
              = IF target.kind = "mapping" THEN Len(target.members) ELSE 0
         /\ EndOf(view.element_data) \in Nat
         /\ EndOf(view.member_data) \in Nat
         /\ target.kind = "sequence" => view.element_data = << target >>
         /\ target.kind = "mapping" => view.member_data = << target >>
<1>1. IsDoc(target) /\ view = ViewOf(target)
  BY PlacesAreDocs DEF Holds
<1>2. CASE target.kind = "sequence"
  BY <1>1, <1>2, ViewOfSequence, ArrayIsThere DEF EndOf, IsDoc
<1>3. CASE target.kind = "mapping"
  BY <1>1, <1>3, ViewOfMapping, ArrayIsThere DEF EndOf, IsDoc
<1>4. CASE target.kind \notin {"sequence", "mapping"}
  BY <1>1, <1>4, ViewOfScalar DEF EndOf
<1> QED
  BY <1>2, <1>3, <1>4

LEMMA IterateInv ==
  ASSUME IInv, \/ Iterate("elements", view.element_data)
               \/ Iterate("items", view.member_data)
  PROVE  IInv'
<1>1. /\ target' = target /\ view' = view /\ i' = 0 /\ seen' = << >>
      /\ pc' \in {"elements", "items"}
      /\ pc' = "elements" => upto' = EndOf(view.element_data)
      /\ pc' = "items" => upto' = EndOf(view.member_data)
  BY DEF Iterate
<1>2. /\ EndOf(view.element_data)' = EndOf(view.element_data)
      /\ EndOf(view.member_data)' = EndOf(view.member_data)
  BY <1>1 DEF EndOf
<1>3. EndOf(view.element_data) \in Nat /\ EndOf(view.member_data) \in Nat
  BY SpanEnds DEF IInv
<1>4. ElementsSeen'
  BY <1>1, <1>2, <1>3 DEF ElementsSeen
<1>5. MembersSeen'
  BY <1>1, <1>2, <1>3 DEF MembersSeen
<1> QED
  BY <1>1, <1>3, <1>4, <1>5 DEF IInv, Holds, Searching

LEMMA NextElementInv == ASSUME IInv, NextElement PROVE IInv'
<1>1. /\ pc = "elements" /\ pc' = "elements" /\ i' = i + 1 /\ i \in Nat /\ upto \in Nat
      /\ target' = target /\ view' = view /\ upto' = upto /\ i < upto
      /\ seen' = Append(seen, ElementAt(view.element_data, i))
  BY DEF NextElement, IInv
<1>2. /\ upto = EndOf(view.element_data)
      /\ seen = [n \in 1 .. i |-> ElementAt(view.element_data, n - 1)]
  BY <1>1 DEF IInv, ElementsSeen
<1> DEFINE f == [n \in 1 .. i + 1 |-> ElementAt(view.element_data, n - 1)]
           S == {f[n] : n \in 1 .. i + 1}
<1>3. f \in [1 .. i + 1 -> S]
  OBVIOUS
<1>4. seen = [n \in 1 .. i |-> f[n]]
  BY <1>1, <1>2
<1>5. f[i + 1] = ElementAt(view.element_data, i)
  BY <1>1
<1>6. [n \in 1 .. i + 1 |-> f[n]] = f
  OBVIOUS
<1> HIDE DEF f, S
<1>7. seen' = f
  BY <1>1, <1>3, <1>4, <1>5, <1>6, AppendNext
<1>8. ElementsSeen'
  BY <1>1, <1>2, <1>7 DEF ElementsSeen, EndOf, f, ElementAt
<1> QED
  BY <1>1, <1>8 DEF IInv, Holds, Searching, MembersSeen

LEMMA NextMemberInv == ASSUME IInv, NextMember PROVE IInv'
<1>1. /\ pc = "items" /\ pc' = "items" /\ i' = i + 1 /\ i \in Nat /\ upto \in Nat
      /\ target' = target /\ view' = view /\ upto' = upto /\ i < upto
      /\ seen' = Append(seen, MemberAt(view.member_data, i))
  BY DEF NextMember, IInv
<1>2. /\ upto = EndOf(view.member_data)
      /\ seen = [n \in 1 .. i |-> MemberAt(view.member_data, n - 1)]
  BY <1>1 DEF IInv, MembersSeen
<1> DEFINE f == [n \in 1 .. i + 1 |-> MemberAt(view.member_data, n - 1)]
           S == {f[n] : n \in 1 .. i + 1}
<1>3. f \in [1 .. i + 1 -> S]
  OBVIOUS
<1>4. seen = [n \in 1 .. i |-> f[n]]
  BY <1>1, <1>2
<1>5. f[i + 1] = MemberAt(view.member_data, i)
  BY <1>1
<1>6. [n \in 1 .. i + 1 |-> f[n]] = f
  OBVIOUS
<1> HIDE DEF f, S
<1>7. seen' = f
  BY <1>1, <1>3, <1>4, <1>5, <1>6, AppendNext
<1>8. MembersSeen'
  BY <1>1, <1>2, <1>7 DEF MembersSeen, EndOf, f, MemberAt
<1> QED
  BY <1>1, <1>8 DEF IInv, Holds, Searching, ElementsSeen

LEMMA GoOnInv == ASSUME IInv, GoOn PROVE IInv'
BY DEF GoOn, IInv, Holds, Searching, ElementsSeen, MembersSeen

LEMMA StutterInv == ASSUME IInv, UNCHANGED vars PROVE IInv'
BY DEF vars, IInv, Holds, Searching, ElementsSeen, MembersSeen, HasMember, Size, EndOf,
       ElementAt, MemberAt

LEMMA InvHolds == Spec => []IInv
<1>1. IInv /\ [Next]_vars => IInv'
  BY IndexInv, LookInv, SkipInv, LookupEndsInv, ContainsEndsInv, IterateInv,
     NextElementInv, NextMemberInv, GoOnInv, StutterInv DEF Next
<1> QED
  BY InitInv, <1>1, PTL DEF Spec

-----------------------------------------------------------------------------
(***************************************************************************)
(* No loop of a view reads through a null pointer or past an array,        *)
(* whatever the document and however the view was come by.                 *)
(***************************************************************************)
THEOREM ReadsAreInside == Spec => []ReadsInside
<1>1. IInv => ReadsInside
  <2> SUFFICES ASSUME IInv PROVE ReadsInside
    OBVIOUS
  <2>1. /\ Holds /\ i \in Nat
        /\ \A d : << d >> # NullPointer /\ << d >>[1] = d
    BY ArrayIsThere DEF IInv
  <2>2. pc \in {"lookup", "contains"} /\ InMembers => Inside(view.member_data, i)
    BY <2>1, SearchIsInMapping DEF Inside, Size
  <2>3. pc = "elements" /\ i < upto => Inside(view.element_data, i)
    <3> SUFFICES ASSUME pc = "elements", i < upto PROVE Inside(view.element_data, i)
      OBVIOUS
    <3>1. i < EndOf(view.element_data)
      BY DEF IInv, ElementsSeen
    <3>2. target.kind = "sequence" /\ i < Len(target.items) /\ view.element_data = << target >>
      BY <2>1, <3>1, SpanEnds
    <3> QED
      BY <2>1, <3>2 DEF Inside, Size
  <2>4. pc = "items" /\ i < upto => Inside(view.member_data, i)
    <3> SUFFICES ASSUME pc = "items", i < upto PROVE Inside(view.member_data, i)
      OBVIOUS
    <3>1. i < EndOf(view.member_data)
      BY DEF IInv, MembersSeen
    <3>2. target.kind = "mapping" /\ i < Len(target.members) /\ view.member_data = << target >>
      BY <2>1, <3>1, SpanEnds
    <3> QED
      BY <2>1, <3>2 DEF Inside, Size
  <2> QED
    BY <2>2, <2>3, <2>4 DEF ReadsInside
<1> QED
  BY InvHolds, <1>1, PTL

(***************************************************************************)
(* However long a chain of keys and indices is and wherever it misses, the *)
(* view it leads to is that of what get and value lead to, or of null.     *)
(***************************************************************************)
THEOREM ChainsFollow == Spec => []FollowsPath
<1>1. IInv => FollowsPath
  BY DEF IInv, Holds, FollowsPath
<1> QED
  BY InvHolds, <1>1, PTL

(* contains of a view is TRUE of exactly the keys that get compiles for. *)
THEOREM ContainsTells == Spec => []TellsMisses
<1>1. IInv => TellsMisses
  BY DEF IInv, TellsMisses
<1> QED
  BY InvHolds, <1>1, PTL

(* An iteration over a view visits what for_each visits, in its order. *)
THEOREM EachIsVisited == Spec => []VisitsEach
<1>1. IInv => VisitsEach
  <2> SUFFICES ASSUME IInv PROVE VisitsEach
    OBVIOUS
  <2>1. Holds /\ \A d : << d >>[1] = d
    BY ArrayIsThere DEF IInv
  <2>2. ASSUME pc = "elements", i = upto
        PROVE  seen = IF target.kind # "sequence" THEN << >>
                      ELSE [n \in 1 .. Size(target) |-> ViewOf(target.items[n])]
    <3>1. /\ upto = EndOf(view.element_data)
          /\ seen = [n \in 1 .. i |-> ElementAt(view.element_data, n - 1)]
      BY <2>2 DEF IInv, ElementsSeen
    <3>2. CASE target.kind # "sequence"
      BY <2>1, <2>2, <3>1, <3>2, SpanEnds
    <3>3. CASE target.kind = "sequence"
      <4>1. i = Size(target) /\ i \in Nat /\ view.element_data[1] = target
        BY <2>1, <2>2, <3>1, <3>3, SpanEnds DEF Size
      <4>2. \A n \in 1 .. i : ElementAt(view.element_data, n - 1) = ViewOf(target.items[n])
        BY <4>1 DEF ElementAt
      <4> QED
        BY <3>1, <3>3, <4>1, <4>2
    <3> QED
      BY <3>2, <3>3
  <2>3. ASSUME pc = "items", i = upto
        PROVE  seen = IF target.kind # "mapping" THEN << >>
                      ELSE [n \in 1 .. Size(target) |->
                              [key   |-> target.members[n].key,
                               value |-> ViewOf(target.members[n].value)]]
    <3>1. /\ upto = EndOf(view.member_data)
          /\ seen = [n \in 1 .. i |-> MemberAt(view.member_data, n - 1)]
      BY <2>3 DEF IInv, MembersSeen
    <3>2. CASE target.kind # "mapping"
      BY <2>1, <2>3, <3>1, <3>2, SpanEnds
    <3>3. CASE target.kind = "mapping"
      <4>1. i = Size(target) /\ i \in Nat /\ view.member_data[1] = target
        BY <2>1, <2>3, <3>1, <3>3, SpanEnds DEF Size
      <4>2. \A n \in 1 .. i :
              MemberAt(view.member_data, n - 1)
                = [key |-> target.members[n].key, value |-> ViewOf(target.members[n].value)]
        BY <4>1 DEF MemberAt
      <4> QED
        BY <3>1, <3>3, <4>1, <4>2
    <3> QED
      BY <3>2, <3>3
  <2> QED
    BY <2>2, <2>3 DEF VisitsEach
<1> QED
  BY InvHolds, <1>1, PTL

-----------------------------------------------------------------------------
(***************************************************************************)
(* Serialization: the two recursions over a document agree.  A sum and a   *)
(* text put together are their partial ones, a document is a scalar or is  *)
(* made of documents of the level below, and level by level what is        *)
(* written is as long as what is counted.                                  *)
(***************************************************************************)

(* sum is the sums of the first numbers of ns. *)
SumsOf(sum, ns) ==
  /\ sum \in [0 .. Len(ns) -> Nat]
  /\ sum[0] = 0
  /\ \A k \in 1 .. Len(ns) : sum[k] = sum[k - 1] + ns[k]

(* A sum over the places of a sequence is that of its partial sums. *)
LEMMA TotalDef ==
  ASSUME NEW ns \in Seq(Nat)
  PROVE  \E sum : SumsOf(sum, ns) /\ Total(ns) = sum[Len(ns)]
<1> DEFINE m == Len(ns)
           F == [q \in (1 .. m) \X Nat |-> q[2] + ns[q[1]]]
           Body(h) == [k \in 0 .. m |-> IF k = 0 THEN 0 ELSE h[k - 1] + ns[k]]
           g == CHOOSE h : h = Body(h)
<1>1. m \in Nat /\ F \in [(1 .. m) \X Nat -> Nat]
  OBVIOUS
<1>2. \A k \in 1 .. m, y \in Nat : F[<< k, y >>] = y + ns[k]
  OBVIOUS
<1>3. Total(ns) = g[m]
  BY DEF Total
<1> HIDE DEF F
<1>4. PICK f : IteratesUpTo(f, m, Nat, 0, F)
  BY <1>1, RecursionUpTo
<1>5. f \in [0 .. m -> Nat] /\ f[0] = 0 /\ \A k \in 1 .. m : f[k] = f[k - 1] + ns[k]
  <2>1. ASSUME NEW k \in 1 .. m PROVE f[k] = f[k - 1] + ns[k]
    <3>1. k - 1 \in 0 .. m
      BY <1>1
    <3>2. f[k - 1] \in Nat /\ f[k] = F[<< k, f[k - 1] >>]
      <4> HIDE DEF m
      <4> QED
        BY <1>4, <3>1 DEF IteratesUpTo
    <3> QED
      BY <3>1, <3>2, <1>2
  <2> QED
    BY <1>4, <2>1 DEF IteratesUpTo
<1>6. f = Body(f)
  <2>1. \A k \in 0 .. m : f[k] = IF k = 0 THEN 0 ELSE f[k - 1] + ns[k]
    BY <1>1, <1>5
  <2> QED
    BY <1>5, <2>1
<1>7. g = Body(g)
  BY <1>6
<1>8. g \in [0 .. m -> Nat] /\ g[0] = 0 /\ \A k \in 1 .. m : g[k] = g[k - 1] + ns[k]
  <2>1. \A k \in 0 .. m : g[k] = IF k = 0 THEN 0 ELSE g[k - 1] + ns[k]
    BY <1>7
  <2> DEFINE G == {k \in 0 .. m : g[k] \in Nat}
  <2>2. 0 \in G
    BY <2>1, <1>1
  <2>3. ASSUME NEW k \in 0 .. m - 1, k \in G PROVE k + 1 \in G
    <3>1. k + 1 \in 0 .. m /\ k + 1 # 0 /\ (k + 1) - 1 = k /\ k + 1 \in 1 .. m
      BY <1>1
    <3>2. g[k + 1] = g[k] + ns[k + 1]
      BY <2>1, <3>1
    <3> QED
      BY <2>3, <3>1, <3>2
  <2> HIDE DEF G
  <2>4. 0 .. m \subseteq G
    BY <1>1, <2>2, <2>3, AllUpTo
  <2>5. DOMAIN g = 0 .. m
    BY <1>7
  <2>6. \A k \in 0 .. m : g[k] \in Nat
    BY <2>4 DEF G
  <2>7. g = [k \in 0 .. m |-> g[k]]
    BY <1>7
  <2> HIDE DEF g, m
  <2>8. g \in [0 .. m -> Nat]
    BY <2>6, <2>7
  <2>9. \A k \in 1 .. m : g[k] = g[k - 1] + ns[k]
    <3> TAKE k \in 1 .. m
    <3>1. k \in 0 .. m /\ k # 0
      BY <1>1
    <3> QED
      BY <2>1, <3>1
  <2> QED
    BY <2>1, <2>8, <2>9, <1>1
<1> HIDE DEF g
<1>9. SumsOf(g, ns)
  BY <1>8 DEF SumsOf
<1> QED
  BY <1>3, <1>9

(* cat is what the first sequences of ws give one after the other. *)
CatsOf(cat, ws, S) ==
  /\ cat \in [0 .. Len(ws) -> Seq(S)]
  /\ cat[0] = << >>
  /\ \A k \in 1 .. Len(ws) : cat[k] = cat[k - 1] \o ws[k]

(* What is written one after the other grows by one text at a time. *)
LEMMA FlattenDef ==
  ASSUME NEW S, NEW ws \in Seq(Seq(S))
  PROVE  \E cat : CatsOf(cat, ws, S) /\ FlattenSeq(ws) = cat[Len(ws)]
<1> DEFINE m == Len(ws)
           F == [q \in (1 .. m) \X Seq(S) |-> q[2] \o ws[q[1]]]
           Body(h) == [k \in 1 .. m |-> IF k = 1 THEN ws[k] ELSE h[k - 1] \o ws[k]]
           g == CHOOSE h : h = Body(h)
<1>1. m \in Nat /\ \A k \in 1 .. m : ws[k] \in Seq(S)
  OBVIOUS
<1>2. F \in [(1 .. m) \X Seq(S) -> Seq(S)]
  BY <1>1
<1>3. \A k \in 1 .. m, y \in Seq(S) : F[<< k, y >>] = y \o ws[k]
  OBVIOUS
<1>4. FlattenSeq(ws) = IF m = 0 THEN ws ELSE g[m]
  BY DEF FlattenSeq
<1>5. << >> \in Seq(S) /\ \A y \in Seq(S) : << >> \o y = y
  OBVIOUS
<1>6. m = 0 => ws = << >>
  OBVIOUS
<1> HIDE DEF F, m
<1>7. PICK f : IteratesUpTo(f, m, Seq(S), << >>, F)
  BY <1>1, <1>2, <1>5, RecursionUpTo
<1>8. f \in [0 .. m -> Seq(S)] /\ f[0] = << >>
  BY <1>7 DEF IteratesUpTo
<1>9. ASSUME NEW k \in 1 .. m PROVE f[k] = f[k - 1] \o ws[k]
  <2>1. k - 1 \in 0 .. m
    BY <1>1
  <2>2. f[k - 1] \in Seq(S) /\ f[k] = F[<< k, f[k - 1] >>]
    BY <1>7, <2>1 DEF IteratesUpTo
  <2> QED
    BY <2>2, <1>3
<1> DEFINE h0 == [k \in 1 .. m |-> f[k]]
<1>10. h0 = Body(h0)
  <2>1. ASSUME NEW k \in 1 .. m
        PROVE  f[k] = IF k = 1 THEN ws[k] ELSE h0[k - 1] \o ws[k]
    <3>1. CASE k = 1
      <4>1. k - 1 = 0
        BY <3>1
      <4>2. f[k] = << >> \o ws[k]
        BY <4>1, <1>8, <1>9
      <4> QED
        BY <4>2, <3>1, <1>1, <1>5
    <3>2. CASE k # 1
      <4>1. k - 1 \in 1 .. m
        BY <3>2, <1>1
      <4> QED
        BY <4>1, <3>2, <1>9
    <3> QED
      BY <3>1, <3>2
  <2> QED
    BY <2>1
<1> HIDE DEF h0
<1>11. g = Body(g)
  BY <1>10, ZenonT(40)
<1>12. \A k \in 1 .. m : g[k] = IF k = 1 THEN ws[k] ELSE g[k - 1] \o ws[k]
  BY <1>11
<1> HIDE DEF g
(* The two agree. *)
<1>13. ASSUME NEW k \in 1 .. m PROVE g[k] = f[k]
  <2> DEFINE G == {j \in 0 .. m : j > 0 => g[j] = f[j]}
  <2>1. 0 \in G
    BY <1>1
  <2>2. ASSUME NEW j \in 0 .. m - 1, j \in G PROVE j + 1 \in G
    <3>1. j + 1 \in 1 .. m /\ (j + 1) - 1 = j /\ j + 1 \in 0 .. m
      BY <1>1
    <3>2. f[j + 1] = f[j] \o ws[j + 1]
      BY <3>1, <1>9
    <3>3. CASE j = 0
      <4>1. g[j + 1] = ws[j + 1] /\ f[j] = << >> /\ ws[j + 1] \in Seq(S)
        BY <3>1, <3>3, <1>8, <1>12, <1>1
      <4> QED
        BY <4>1, <3>1, <3>2, <1>5
    <3>4. CASE j # 0
      <4>1. g[j] = f[j] /\ j + 1 # 1
        BY <2>2, <3>4
      <4>2. g[j + 1] = g[j] \o ws[j + 1]
        BY <1>12, <3>1, <4>1
      <4> QED
        BY <4>1, <4>2, <3>1, <3>2
    <3> QED
      BY <3>3, <3>4
  <2> HIDE DEF G
  <2>3. 0 .. m \subseteq G
    BY <1>1, <2>1, <2>2, AllUpTo
  <2>4. k \in 0 .. m /\ k > 0
    BY <1>1
  <2> QED
    BY <2>3, <2>4 DEF G
<1>14. FlattenSeq(ws) = f[m]
  <2>1. CASE m = 0
    BY <2>1, <1>4, <1>6, <1>8
  <2>2. CASE m # 0
    <3>1. m \in 1 .. m
      BY <2>2, <1>1
    <3> QED
      BY <2>2, <3>1, <1>4, <1>13
  <2> QED
    BY <2>1, <2>2
<1>15. CatsOf(f, ws, S)
  BY <1>8, <1>9 DEF CatsOf, m
<1> QED
  BY <1>14, <1>15 DEF m

(* The sequences written one after the other are as long as all together. *)
LEMMA FlattenSize ==
  ASSUME NEW S, NEW ws \in Seq(Seq(S)), NEW ns \in Seq(Nat), Len(ns) = Len(ws),
         \A k \in 1 .. Len(ws) : Len(ws[k]) = ns[k]
  PROVE  FlattenSeq(ws) \in Seq(S) /\ Len(FlattenSeq(ws)) = Total(ns)
<1> DEFINE m == Len(ws)
<1>1. m \in Nat /\ Len(ns) = m
  OBVIOUS
<1>2. PICK cat : CatsOf(cat, ws, S) /\ FlattenSeq(ws) = cat[m]
  BY FlattenDef
<1>3. PICK sum : SumsOf(sum, ns) /\ Total(ns) = sum[m]
  BY TotalDef
<1> DEFINE G == {k \in 0 .. m : Len(cat[k]) = sum[k]}
<1>4. 0 \in G
  BY <1>1, <1>2, <1>3 DEF CatsOf, SumsOf
<1>5. ASSUME NEW k \in 0 .. m - 1, k \in G PROVE k + 1 \in G
  <2>1. k + 1 \in 1 .. m /\ (k + 1) - 1 = k /\ k + 1 \in 0 .. m /\ k \in 0 .. m
    BY <1>1
  <2>2. cat[k + 1] = cat[k] \o ws[k + 1] /\ cat[k] \in Seq(S)
    BY <1>2, <2>1 DEF CatsOf
  <2>3. sum[k + 1] = sum[k] + ns[k + 1]
    BY <1>1, <1>3, <2>1 DEF SumsOf
  <2>4. ws[k + 1] \in Seq(S) /\ Len(ws[k + 1]) = ns[k + 1]
    BY <2>1
  <2>5. Len(cat[k + 1]) = Len(cat[k]) + Len(ws[k + 1])
    <3>1. \A u, v \in Seq(S) : Len(u \o v) = Len(u) + Len(v)
      OBVIOUS
    <3> QED
      BY <3>1, <2>2, <2>4
  <2> QED
    BY <1>5, <2>1, <2>3, <2>4, <2>5
<1> HIDE DEF G, m
<1>6. 0 .. m \subseteq G
  BY <1>1, <1>4, <1>5, AllUpTo
<1>9. m \in 0 .. m
  BY <1>1
<1>7. Len(cat[m]) = sum[m]
  BY <1>6, <1>9 DEF G
<1>8. cat[m] \in Seq(S)
  BY <1>2, <1>9 DEF CatsOf, m
<1> QED
  BY <1>2, <1>3, <1>7, <1>8

(* The documents of one level more. *)
Deeper(inner) ==
  AnyScalar \cup [kind : {"sequence"}, items : Seq(inner)]
    \cup [kind : {"mapping"}, members : Seq([key : Seq(Chars), value : inner])]

LevelsUpTo(g, m) ==
  /\ DOMAIN g = 0 .. m
  /\ g[0] = AnyScalar
  /\ \A n \in 1 .. m : g[n] = Deeper(g[n - 1])

(* The documents of a level are scalars, and collections of those of the level below. *)
LEMMA NestedDef ==
  /\ Nested[0] = AnyScalar
  /\ \A n \in Nat \ {0} : Nested[n] = Deeper(Nested[n - 1])
<1> DEFINE G == {m \in Nat : \E g : LevelsUpTo(g, m)}
<1>1. 0 \in G
  <2>1. LevelsUpTo([n \in 0 .. 0 |-> AnyScalar], 0)
    BY DEF LevelsUpTo
  <2> QED
    BY <2>1
<1>2. ASSUME NEW m \in Nat, m \in G PROVE m + 1 \in G
  <2>1. PICK g : LevelsUpTo(g, m)
    BY <1>2
  <2> DEFINE h == [n \in 0 .. m + 1 |-> IF n = m + 1 THEN Deeper(g[m]) ELSE g[n]]
  <2>2. DOMAIN h = 0 .. m + 1 /\ h[0] = AnyScalar
    BY <2>1 DEF LevelsUpTo
  <2>3. ASSUME NEW n \in 1 .. m + 1 PROVE h[n] = Deeper(h[n - 1])
    <3>1. n \in 0 .. m + 1 /\ n - 1 \in 0 .. m + 1 /\ n - 1 # m + 1
      OBVIOUS
    <3>2. h[n - 1] = g[n - 1]
      BY <3>1
    <3>3. CASE n = m + 1
      BY <3>1, <3>2, <3>3
    <3>4. CASE n # m + 1
      <4>1. n \in 1 .. m
        BY <3>4
      <4>2. h[n] = g[n] /\ g[n] = Deeper(g[n - 1])
        BY <3>1, <3>4, <4>1, <2>1 DEF LevelsUpTo
      <4> QED
        BY <3>2, <4>2
    <3> QED
      BY <3>3, <3>4
  <2> HIDE DEF h
  <2>4. LevelsUpTo(h, m + 1)
    BY <2>2, <2>3 DEF LevelsUpTo
  <2> QED
    BY <2>4
<1>3. G = Nat
  <2>1. G \in SUBSET Nat
    OBVIOUS
  <2> HIDE DEF G
  <2> QED
    BY <1>1, <1>2, <2>1, AllNumbers
<1> DEFINE At(m) == CHOOSE g : LevelsUpTo(g, m)
<1>4. \A m \in Nat : LevelsUpTo(At(m), m)
  BY <1>3
<1> HIDE DEF At, G
(* Beginnings agree. *)
<1>5. ASSUME NEW m \in Nat, NEW n \in 0 .. m
      PROVE  At(m)[n] = At(n)[n]
  <2> DEFINE H == {k \in 0 .. n : At(m)[k] = At(n)[k]}
  <2>1. 0 \in H
    BY <1>4 DEF LevelsUpTo
  <2>2. ASSUME NEW k \in 0 .. n - 1, k \in H PROVE k + 1 \in H
    <3>1. k + 1 \in 1 .. m /\ k + 1 \in 1 .. n /\ (k + 1) - 1 = k /\ k + 1 \in 0 .. n
      OBVIOUS
    <3>2. At(m)[k + 1] = Deeper(At(m)[k])
      BY <3>1, <1>4 DEF LevelsUpTo
    <3>3. At(n)[k + 1] = Deeper(At(n)[k])
      BY <3>1, <1>4 DEF LevelsUpTo
    <3> QED
      BY <3>1, <3>2, <3>3, <2>2
  <2> HIDE DEF H
  <2>3. 0 .. n \subseteq H
    BY <2>1, <2>2, AllUpTo
  <2>4. n \in 0 .. n
    OBVIOUS
  <2> QED
    BY <2>3, <2>4 DEF H
<1> DEFINE Body(h) == [n \in Nat |-> IF n = 0 THEN AnyScalar ELSE Deeper(h[n - 1])]
           f == [n \in Nat |-> At(n)[n]]
<1>6. f = Body(f)
  <2>1. ASSUME NEW n \in Nat
        PROVE  At(n)[n] = IF n = 0 THEN AnyScalar ELSE Deeper(f[n - 1])
    <3>1. CASE n = 0
      BY <3>1, <1>4 DEF LevelsUpTo
    <3>2. CASE n # 0
      <4>1. n - 1 \in Nat /\ n \in 1 .. n /\ n - 1 \in 0 .. n
        BY <3>2
      <4>2. At(n)[n] = Deeper(At(n)[n - 1])
        BY <4>1, <1>4 DEF LevelsUpTo
      <4>3. At(n)[n - 1] = At(n - 1)[n - 1]
        BY <4>1, <1>5
      <4> QED
        BY <3>2, <4>1, <4>2, <4>3
    <3> QED
      BY <3>1, <3>2
  <2> QED
    BY <2>1
<1> HIDE DEF f
<1>7. Nested = CHOOSE h : h = Body(h)
  BY DEF Nested, Deeper
<1>8. Nested = Body(Nested)
  BY <1>6, <1>7
<1> QED
  BY <1>8

MemberOf(D) == [key : Seq(Chars), value : D]

(* A scalar carries a text, a truth value or nothing. *)
LEMMA ScalarCases ==
  ASSUME NEW d \in AnyScalar
  PROVE  /\ d.kind \in {"string", "number", "boolean", "null"}
         /\ d.kind \in {"string", "number"} => d.text \in Seq(Chars)
         /\ d.kind = "boolean" => d.value \in BOOLEAN
BY DEF AnyScalar

(* A document is a scalar, a sequence or a mapping. *)
LEMMA DeeperCases ==
  ASSUME NEW D, NEW d \in Deeper(D)
  PROVE  \/ d \in AnyScalar /\ d.kind \notin {"sequence", "mapping"}
         \/ d.kind = "sequence" /\ d.items \in Seq(D)
         \/ d.kind = "mapping" /\ d.members \in Seq(MemberOf(D))
BY ScalarCases DEF Deeper, MemberOf

(* A sum of numbers is one. *)
LEMMA TotalIsNat == ASSUME NEW ns \in Seq(Nat) PROVE Total(ns) \in Nat
<1>1. PICK sum : SumsOf(sum, ns) /\ Total(ns) = sum[Len(ns)]
  BY TotalDef
<1> QED
  BY <1>1 DEF SumsOf

(* A function on the places of a sequence is one. *)
LEMMA OnPlaces ==
  ASSUME NEW S, NEW w, NEW T, w \in Seq(T), NEW f, DOMAIN f = DOMAIN w,
         f = [n \in DOMAIN w |-> f[n]], \A n \in DOMAIN w : f[n] \in S
  PROVE  f \in Seq(S) /\ Len(f) = Len(w)
<1>1. DOMAIN w = 1 .. Len(w) /\ Len(w) \in Nat
  OBVIOUS
<1>2. f \in [1 .. Len(w) -> S]
  BY <1>1
<1> QED
  BY <1>1, <1>2

(* The size pass counts characters. *)
LEMMA SizeOfStringIsNat == ASSUME NEW w \in Seq(Chars) PROVE SizeOfString(w) \in Nat
<1> DEFINE ns == [n \in DOMAIN w |-> EscapedSize(w[n])]
<1>1. \A n \in DOMAIN w : EscapedSize(w[n]) \in Nat
  BY DEF EscapedSize
<1>2. ns \in Seq(Nat)
  <2>1. DOMAIN ns = DOMAIN w /\ ns = [n \in DOMAIN w |-> ns[n]] /\ \A n \in DOMAIN w : ns[n] \in Nat
    BY <1>1
  <2> HIDE DEF ns
  <2> QED
    BY <2>1, OnPlaces
<1> HIDE DEF ns
<1>3. Total(ns) \in Nat
  BY <1>2, TotalIsNat
<1>4. SizeOfString(w) = IF PlainSafe(w) THEN Len(w) ELSE 2 + Total(ns)
  BY DEF SizeOfString, ns
<1>5. Len(w) \in Nat /\ 2 + Total(ns) \in Nat
  BY <1>3
<1> QED
  BY <1>4, <1>5

(* The size of a scalar is a number. *)
LEMMA SizeOfScalarIsNat == ASSUME NEW d \in AnyScalar PROVE SizeOfScalar(d) \in Nat
<1>1. CASE d.kind = "string"
  BY <1>1, ScalarCases, SizeOfStringIsNat DEF SizeOfScalar
<1>2. CASE d.kind = "number"
  BY <1>2, ScalarCases DEF SizeOfScalar
<1>3. CASE d.kind = "boolean"
  BY <1>3 DEF SizeOfScalar
<1>4. CASE d.kind = "null"
  BY <1>4 DEF SizeOfScalar
<1> QED
  BY <1>1, <1>2, <1>3, <1>4, ScalarCases

(* The sizes that the size pass adds up, of elements and of members. *)
ItemSizes(d, sizes) == [n \in DOMAIN d.items |-> sizes[d.items[n]]]

MemberSizes(d, sizes) ==
  [n \in DOMAIN d.members |-> SizeOfString(d.members[n].key) + 2 + sizes[d.members[n].value]]

(* What the size pass adds up are numbers, one for each element or member. *)
LEMMA SizesAreNat ==
  ASSUME NEW D, NEW d, NEW sizes \in [D -> Nat]
  PROVE  /\ d.items \in Seq(D) => /\ ItemSizes(d, sizes) \in Seq(Nat)
                                  /\ Len(ItemSizes(d, sizes)) = Len(d.items)
         /\ d.members \in Seq(MemberOf(D)) => /\ MemberSizes(d, sizes) \in Seq(Nat)
                                              /\ Len(MemberSizes(d, sizes)) = Len(d.members)
<1>1. ASSUME d.items \in Seq(D)
      PROVE  ItemSizes(d, sizes) \in Seq(Nat) /\ Len(ItemSizes(d, sizes)) = Len(d.items)
  <2> DEFINE ns == ItemSizes(d, sizes)
  <2>1. DOMAIN ns = DOMAIN d.items /\ ns = [n \in DOMAIN d.items |-> ns[n]]
    BY DEF ItemSizes
  <2>2. \A n \in DOMAIN d.items : ns[n] \in Nat
    BY <1>1 DEF ItemSizes
  <2> HIDE DEF ns
  <2>3. ns \in Seq(Nat) /\ Len(ns) = Len(d.items)
    BY <1>1, <2>1, <2>2, OnPlaces
  <2> QED
    BY <2>3 DEF ns
<1>2. ASSUME d.members \in Seq(MemberOf(D))
      PROVE  MemberSizes(d, sizes) \in Seq(Nat) /\ Len(MemberSizes(d, sizes)) = Len(d.members)
  <2> DEFINE ns == MemberSizes(d, sizes)
  <2>1. DOMAIN ns = DOMAIN d.members /\ ns = [n \in DOMAIN d.members |-> ns[n]]
    BY DEF MemberSizes
  <2>2. ASSUME NEW n \in DOMAIN d.members PROVE ns[n] \in Nat
    <3>1. d.members[n] \in MemberOf(D)
      BY <1>2
    <3>2. d.members[n].key \in Seq(Chars) /\ d.members[n].value \in D
      BY <3>1 DEF MemberOf
    <3>3. SizeOfString(d.members[n].key) \in Nat /\ sizes[d.members[n].value] \in Nat
      BY <3>2, SizeOfStringIsNat
    <3>4. ns[n] = SizeOfString(d.members[n].key) + 2 + sizes[d.members[n].value]
      BY DEF MemberSizes
    <3> HIDE DEF ns
    <3> QED
      BY <3>3, <3>4
  <2> HIDE DEF ns
  <2>3. ns \in Seq(Nat) /\ Len(ns) = Len(d.members)
    BY <1>2, <2>1, <2>2, OnPlaces
  <2> QED
    BY <2>3 DEF ns
<1> QED
  BY <1>1, <1>2

(* The size of a document is a number, if those of its elements are. *)
LEMMA SizeOfIsNat ==
  ASSUME NEW D, NEW d \in Deeper(D), NEW sizes \in [D -> Nat]
  PROVE  SizeOf(d, sizes) \in Nat
<1>1. CASE d \in AnyScalar /\ d.kind \notin {"sequence", "mapping"}
  BY <1>1, SizeOfScalarIsNat DEF SizeOf
<1>2. CASE d.kind = "sequence" /\ d.items \in Seq(D)
  <2>1. Total(ItemSizes(d, sizes)) \in Nat
    BY <1>2, SizesAreNat, TotalIsNat
  <2>2. Separators(Len(d.items)) \in Nat
    BY <1>2 DEF Separators
  <2>3. SizeOf(d, sizes) = 2 + Total(ItemSizes(d, sizes)) + Separators(Len(d.items))
    BY <1>2 DEF SizeOf, ItemSizes
  <2> QED
    BY <2>1, <2>2, <2>3
<1>3. CASE d.kind = "mapping" /\ d.members \in Seq(MemberOf(D))
  <2>1. Total(MemberSizes(d, sizes)) \in Nat
    BY <1>3, SizesAreNat, TotalIsNat
  <2>2. Separators(Len(d.members)) \in Nat
    BY <1>3 DEF Separators
  <2>3. SizeOf(d, sizes) = 2 + Total(MemberSizes(d, sizes)) + Separators(Len(d.members))
    BY <1>3 DEF SizeOf, MemberSizes
  <2> QED
    BY <2>1, <2>2, <2>3
<1> QED
  BY <1>1, <1>2, <1>3, DeeperCases

(* The size of a document is made of those of the level below. *)
LEMMA SizesDef ==
  /\ \A n \in Nat : SerializedSize[n] \in [Nested[n] -> Nat]
  /\ \A d \in AnyScalar : SerializedSize[0][d] = SizeOfScalar(d)
  /\ \A n \in Nat \ {0} : \A d \in Nested[n] :
       SerializedSize[n][d] = SizeOf(d, SerializedSize[n - 1])
<1> DEFINE x == [d \in AnyScalar |-> SizeOfScalar(d)]
           Above(n, g) == [d \in Nested[n] |-> SizeOf(d, g)]
           Pairs == UNION {{<< n, g >> : g \in [Nested[n - 1] -> Nat]} : n \in Nat \ {0}}
           G == [q \in Pairs |-> Above(q[1], q[2])]
           Body(h) == [n \in Nat |-> IF n = 0 THEN x ELSE Above(n, h[n - 1])]
<1>1. x \in [Nested[0] -> Nat]
  BY NestedDef, SizeOfScalarIsNat
<1>2. ASSUME NEW n \in Nat \ {0}, NEW g \in [Nested[n - 1] -> Nat]
      PROVE  G[<< n, g >>] = Above(n, g) /\ Above(n, g) \in [Nested[n] -> Nat]
  <2>1. << n, g >> \in Pairs
    OBVIOUS
  <2>2. G[<< n, g >>] = Above(n, g)
    BY <2>1
  <2>3. \A d \in Nested[n] : SizeOf(d, g) \in Nat
    BY NestedDef, SizeOfIsNat
  <2> QED
    BY <2>2, <2>3
<1> HIDE DEF G
<1>3. \A n \in Nat \ {0} : \A g \in [Nested[n - 1] -> Nat] : G[<< n, g >>] \in [Nested[n] -> Nat]
  BY <1>2
<1> HIDE DEF x, Above
<1>4. PICK f : LevelByLevel(f, Nested, Nat, x, G)
  BY <1>1, <1>3, LevelsExist
<1>5. \A n \in Nat \ {0} : f[n] = Above(n, f[n - 1])
  <2> TAKE n \in Nat \ {0}
  <2>1. n - 1 \in Nat
    OBVIOUS
  <2>2. f[n - 1] \in [Nested[n - 1] -> Nat] /\ f[n] = G[<< n, f[n - 1] >>]
    BY <1>4, <2>1 DEF LevelByLevel
  <2> QED
    BY <2>2, <1>2
<1>6. f = Body(f)
  BY <1>4, <1>5 DEF LevelByLevel
<1> DEFINE s == CHOOSE h : h = Body(h)
<1>7. SerializedSize = s
  BY DEF SerializedSize, x, Above
<1>8. s = Body(s)
  BY <1>6
<1> HIDE DEF s
<1>9. s[0] = x /\ \A n \in Nat \ {0} : s[n] = Above(n, s[n - 1])
  BY <1>8
<1>10. \A n \in Nat : s[n] \in [Nested[n] -> Nat]
  <2> DEFINE H == {n \in Nat : s[n] \in [Nested[n] -> Nat]}
  <2>1. 0 \in H
    BY <1>1, <1>9
  <2>2. ASSUME NEW n \in Nat, n \in H PROVE n + 1 \in H
    <3>1. n + 1 \in Nat \ {0} /\ (n + 1) - 1 = n /\ s[n] \in [Nested[n] -> Nat]
      BY <2>2
    <3>2. s[n + 1] = Above(n + 1, s[n])
      BY <1>9, <3>1
    <3>3. Above(n + 1, s[n]) \in [Nested[n + 1] -> Nat]
      BY <1>2, <3>1
    <3> QED
      BY <3>1, <3>2, <3>3
  <2>3. H \in SUBSET Nat
    OBVIOUS
  <2> HIDE DEF H
  <2>4. H = Nat
    BY <2>1, <2>2, <2>3, AllNumbers
  <2> QED
    BY <2>4 DEF H
<1> QED
  BY <1>7, <1>9, <1>10 DEF x, Above

-----------------------------------------------------------------------------
(* What is written: characters of the document, and of the serializer. *)
Marks   == {"\"", "\\", "[", "]", "{", "}", ",", ":", " "}
Letters == {"t", "r", "u", "f", "a", "l", "s", "e", "n", "b", "v"}
HexDigits == {"0", "1", "2", "3", "4", "5", "6", "7", "8", "9", "a", "b", "c", "d", "e", "f"}
Output == Chars \cup Marks \cup Letters \cup HexDigits \cup {e[2] : e \in ShortEscapes}

(* A character has one code. *)
LEMMA CodeIs ==
  ASSUME NEW c \in Chars
  PROVE  Code(c) \in 0 .. 127 /\ CharOf(Code(c)) = c
<1> DEFINE n == CHOOSE m \in 1 .. 128 : Ascii[m] = c
<1>1. \E m \in 1 .. 128 : Ascii[m] = c
  BY DEF Chars
<1>2. n \in 1 .. 128 /\ Ascii[n] = c
  BY <1>1
<1>3. Code(c) = n - 1
  BY DEF Code
<1> HIDE DEF n
<1>4. (n - 1) + 1 = n
  BY <1>2
<1> QED
  BY <1>2, <1>3, <1>4 DEF CharOf

(* An escape is as long as the size pass counts. *)
LEMMA EscapedIs ==
  ASSUME NEW c \in Chars
  PROVE  Escaped(c) \in Seq(Output) /\ Len(Escaped(c)) = EscapedSize(c)
<1>1. c \in Output /\ "\\" \in Output /\ "u" \in Output /\ "0" \in Output
  BY DEF Output, Marks, HexDigits, Letters
<1>2. CASE ~ NeedsEscape(c)
  BY <1>1, <1>2 DEF Escaped, EscapedSize
<1>3. CASE NeedsEscape(c) /\ c \in ShortEscaped
  <2> DEFINE e == CHOOSE f \in ShortEscapes : f[1] = c
  <2>1. e \in ShortEscapes
    BY <1>3 DEF ShortEscaped
  <2>2. \A f \in ShortEscapes : f[2] \in Output
    BY DEF Output
  <2>3. Escaped(c) = << "\\", e[2] >> /\ EscapedSize(c) = 2
    BY <1>3 DEF Escaped, EscapedSize
  <2>4. e[2] \in Output
    BY <2>1, <2>2
  <2> HIDE DEF e
  <2> QED
    BY <1>1, <2>3, <2>4
<1>4. CASE NeedsEscape(c) /\ c \notin ShortEscaped
  <2>1. IsControl(c)
    BY <1>4 DEF NeedsEscape, ShortEscaped, ShortEscapes
  <2>2. Code(c) \div 16 \in 0 .. 15 /\ Code(c) % 16 \in 0 .. 15
    BY <2>1, CodeIs DEF IsControl
  <2>3. \A n \in 0 .. 15 : Hex(n) \in Output
    BY DEF Output, HexDigits, Hex, Scalar!LowerHex
  <2> DEFINE a == Hex(Code(c) \div 16)
             b == Hex(Code(c) % 16)
  <2>4. Escaped(c) = << "\\", "u", "0", "0", a, b >> /\ EscapedSize(c) = 6
    BY <1>4 DEF Escaped, EscapedSize
  <2>5. a \in Output /\ b \in Output
    BY <2>2, <2>3
  <2> HIDE DEF a, b
  <2> QED
    BY <1>1, <2>4, <2>5
<1> QED
  BY <1>2, <1>3, <1>4

(* Two texts one after the other. *)
LEMMA ConcatIs ==
  ASSUME NEW S, NEW u \in Seq(S), NEW v \in Seq(S)
  PROVE  u \o v \in Seq(S) /\ Len(u \o v) = Len(u) + Len(v)
OBVIOUS

(* A text of two characters. *)
LEMMA PairIs ==
  ASSUME NEW S, NEW a \in S, NEW b \in S
  PROVE  << a, b >> \in Seq(S) /\ Len(<< a, b >>) = 2
OBVIOUS

(* A string is written in as many characters as the size pass counts. *)
LEMMA StringFits ==
  ASSUME NEW w \in Seq(Chars)
  PROVE  SpelledString(w) \in Seq(Output) /\ Len(SpelledString(w)) = SizeOfString(w)
<1> DEFINE ws == [n \in DOMAIN w |-> Escaped(w[n])]
           ns == [n \in DOMAIN w |-> EscapedSize(w[n])]
           body == FlattenSeq(ws)
<1>1. \A n \in DOMAIN w : w[n] \in Chars
  OBVIOUS
<1>2. \A n \in DOMAIN w : Escaped(w[n]) \in Seq(Output) /\ Len(Escaped(w[n])) = EscapedSize(w[n])
  BY <1>1, EscapedIs
<1>3. \A n \in DOMAIN w : EscapedSize(w[n]) \in Nat
  BY DEF EscapedSize
<1>4. ws \in Seq(Seq(Output)) /\ Len(ws) = Len(w)
  <2>1. DOMAIN ws = DOMAIN w /\ ws = [n \in DOMAIN w |-> ws[n]]
    OBVIOUS
  <2>2. \A n \in DOMAIN w : ws[n] \in Seq(Output)
    BY <1>2
  <2> HIDE DEF ws
  <2> QED
    BY <2>1, <2>2, OnPlaces
<1>5. ns \in Seq(Nat) /\ Len(ns) = Len(w)
  <2>1. DOMAIN ns = DOMAIN w /\ ns = [n \in DOMAIN w |-> ns[n]]
    OBVIOUS
  <2>2. \A n \in DOMAIN w : ns[n] \in Nat
    BY <1>3
  <2> HIDE DEF ns
  <2> QED
    BY <2>1, <2>2, OnPlaces
<1>6. \A k \in 1 .. Len(ws) : Len(ws[k]) = ns[k]
  <2>1. 1 .. Len(ws) = DOMAIN w
    BY <1>4
  <2> QED
    BY <2>1, <1>2
<1> HIDE DEF ws, ns
<1>7. body \in Seq(Output) /\ Len(body) = Total(ns)
  BY <1>4, <1>5, <1>6, FlattenSize
<1>8. SizeOfString(w) = IF PlainSafe(w) THEN Len(w) ELSE 2 + Total(ns)
  BY DEF SizeOfString, ns
<1>9. SpelledString(w) = IF PlainSafe(w) THEN w ELSE << "\"" >> \o body \o << "\"" >>
  BY DEF SpelledString, ws
<1> HIDE DEF body
<1>10. CASE PlainSafe(w)
  <2>1. w \in Seq(Output)
    BY DEF Output
  <2> QED
    BY <2>1, <1>8, <1>9, <1>10
<1>11. CASE ~ PlainSafe(w)
  <2> DEFINE q == << "\"" >>
  <2>1. q \in Seq(Output) /\ Len(q) = 1
    BY DEF Output, Marks
  <2>2. SpelledString(w) = q \o body \o q
    BY <1>9, <1>11
  <2> HIDE DEF q
  <2>5. q \o body \in Seq(Output) /\ Len(q \o body) = 1 + Len(body)
    BY <2>1, <1>7, ConcatIs
  <2>3. q \o body \o q \in Seq(Output) /\ Len(q \o body \o q) = 1 + Len(body) + 1
    BY <2>1, <2>5, ConcatIs
  <2>4. 1 + Len(body) + 1 = 2 + Len(body)
    BY <1>7
  <2> QED
    BY <2>2, <2>3, <2>4, <1>7, <1>8, <1>11
<1> QED
  BY <1>10, <1>11

(* A scalar is written in as many characters as the size pass counts. *)
LEMMA ScalarFits ==
  ASSUME NEW d \in AnyScalar
  PROVE  SpelledScalar(d) \in Seq(Output) /\ Len(SpelledScalar(d)) = SizeOfScalar(d)
<1>1. CASE d.kind = "string"
  <2>1. d.text \in Seq(Chars)
    BY <1>1, ScalarCases
  <2>2. SpelledScalar(d) = SpelledString(d.text) /\ SizeOfScalar(d) = SizeOfString(d.text)
    BY <1>1 DEF SpelledScalar, SizeOfScalar
  <2> QED
    BY <2>1, <2>2, StringFits
<1>2. CASE d.kind = "number"
  <2>1. d.text \in Seq(Chars)
    BY <1>2, ScalarCases
  <2>2. SpelledScalar(d) = d.text /\ SizeOfScalar(d) = Len(d.text)
    BY <1>2 DEF SpelledScalar, SizeOfScalar
  <2>3. d.text \in Seq(Output)
    BY <2>1 DEF Output
  <2> QED
    BY <2>2, <2>3
<1>3. CASE d.kind = "boolean"
  <2>1. /\ SpelledScalar(d) = IF d.value THEN << "t", "r", "u", "e" >>
                              ELSE << "f", "a", "l", "s", "e" >>
        /\ SizeOfScalar(d) = IF d.value THEN 4 ELSE 5
    BY <1>3 DEF SpelledScalar, SizeOfScalar
  <2>2. << "t", "r", "u", "e" >> \in Seq(Output)
    BY DEF Output, Letters
  <2>3. << "f", "a", "l", "s", "e" >> \in Seq(Output)
    BY DEF Output, Letters
  <2>4. CASE d.value
    BY <2>1, <2>2, <2>4
  <2>5. CASE ~ d.value
    BY <2>1, <2>3, <2>5
  <2> QED
    BY <2>4, <2>5
<1>4. CASE d.kind = "null"
  <2>1. SpelledScalar(d) = << "n", "u", "l", "l" >> /\ SizeOfScalar(d) = 4
    BY <1>4 DEF SpelledScalar, SizeOfScalar
  <2>2. << "n", "u", "l", "l" >> \in Seq(Output)
    BY DEF Output, Letters
  <2> QED
    BY <2>1, <2>2
<1> QED
  BY <1>1, <1>2, <1>3, <1>4, ScalarCases

(* Two for each element but the first. *)
LEMMA SeparatedTotal ==
  ASSUME NEW ns \in Seq(Nat), NEW ms \in Seq(Nat), Len(ms) = Len(ns),
         \A k \in 1 .. Len(ns) : ms[k] = IF k > 1 THEN 2 + ns[k] ELSE ns[k]
  PROVE  Total(ms) = Total(ns) + Separators(Len(ns))
<1> DEFINE m == Len(ns)
<1>1. m \in Nat /\ Len(ms) = m
  OBVIOUS
<1>2. PICK sum : SumsOf(sum, ns) /\ Total(ns) = sum[m]
  BY TotalDef
<1>3. PICK more : SumsOf(more, ms) /\ Total(ms) = more[m]
  BY TotalDef, <1>1
<1>s. \A k \in 1 .. m : ns[k] \in Nat
  OBVIOUS
<1> DEFINE G == {k \in 0 .. m : more[k] = sum[k] + Separators(k)}
<1>4. 0 \in G
  BY <1>1, <1>2, <1>3 DEF SumsOf, Separators
<1>5. ASSUME NEW k \in 0 .. m - 1, k \in G PROVE k + 1 \in G
  <2>1. k + 1 \in 1 .. m /\ (k + 1) - 1 = k /\ k + 1 \in 0 .. m /\ k \in 0 .. m
    BY <1>1
  <2>2. more[k + 1] = more[k] + ms[k + 1] /\ more[k] \in Nat
    BY <1>1, <1>3, <2>1 DEF SumsOf
  <2>3. sum[k + 1] = sum[k] + ns[k + 1] /\ sum[k] \in Nat
    BY <1>2, <2>1 DEF SumsOf
  <2>4. ms[k + 1] = IF k + 1 > 1 THEN 2 + ns[k + 1] ELSE ns[k + 1]
    BY <2>1
  <2>5. ns[k + 1] \in Nat
    BY <2>1, <1>s
  <2>6. more[k] = sum[k] + Separators(k)
    BY <1>5
  <2> HIDE DEF m
  <2>7. CASE k = 0
    <3>1. Separators(k) = 0 /\ Separators(k + 1) = 0 /\ ms[k + 1] = ns[k + 1]
      BY <2>4, <2>7 DEF Separators
    <3> QED
      BY <3>1, <2>1, <2>2, <2>3, <2>5, <2>6
  <2>8. CASE k # 0
    <3>1. Separators(k) = (k - 1) * 2 /\ Separators(k + 1) = k * 2 /\ ms[k + 1] = 2 + ns[k + 1]
      BY <2>4, <2>8, <2>1 DEF Separators
    <3>2. \A a, b \in Nat : (a + ((k - 1) * 2)) + (2 + b) = (a + b) + (k * 2)
      BY <2>1
    <3>3. more[k + 1] = (sum[k] + ((k - 1) * 2)) + (2 + ns[k + 1])
      BY <3>1, <2>2, <2>6
    <3>4. more[k + 1] = (sum[k] + ns[k + 1]) + (k * 2)
      BY <3>2, <3>3, <2>3, <2>5
    <3>5. more[k + 1] = sum[k + 1] + Separators(k + 1)
      BY <3>1, <3>4, <2>3
    <3> QED
      BY <3>5, <2>1
  <2> QED
    BY <2>7, <2>8
<1> HIDE DEF G, m
<1>6. 0 .. m \subseteq G
  BY <1>1, <1>4, <1>5, AllUpTo
<1>7. m \in 0 .. m
  BY <1>1
<1>8. more[m] = sum[m] + Separators(m)
  BY <1>6, <1>7 DEF G
<1> QED
  BY <1>2, <1>3, <1>8 DEF m

(* The texts ws are as long as ns says. *)
Measured(ws, ns) ==
  /\ ws \in Seq(Seq(Output))
  /\ ns \in Seq(Nat)
  /\ Len(ns) = Len(ws)
  /\ \A k \in 1 .. Len(ws) : Len(ws[k]) = ns[k]

(* The elements are written, with what stands between them, in as many as counted. *)
LEMMA JoinedFits ==
  ASSUME NEW ws, NEW ns, Measured(ws, ns)
  PROVE  Joined(ws) \in Seq(Output) /\ Len(Joined(ws)) = Total(ns) + Separators(Len(ws))
<1> DEFINE sep == << ",", " " >>
           vs == [n \in DOMAIN ws |-> IF n > 1 THEN sep \o ws[n] ELSE ws[n]]
           ms == [n \in DOMAIN ws |-> IF n > 1 THEN 2 + ns[n] ELSE ns[n]]
<1>m. /\ ws \in Seq(Seq(Output)) /\ ns \in Seq(Nat) /\ Len(ns) = Len(ws)
      /\ \A k \in 1 .. Len(ws) : Len(ws[k]) = ns[k]
  BY DEF Measured
<1>1. sep \in Seq(Output) /\ Len(sep) = 2
  <2>1. "," \in Output /\ " " \in Output
    BY DEF Output, Marks
  <2> QED
    BY <2>1, PairIs
<1>2. DOMAIN ws = 1 .. Len(ws) /\ Len(ws) \in Nat /\ \A n \in 1 .. Len(ws) : ws[n] \in Seq(Output)
  BY <1>m
<1>3. \A n \in 1 .. Len(ws) : ns[n] \in Nat
  BY <1>m
<1> HIDE DEF sep
<1>4. ASSUME NEW n \in DOMAIN ws
      PROVE  vs[n] \in Seq(Output) /\ Len(vs[n]) = ms[n]
  <2>1. ws[n] \in Seq(Output) /\ Len(ws[n]) = ns[n]
    BY <1>2, <1>m
  <2> DEFINE v == ws[n]
  <2> HIDE DEF v
  <2>2. sep \o v \in Seq(Output) /\ Len(sep \o v) = Len(sep) + Len(v)
    BY <2>1, <1>1, ConcatIs DEF v
  <2>3. Len(sep \o v) = 2 + ns[n]
    BY <2>1, <2>2, <1>1 DEF v
  <2>4. vs[n] = IF n > 1 THEN sep \o v ELSE v
    BY DEF v
  <2>5. v \in Seq(Output) /\ Len(v) = ns[n]
    BY <2>1 DEF v
  <2>6. ms[n] = IF n > 1 THEN 2 + ns[n] ELSE ns[n]
    OBVIOUS
  <2> HIDE DEF vs, ms
  <2> QED
    BY <2>2, <2>3, <2>4, <2>5, <2>6
<1>5. \A n \in DOMAIN ws : ms[n] \in Nat
  <2> TAKE n \in DOMAIN ws
  <2>1. ns[n] \in Nat
    BY <1>2, <1>3
  <2>2. ms[n] = IF n > 1 THEN 2 + ns[n] ELSE ns[n]
    OBVIOUS
  <2> HIDE DEF ms
  <2> QED
    BY <2>1, <2>2
<1>6. vs \in Seq(Seq(Output)) /\ Len(vs) = Len(ws)
  <2>1. DOMAIN vs = DOMAIN ws /\ vs = [n \in DOMAIN ws |-> vs[n]]
    OBVIOUS
  <2>2. \A n \in DOMAIN ws : vs[n] \in Seq(Output)
    BY <1>4
  <2> HIDE DEF vs
  <2> QED
    BY <2>1, <2>2, OnPlaces
<1>7. ms \in Seq(Nat) /\ Len(ms) = Len(ws)
  <2>1. DOMAIN ms = DOMAIN ws /\ ms = [n \in DOMAIN ws |-> ms[n]]
    OBVIOUS
  <2> HIDE DEF ms
  <2> QED
    BY <1>5, <2>1, OnPlaces
<1>8. \A k \in 1 .. Len(ns) : ms[k] = IF k > 1 THEN 2 + ns[k] ELSE ns[k]
  BY <1>2, <1>m
<1>9. Joined(ws) = FlattenSeq(vs)
  BY DEF Joined, sep
<1>10. \A k \in 1 .. Len(vs) : Len(vs[k]) = ms[k]
  BY <1>2, <1>4, <1>6
<1> HIDE DEF vs, ms
<1>11. FlattenSeq(vs) \in Seq(Output) /\ Len(FlattenSeq(vs)) = Total(ms)
  BY <1>6, <1>7, <1>10, FlattenSize
<1>12. Len(ms) = Len(ns) /\ Len(ns) = Len(ws) /\ ns \in Seq(Nat)
  BY <1>7, <1>m
<1>13. Total(ms) = Total(ns) + Separators(Len(ns))
  BY <1>7, <1>8, <1>12, SeparatedTotal
<1> QED
  BY <1>9, <1>11, <1>12, <1>13

(* What the write pass joins, of elements and of members. *)
ItemTexts(d, spelled) == [n \in DOMAIN d.items |-> spelled[d.items[n]]]

MemberTexts(d, spelled) ==
  [n \in DOMAIN d.members |->
     SpelledString(d.members[n].key) \o << ":", " " >> \o spelled[d.members[n].value]]

(* What is written of a document of D is as long as its size. *)
Agree(D, spelled, sizes) == \A e \in D : Len(spelled[e]) = sizes[e]

(* What is written of the elements of a sequence is as long as counted. *)
LEMMA ItemsFit ==
  ASSUME NEW D, NEW d, d.items \in Seq(D), NEW sizes \in [D -> Nat],
         NEW spelled \in [D -> Seq(Output)], Agree(D, spelled, sizes)
  PROVE  /\ Measured(ItemTexts(d, spelled), ItemSizes(d, sizes))
         /\ Len(ItemTexts(d, spelled)) = Len(d.items)
<1> DEFINE ws == ItemTexts(d, spelled)
<1>1. DOMAIN ws = DOMAIN d.items /\ ws = [n \in DOMAIN d.items |-> ws[n]]
  BY DEF ItemTexts
<1>2. \A n \in DOMAIN d.items : ws[n] = spelled[d.items[n]] /\ d.items[n] \in D
  BY DEF ItemTexts
<1>3. \A n \in DOMAIN d.items : ItemSizes(d, sizes)[n] = sizes[d.items[n]]
  BY DEF ItemSizes
<1>4. DOMAIN d.items = 1 .. Len(d.items)
  OBVIOUS
<1> HIDE DEF ws
<1>5. \A n \in DOMAIN d.items : ws[n] \in Seq(Output) /\ Len(ws[n]) = ItemSizes(d, sizes)[n]
  BY <1>2, <1>3 DEF Agree
<1>6. ws \in Seq(Seq(Output)) /\ Len(ws) = Len(d.items)
  BY <1>1, <1>5, OnPlaces
<1>7. ItemSizes(d, sizes) \in Seq(Nat) /\ Len(ItemSizes(d, sizes)) = Len(d.items)
  BY SizesAreNat
<1>8. Measured(ws, ItemSizes(d, sizes))
  BY <1>4, <1>5, <1>6, <1>7 DEF Measured
<1> QED
  BY <1>6, <1>8 DEF ws

(* What is written of the members of a mapping is as long as counted. *)
LEMMA MembersFit ==
  ASSUME NEW D, NEW d, d.members \in Seq(MemberOf(D)), NEW sizes \in [D -> Nat],
         NEW spelled \in [D -> Seq(Output)], Agree(D, spelled, sizes)
  PROVE  /\ Measured(MemberTexts(d, spelled), MemberSizes(d, sizes))
         /\ Len(MemberTexts(d, spelled)) = Len(d.members)
<1> DEFINE ws == MemberTexts(d, spelled)
           colon == << ":", " " >>
<1>1. DOMAIN ws = DOMAIN d.members /\ ws = [n \in DOMAIN d.members |-> ws[n]]
  BY DEF MemberTexts
<1>2. colon \in Seq(Output) /\ Len(colon) = 2
  <2>1. ":" \in Output /\ " " \in Output
    BY DEF Output, Marks
  <2> QED
    BY <2>1, PairIs
<1>3. \A n \in DOMAIN d.members :
        ws[n] = SpelledString(d.members[n].key) \o colon \o spelled[d.members[n].value]
  BY DEF MemberTexts
<1>4. \A n \in DOMAIN d.members :
        MemberSizes(d, sizes)[n] = SizeOfString(d.members[n].key) + 2 + sizes[d.members[n].value]
  BY DEF MemberSizes
<1>5. DOMAIN d.members = 1 .. Len(d.members)
  OBVIOUS
<1> HIDE DEF ws, colon
<1>6. ASSUME NEW n \in DOMAIN d.members
      PROVE  ws[n] \in Seq(Output) /\ Len(ws[n]) = MemberSizes(d, sizes)[n]
  <2> DEFINE name == d.members[n].key
             value == d.members[n].value
             k == SpelledString(name)
             v == spelled[value]
  <2>1. name \in Seq(Chars) /\ value \in D
    <3>1. d.members[n] \in MemberOf(D)
      OBVIOUS
    <3> QED
      BY <3>1 DEF MemberOf
  <2> HIDE DEF name, value
  <2>2. k \in Seq(Output) /\ Len(k) = SizeOfString(name) /\ SizeOfString(name) \in Nat
    BY <2>1, StringFits, SizeOfStringIsNat
  <2>3. v \in Seq(Output) /\ Len(v) = sizes[value] /\ sizes[value] \in Nat
    BY <2>1 DEF Agree
  <2>4. ws[n] = k \o colon \o v
    BY <1>3 DEF name, value
  <2>5. MemberSizes(d, sizes)[n] = SizeOfString(name) + 2 + sizes[value]
    BY <1>4 DEF name, value
  <2> HIDE DEF k, v
  <2>6. k \o colon \in Seq(Output) /\ Len(k \o colon) = Len(k) + 2
    BY <2>2, <1>2, ConcatIs
  <2>7. k \o colon \o v \in Seq(Output) /\ Len(k \o colon \o v) = Len(k) + 2 + Len(v)
    BY <2>3, <2>6, ConcatIs
  <2> QED
    BY <2>2, <2>3, <2>4, <2>5, <2>7
<1>7. ws \in Seq(Seq(Output)) /\ Len(ws) = Len(d.members)
  BY <1>1, <1>6, OnPlaces
<1>8. MemberSizes(d, sizes) \in Seq(Nat) /\ Len(MemberSizes(d, sizes)) = Len(d.members)
  BY SizesAreNat
<1>9. Measured(ws, MemberSizes(d, sizes))
  BY <1>5, <1>6, <1>7, <1>8 DEF Measured
<1> QED
  BY <1>7, <1>9 DEF ws

(* A text between two brackets. *)
LEMMA BracketedIs ==
  ASSUME NEW S, NEW a \in S, NEW b \in S, NEW w \in Seq(S)
  PROVE  /\ << a >> \o w \o << b >> \in Seq(S)
         /\ Len(<< a >> \o w \o << b >>) = 2 + Len(w)
<1>1. << a >> \in Seq(S) /\ Len(<< a >>) = 1 /\ << b >> \in Seq(S) /\ Len(<< b >>) = 1
  OBVIOUS
<1> DEFINE p == << a >>
           q == << b >>
<1> HIDE DEF p, q
<1>2. p \o w \in Seq(S) /\ Len(p \o w) = 1 + Len(w)
  BY <1>1, ConcatIs DEF p
<1>3. p \o w \o q \in Seq(S) /\ Len(p \o w \o q) = (1 + Len(w)) + 1
  BY <1>1, <1>2, ConcatIs DEF q
<1>4. (1 + Len(w)) + 1 = 2 + Len(w)
  OBVIOUS
<1> QED
  BY <1>3, <1>4 DEF p, q

(* If its elements are written in as many characters as counted, so is the document. *)
LEMMA DocumentFits ==
  ASSUME NEW D, NEW d \in Deeper(D), NEW sizes \in [D -> Nat],
         NEW spelled \in [D -> Seq(Output)], Agree(D, spelled, sizes)
  PROVE  Spelled(d, spelled) \in Seq(Output) /\ Len(Spelled(d, spelled)) = SizeOf(d, sizes)
<1>1. CASE d \in AnyScalar /\ d.kind \notin {"sequence", "mapping"}
  BY <1>1, ScalarFits DEF Spelled, SizeOf
<1>2. CASE d.kind = "sequence" /\ d.items \in Seq(D)
  <2> DEFINE ws == ItemTexts(d, spelled)
             ns == ItemSizes(d, sizes)
  <2>1. Measured(ws, ns) /\ Len(ws) = Len(d.items)
    BY <1>2, ItemsFit
  <2>2. ns \in Seq(Nat) /\ Len(ns) = Len(d.items)
    BY <1>2, SizesAreNat
  <2>3. Spelled(d, spelled) = << "[" >> \o Joined(ws) \o << "]" >>
    BY <1>2 DEF Spelled, ItemTexts
  <2>4. SizeOf(d, sizes) = 2 + Total(ns) + Separators(Len(d.items))
    BY <1>2 DEF SizeOf, ItemSizes
  <2> HIDE DEF ws, ns
  <2>5. Joined(ws) \in Seq(Output) /\ Len(Joined(ws)) = Total(ns) + Separators(Len(d.items))
    BY <2>1, JoinedFits
  <2>6. "[" \in Output /\ "]" \in Output
    BY DEF Output, Marks
  <2>7. Total(ns) \in Nat /\ Separators(Len(d.items)) \in Nat
    BY <1>2, <2>2, TotalIsNat DEF Separators
  <2> DEFINE t == Joined(ws)
             u == << "[" >> \o t \o << "]" >>
  <2>8. u \in Seq(Output) /\ Len(u) = 2 + Len(t)
    <3> HIDE DEF t
    <3> QED
      BY <2>5, <2>6, BracketedIs DEF t
  <2>u. u = Spelled(d, spelled)
    BY <2>3
  <2> HIDE DEF u
  <2>9. 2 + (Total(ns) + Separators(Len(d.items))) = 2 + Total(ns) + Separators(Len(d.items))
    BY <2>7
  <2> QED
    BY <2>4, <2>5, <2>8, <2>9, <2>u
<1>3. CASE d.kind = "mapping" /\ d.members \in Seq(MemberOf(D))
  <2> DEFINE ws == MemberTexts(d, spelled)
             ns == MemberSizes(d, sizes)
  <2>1. Measured(ws, ns) /\ Len(ws) = Len(d.members)
    BY <1>3, MembersFit
  <2>2. ns \in Seq(Nat) /\ Len(ns) = Len(d.members)
    BY <1>3, SizesAreNat
  <2>3. Spelled(d, spelled) = << "{" >> \o Joined(ws) \o << "}" >>
    BY <1>3 DEF Spelled, MemberTexts
  <2>4. SizeOf(d, sizes) = 2 + Total(ns) + Separators(Len(d.members))
    BY <1>3 DEF SizeOf, MemberSizes
  <2> HIDE DEF ws, ns
  <2>5. Joined(ws) \in Seq(Output) /\ Len(Joined(ws)) = Total(ns) + Separators(Len(d.members))
    BY <2>1, JoinedFits
  <2>6. "{" \in Output /\ "}" \in Output
    BY DEF Output, Marks
  <2>7. Total(ns) \in Nat /\ Separators(Len(d.members)) \in Nat
    BY <1>3, <2>2, TotalIsNat DEF Separators
  <2> DEFINE t == Joined(ws)
             u == << "{" >> \o t \o << "}" >>
  <2>8. u \in Seq(Output) /\ Len(u) = 2 + Len(t)
    <3> HIDE DEF t
    <3> QED
      BY <2>5, <2>6, BracketedIs DEF t
  <2>u. u = Spelled(d, spelled)
    BY <2>3
  <2> HIDE DEF u
  <2>9. 2 + (Total(ns) + Separators(Len(d.members))) = 2 + Total(ns) + Separators(Len(d.members))
    BY <2>7
  <2> QED
    BY <2>4, <2>5, <2>8, <2>9, <2>u
<1> QED
  BY <1>1, <1>2, <1>3, DeeperCases

(* What is written is text. *)
LEMMA SpelledIsText ==
  ASSUME NEW D, NEW d \in Deeper(D), NEW spelled \in [D -> Seq(Output)]
  PROVE  Spelled(d, spelled) \in Seq(Output)
<1> DEFINE sizes == [e \in D |-> Len(spelled[e])]
<1>1. sizes \in [D -> Nat] /\ Agree(D, spelled, sizes)
  BY DEF Agree
<1> HIDE DEF sizes
<1> QED
  BY <1>1, DocumentFits

(* What is written of a document is made of what is written of the level below. *)
LEMMA SerializedDef ==
  /\ \A n \in Nat : Serialized[n] \in [Nested[n] -> Seq(Output)]
  /\ \A d \in AnyScalar : Serialized[0][d] = SpelledScalar(d)
  /\ \A n \in Nat \ {0} : \A d \in Nested[n] :
       Serialized[n][d] = Spelled(d, Serialized[n - 1])
<1> DEFINE V == Seq(Output)
           x == [d \in AnyScalar |-> SpelledScalar(d)]
           Above(n, g) == [d \in Nested[n] |-> Spelled(d, g)]
           Pairs == UNION {{<< n, g >> : g \in [Nested[n - 1] -> V]} : n \in Nat \ {0}}
           G == [q \in Pairs |-> Above(q[1], q[2])]
           Body(h) == [n \in Nat |-> IF n = 0 THEN x ELSE Above(n, h[n - 1])]
<1>1. x \in [Nested[0] -> V]
  BY NestedDef, ScalarFits
<1>2. ASSUME NEW n \in Nat \ {0}, NEW g \in [Nested[n - 1] -> V]
      PROVE  G[<< n, g >>] = Above(n, g) /\ Above(n, g) \in [Nested[n] -> V]
  <2>1. << n, g >> \in Pairs
    OBVIOUS
  <2>2. G[<< n, g >>] = Above(n, g)
    BY <2>1
  <2>3. \A d \in Nested[n] : Spelled(d, g) \in V
    BY NestedDef, SpelledIsText
  <2> QED
    BY <2>2, <2>3
<1> HIDE DEF G
<1>3. \A n \in Nat \ {0} : \A g \in [Nested[n - 1] -> V] : G[<< n, g >>] \in [Nested[n] -> V]
  BY <1>2
<1> HIDE DEF x, Above, V
<1>4. PICK f : LevelByLevel(f, Nested, V, x, G)
  BY <1>1, <1>3, LevelsExist
<1>5. \A n \in Nat \ {0} : f[n] = Above(n, f[n - 1])
  <2> TAKE n \in Nat \ {0}
  <2>1. n - 1 \in Nat
    OBVIOUS
  <2>2. f[n - 1] \in [Nested[n - 1] -> V] /\ f[n] = G[<< n, f[n - 1] >>]
    BY <1>4, <2>1 DEF LevelByLevel
  <2> QED
    BY <2>2, <1>2
<1>6. f = Body(f)
  BY <1>4, <1>5 DEF LevelByLevel
<1> DEFINE s == CHOOSE h : h = Body(h)
<1>7. Serialized = s
  BY DEF Serialized, x, Above
<1>8. s = Body(s)
  BY <1>6
<1> HIDE DEF s
<1>9. s[0] = x /\ \A n \in Nat \ {0} : s[n] = Above(n, s[n - 1])
  BY <1>8
<1>10. \A n \in Nat : s[n] \in [Nested[n] -> V]
  <2> DEFINE H == {n \in Nat : s[n] \in [Nested[n] -> V]}
  <2>1. 0 \in H
    BY <1>1, <1>9
  <2>2. ASSUME NEW n \in Nat, n \in H PROVE n + 1 \in H
    <3>1. n + 1 \in Nat \ {0} /\ (n + 1) - 1 = n /\ s[n] \in [Nested[n] -> V]
      BY <2>2
    <3>2. s[n + 1] = Above(n + 1, s[n])
      BY <1>9, <3>1
    <3>3. Above(n + 1, s[n]) \in [Nested[n + 1] -> V]
      BY <1>2, <3>1
    <3> QED
      BY <3>1, <3>2, <3>3
  <2>3. H \in SUBSET Nat
    OBVIOUS
  <2> HIDE DEF H
  <2>4. H = Nat
    BY <2>1, <2>2, <2>3, AllNumbers
  <2> QED
    BY <2>4 DEF H
<1>11. \A d \in AnyScalar : s[0][d] = SpelledScalar(d)
  BY <1>9 DEF x
<1>12. \A n \in Nat \ {0} : \A d \in Nested[n] : s[n][d] = Spelled(d, s[n - 1])
  BY <1>9 DEF Above
<1> QED
  BY <1>7, <1>10, <1>11, <1>12 DEF V

(* The two passes agree on every document, however deep. *)
LEMMA SerializedFits ==
  ASSUME NEW n \in Nat, NEW d \in Nested[n]
  PROVE  Len(Serialized[n][d]) = SerializedSize[n][d]
<1> DEFINE H == {k \in Nat : \A e \in Nested[k] : Len(Serialized[k][e]) = SerializedSize[k][e]}
<1>1. 0 \in H
  <2>1. ASSUME NEW e \in Nested[0] PROVE Len(Serialized[0][e]) = SerializedSize[0][e]
    <3>1. e \in AnyScalar
      BY NestedDef
    <3> QED
      BY <3>1, SerializedDef, SizesDef, ScalarFits
  <2> QED
    BY <2>1
<1>2. ASSUME NEW k \in Nat, k \in H PROVE k + 1 \in H
  <2>1. k + 1 \in Nat \ {0} /\ (k + 1) - 1 = k
    OBVIOUS
  <2>2. ASSUME NEW e \in Nested[k + 1]
        PROVE  Len(Serialized[k + 1][e]) = SerializedSize[k + 1][e]
    <3>1. e \in Deeper(Nested[k])
      BY <2>1, NestedDef
    <3>2. SerializedSize[k] \in [Nested[k] -> Nat] /\ Serialized[k] \in [Nested[k] -> Seq(Output)]
      BY SizesDef, SerializedDef
    <3>3. Serialized[k + 1][e] = Spelled(e, Serialized[k])
      BY <2>1, SerializedDef
    <3>4. SerializedSize[k + 1][e] = SizeOf(e, SerializedSize[k])
      BY <2>1, SizesDef
    <3>5. Agree(Nested[k], Serialized[k], SerializedSize[k])
      BY <1>2 DEF Agree
    <3>6. Len(Spelled(e, Serialized[k])) = SizeOf(e, SerializedSize[k])
      BY <3>1, <3>2, <3>5, DocumentFits
    <3> QED
      BY <3>3, <3>4, <3>6
  <2> QED
    BY <2>1, <2>2
<1>3. H \in SUBSET Nat
  OBVIOUS
<1> HIDE DEF H
<1>4. H = Nat
  BY <1>1, <1>2, <1>3, AllNumbers
<1> QED
  BY <1>4 DEF H

(***************************************************************************)
(* However deep a document is, however long its collections and whatever   *)
(* has to be escaped in its texts: the write pass writes as many           *)
(* characters as the size pass counted, and no view of it has fewer.       *)
(***************************************************************************)
THEOREM PassesAgree == Spec => []WritesExactlyLength
<1>1. IInv => WritesExactlyLength
  <2> SUFFICES ASSUME IInv, pc = "idle"
               PROVE  /\ Len(Content(target)) = Length(target)
                      /\ target.kind \in {"sequence", "mapping"} =>
                           Len(view.text) = Length(target)
    BY DEF WritesExactlyLength
  <2>1. Holds
    BY DEF IInv
  <2>2. target \in Nested[MaxNesting]
    <3>1. Null \in AnyScalar
      BY DEF Null, AnyScalar
    <3>2. AnyScalar \subseteq Nested[MaxNesting]
      BY NestedDef, NestingAssumption DEF Deeper
    <3> QED
      BY <2>1, <3>1, <3>2, DocsAssumption DEF Holds, Places
  <2>3. Len(Content(target)) = Length(target)
    BY <2>2, NestingAssumption, SerializedFits DEF Content, Length
  <2>4. target.kind \in {"sequence", "mapping"} => view.text = Content(target)
    BY <2>1 DEF Holds, ViewOf, SequenceView, MappingView
  <2> QED
    BY <2>3, <2>4
<1> QED
  BY InvHolds, <1>1, PTL

=============================================================================
