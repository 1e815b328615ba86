------------------------------- MODULE Views --------------------------------
(***************************************************************************)
(* The uniform views of types.hpp and views.hpp: a runtime key or index    *)
(* cannot select one of the values of a document, which all have types of  *)
(* their own, so it selects a view of it, with spans over the views of its *)
(* children.  Each type of container has one static array of those.        *)
(*                                                                         *)
(* A client holds a view and replaces it by one it finds in it, asks it    *)
(* for a key, and iterates over it; one action is one read.  Beside it     *)
(* goes the value that the typed accessors, get and value, lead to.        *)
(***************************************************************************)
EXTENDS Integers, Serialize

CONSTANTS
  Docs,   (* the document values, the children of each among them *)
  Asked,  (* the keys asked for *)
  Indices (* the indices asked for *)

IsDoc(d) ==
  /\ d.kind = "sequence" =>
       /\ Len(d.items) \in Nat
       /\ \A n \in 1 .. Len(d.items) : d.items[n] \in Docs
  /\ d.kind = "mapping" =>
       /\ Len(d.members) \in Nat
       /\ \A n \in 1 .. Len(d.members) : d.members[n].value \in Docs

ASSUME DocsAssumption == Docs \subseteq Nested[MaxNesting] /\ \A d \in Docs : IsDoc(d)

ASSUME IndicesAssumption == Indices \subseteq Nat

VARIABLES
  target, (* the value that the typed accessors lead to *)
  view,   (* value_view *)
  pc,
  key,    (* the key a loop looks for *)
  i,      (* the index of a loop *)
  upto,   (* its end *)
  seen,   (* what an iteration handed out *)
  answer  (* of contains *)

vars == << target, view, pc, key, i, upto, seen, answer >>

-----------------------------------------------------------------------------
(* The typed accessors, which are given the type of a container itself.    *)

Null == [kind |-> "null"]

(* size() *)
Size(d) ==
  CASE d.kind = "sequence" -> Len(d.items)
    [] d.kind = "mapping"  -> Len(d.members)
    [] OTHER               -> 0

(* contains<Name>, key_matches *)
HasMember(d, k) ==
  d.kind = "mapping" /\ \E n \in 1 .. Size(d) : d.members[n].key = k

(* find: the first that matches. *)
Find(d, k) ==
  d.members[CHOOSE n \in 1 .. Size(d) :
              /\ d.members[n].key = k
              /\ \A m \in 1 .. n - 1 : d.members[m].key # k].value

(* get<Index>, value<Index> *)
Nth(d, n) == IF d.kind = "sequence" THEN d.items[n + 1] ELSE d.members[n + 1].value

(* Where one of them would not compile, null. *)
ChildOf(d, k) == IF HasMember(d, k) THEN Find(d, k) ELSE Null
ChildAt(d, n) == IF n < Size(d) THEN Nth(d, n) ELSE Null

-----------------------------------------------------------------------------
(* view_maker *)

(* A pointer to the first element of the array of a type of container. *)
NullPointer == << >>
ArrayOf(d)  == << d >>

Literal(d) ==
  CASE d.kind = "boolean" -> IF d.value THEN << "t", "r", "u", "e" >> ELSE << "f", "a", "l", "s", "e" >>
    [] d.kind = "null"    -> << "n", "u", "l", "l" >>
    [] OTHER              -> d.text

ScalarView(d) ==
  [type |-> d.kind, text |-> Literal(d), member_data |-> NullPointer,
   element_data |-> NullPointer, child_count |-> 0]

SequenceView(d) ==
  [type |-> "sequence", text |-> Content(d), member_data |-> NullPointer,
   element_data |-> ArrayOf(d), child_count |-> Len(d.items)]

MappingView(d) ==
  [type |-> "mapping", text |-> Content(d), member_data |-> ArrayOf(d),
   element_data |-> NullPointer, child_count |-> Len(d.members)]

ViewOf(d) ==
  CASE d.kind = "sequence" -> SequenceView(d)
    [] d.kind = "mapping"  -> MappingView(d)
    [] OTHER               -> ScalarView(d)

(* value_view{} *)
NullView ==
  [type |-> "null", text |-> << "n", "u", "l", "l" >>, member_data |-> NullPointer,
   element_data |-> NullPointer, child_count |-> 0]

(* data[n] of the array p points to. *)
ElementAt(p, n) == ViewOf(p[1].items[n + 1])
MemberAt(p, n)  == [key |-> p[1].members[n + 1].key, value |-> ViewOf(p[1].members[n + 1].value)]

-----------------------------------------------------------------------------
Init ==
  /\ target \in Docs
  /\ view = ViewOf(target)
  /\ pc = "idle"
  /\ key = << >>
  /\ i = 0
  /\ upto = 0
  /\ seen = << >>
  /\ answer = FALSE

(* value_view::operator[](size_t) *)
Index(n) ==
  /\ pc = "idle"
  /\ view' = IF view.type = "sequence" /\ n < view.child_count
               THEN ElementAt(view.element_data, n)
             ELSE IF view.type = "mapping" /\ n < view.child_count
               THEN MemberAt(view.member_data, n).value
             ELSE NullView
  /\ target' = ChildAt(target, n)
  /\ UNCHANGED << pc, key, i, upto, seen, answer >>

(* The loops of operator[](std::string_view) and of contains. *)
Look(k, goal) ==
  /\ pc = "idle"
  /\ pc' = goal
  /\ key' = k
  /\ i' = 0
  /\ UNCHANGED << target, view, upto, seen, answer >>

(* Mutant: one member too many. *)
InMembersPast == view.type = "mapping" /\ i <= view.child_count

InMembers == view.type = "mapping" /\ i < view.child_count

Here == MemberAt(view.member_data, i)

Skip ==
  /\ pc \in {"lookup", "contains"}
  /\ InMembers
  /\ Here.key # key
  /\ i' = i + 1
  /\ UNCHANGED << target, view, pc, key, upto, seen, answer >>

(* Mutant: a mapping is not searched. *)
ContainedByKind(b) == view.type = "mapping"

Contained(b) == b

(* Mutant: a miss leads nowhere. *)
MissStays == view

Miss == NullView

LookupEnds ==
  /\ pc = "lookup"
  /\ IF InMembers
       THEN Here.key = key /\ view' = Here.value
       ELSE view' = Miss
  /\ target' = ChildOf(target, key)
  /\ pc' = "idle"
  /\ key' = << >>
  /\ i' = 0
  /\ UNCHANGED << upto, seen, answer >>

ContainsEnds ==
  /\ pc = "contains"
  /\ InMembers => Here.key = key
  /\ answer' = Contained(InMembers)
  /\ pc' = "answered"
  /\ UNCHANGED << target, view, key, i, upto, seen >>

(* Mutant: the last child is left out. *)
EndOfShort(p) == IF p = NullPointer \/ view.child_count = 0 THEN 0 ELSE view.child_count - 1

(* p + (p ? child_count : 0) *)
EndOf(p) == IF p = NullPointer THEN 0 ELSE view.child_count

(* begin and end of a view, and of the typed containers; items. *)
Iterate(over, p) ==
  /\ pc = "idle"
  /\ pc' = over
  /\ i' = 0
  /\ upto' = EndOf(p)
  /\ seen' = << >>
  /\ UNCHANGED << target, view, key, answer >>

NextElement ==
  /\ pc = "elements"
  /\ i < upto
  /\ seen' = Append(seen, ElementAt(view.element_data, i))
  /\ i' = i + 1
  /\ UNCHANGED << target, view, pc, key, upto, answer >>

NextMember ==
  /\ pc = "items"
  /\ i < upto
  /\ seen' = Append(seen, MemberAt(view.member_data, i))
  /\ i' = i + 1
  /\ UNCHANGED << target, view, pc, key, upto, answer >>

(* The client goes on with the view it holds. *)
GoOn ==
  /\ \/ pc \in {"elements", "items"} /\ i = upto
     \/ pc = "answered"
  /\ pc' = "idle"
  /\ key' = << >>
  /\ i' = 0
  /\ upto' = 0
  /\ seen' = << >>
  /\ answer' = FALSE
  /\ UNCHANGED << target, view >>

Next ==
  \/ \E n \in Indices : Index(n)
  \/ \E k \in Asked, goal \in {"lookup", "contains"} : Look(k, goal)
  \/ Skip
  \/ LookupEnds
  \/ ContainsEnds
  \/ Iterate("elements", view.element_data)
  \/ Iterate("items", view.member_data)
  \/ NextElement
  \/ NextMember
  \/ GoOn

Spec == Init /\ [][Next]_vars

-----------------------------------------------------------------------------
(***************************************************************************)
(* Properties.                                                             *)
(***************************************************************************)

(***************************************************************************)
(* No loop reads through a null pointer or past an array: not when a       *)
(* sequence is asked for its items, a mapping for its elements, or a view  *)
(* that a miss left behind for anything.                                   *)
(***************************************************************************)
Inside(p, n) == p # NullPointer /\ n < Size(p[1])

ReadsInside ==
  /\ pc \in {"lookup", "contains"} /\ InMembers => Inside(view.member_data, i)
  /\ pc = "elements" /\ i < upto => Inside(view.element_data, i)
  /\ pc = "items" /\ i < upto => Inside(view.member_data, i)

(***************************************************************************)
(* A chain of keys and indices, in any order and with any misses on the    *)
(* way, leads where get and value lead: to the view of that value, or, as  *)
(* soon as one of them would not compile, to that of null and no further.  *)
(***************************************************************************)
FollowsPath == pc = "idle" => view = ViewOf(target)

(***************************************************************************)
(* contains is TRUE of exactly the keys that get would compile for: it     *)
(* tells a member that is null from a miss, which no view does.            *)
(***************************************************************************)
TellsMisses == pc = "answered" => answer = HasMember(target, key)

(***************************************************************************)
(* An iteration hands out what for_each is invoked with, in its order, and *)
(* every one of them: elements of a sequence, members of a mapping, and    *)
(* nothing from a view iterated as the other, nor of a scalar.             *)
(***************************************************************************)
VisitsEach ==
  /\ pc = "elements" /\ i = upto =>
       seen = IF target.kind # "sequence" THEN << >>
              ELSE [n \in 1 .. Size(target) |-> ViewOf(target.items[n])]
  /\ pc = "items" /\ i = upto =>
       seen = IF target.kind # "mapping" THEN << >>
              ELSE [n \in 1 .. Size(target) |->
                      [key   |-> target.members[n].key,
                       value |-> ViewOf(target.members[n].value)]]

(***************************************************************************)
(* The two passes agree to the byte: the write pass stays in the array and *)
(* leaves its last byte, and no other, for the terminating zero; and the   *)
(* text of a view of a collection is what they wrote.                      *)
(***************************************************************************)
WritesExactlyLength ==
  pc = "idle" =>
    /\ Len(Content(target)) = Length(target)
    /\ target.kind \in {"sequence", "mapping"} => Len(view.text) = Length(target)

=============================================================================
