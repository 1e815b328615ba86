---------------------------- MODULE BlockBinder ----------------------------
(***************************************************************************)
(* The block structure pass of include/ctyaml/bind.hpp: recursive descent  *)
(* over the line list, by template instantiation.                          *)
(*                                                                         *)
(* The compiler's instantiation stack is explicit.  A frame is a map_loop  *)
(* or seq_loop that has been entered: its indent I, its folded Ok, and for *)
(* a mapping the key whose value is being bound.  The members or items the *)
(* loop has collected are the top of built.  rest is the Lines parameter   *)
(* handed along, pc says which template is instantiated next:              *)
(*                                                                         *)
(*   "start"   bind<Tree>::make             "loop"    the top frame's loop *)
(*   "block"   parse_block on rest          "return"  blk is delivered     *)
(*   "nested"  nested_value for the top frame         "done"               *)
(***************************************************************************)
EXTENDS Lines

CONSTANT Docs (* the line lists the gather pass may hand over *)

ASSUME DocsAssumption == Docs \subseteq Seq(Line)

VARIABLES
  lines,    (* gathered_t::lines, fixed *)
  rest,     (* the lines not yet consumed *)
  frames,   (* the loops entered, outermost first *)
  built,    (* what each of them has collected *)
  pc,       (* the template instantiated next *)
  blk       (* the type and ok of the last blk *)

vars == << lines, rest, frames, built, pc, blk >>

Frame ==
  [kind : {"map", "seq"}, indent : Nat, ok : BOOLEAN, key : Keys \cup {NoKey}]

FrameOf(k, i, ok, key) == [kind |-> k, indent |-> i, ok |-> ok, key |-> key]

Top     == frames[Len(frames)]
Current == Head(rest)

Init ==
  /\ lines \in Docs
  /\ rest = lines
  /\ frames = << >>
  /\ built = << >>
  /\ pc = "start"
  /\ blk = [type |-> Null, ok |-> TRUE]

-----------------------------------------------------------------------------
(* Steps the actions share. *)

(* A loop is entered at indent i with nothing collected. *)
Enter(k, i) ==
  /\ frames' = Append(frames, FrameOf(k, i, TRUE, NoKey))
  /\ built' = Append(built, << >>)
  /\ pc' = "loop"
  /\ UNCHANGED << lines, rest, blk >>

(* A blk comes back to whoever asked for it. *)
Answer(t, ok, left) ==
  /\ blk' = [type |-> t, ok |-> ok]
  /\ rest' = left
  /\ pc' = "return"
  /\ UNCHANGED lines

(* The loop on top ends with the same. *)
Leave(t, ok, left) ==
  /\ Answer(t, ok, left)
  /\ frames' = SubSeq(frames, 1, Len(frames) - 1)
  /\ built' = SubSeq(built, 1, Len(built) - 1)

(* The loop on top folds ok in and waits for the value of key. *)
Fold(ok, key) ==
  frames' = [frames EXCEPT ![Len(frames)] =
               FrameOf(Top.kind, Top.indent, Top.ok /\ ok, key)]

(* The loop on top goes around with x collected and ok folded in. *)
Collect(x, ok) ==
  /\ built' = [built EXCEPT ![Len(built)] = Append(@, x)]
  /\ Fold(ok, NoKey)
  /\ pc' = "loop"

-----------------------------------------------------------------------------
(* bind<Tree>::make: an empty document is null. *)
BindEmpty ==
  /\ pc = "start"
  /\ rest = << >>
  /\ pc' = "done"
  /\ blk' = [type |-> Null, ok |-> TRUE]
  /\ UNCHANGED << lines, rest, frames, built >>

(* Mutant: the check for an empty document is forgotten. *)
BindBodyAlways ==
  /\ pc = "start"
  /\ pc' = "block"
  /\ UNCHANGED << lines, rest, frames, built, blk >>

BindBody ==
  /\ pc = "start"
  /\ rest # << >>
  /\ pc' = "block"
  /\ UNCHANGED << lines, rest, frames, built, blk >>

(* A line left over at the root is an error. *)
BindFinish ==
  /\ pc = "return"
  /\ frames = << >>
  /\ pc' = "done"
  /\ blk' = [type |-> blk.type, ok |-> blk.ok /\ rest = << >>]
  /\ rest' = << >>
  /\ UNCHANGED << lines, frames, built >>

-----------------------------------------------------------------------------
(* parse_block: the head line decides what the block is. *)
ParseBlockPair ==
  /\ pc = "block"
  /\ rest # << >>
  /\ NodeIsPair(Current)
  /\ Enter("map", Current.indent)

ParseBlockSeqitem ==
  /\ pc = "block"
  /\ rest # << >>
  /\ NodeIsSeqitem(Current)
  /\ Enter("seq", Current.indent)

ParseBlockValue ==
  /\ pc = "block"
  /\ rest # << >>
  /\ ~ NodeIsPair(Current)
  /\ ~ NodeIsSeqitem(Current)
  /\ Answer(Current.leaf.val, Current.leaf.valOk, Tail(rest))
  /\ UNCHANGED << frames, built >>

-----------------------------------------------------------------------------
(* nested_value: what a `key:` or a `-` with nothing after it stands for.  *)

(* Mutant: a dash alone asks for it as well. *)
SameIndentSeqOfAny ==
  Current.indent = Top.indent /\ NodeIsSeqitem(Current)

(* Only a mapping asks for the sequence at its own indent (S = true). *)
SameIndentSeq ==
  /\ Top.kind = "map"
  /\ Current.indent = Top.indent
  /\ NodeIsSeqitem(Current)

(* Mutant: nested_value asks for itself instead of parse_block. *)
NestedAgain ==
  /\ pc = "nested"
  /\ rest # << >>
  /\ Current.indent > Top.indent
  /\ UNCHANGED vars

NestedDeeper ==
  /\ pc = "nested"
  /\ rest # << >>
  /\ Current.indent > Top.indent
  /\ pc' = "block"
  /\ UNCHANGED << lines, rest, frames, built, blk >>

NestedSameIndentSeq ==
  /\ pc = "nested"
  /\ rest # << >>
  /\ ~ Current.indent > Top.indent
  /\ SameIndentSeq
  /\ Enter("seq", Top.indent)

NestedNull ==
  /\ pc = "nested"
  /\ rest # << >> => ~ Current.indent > Top.indent /\ ~ SameIndentSeq
  /\ Answer(Null, TRUE, rest)
  /\ UNCHANGED << frames, built >>

-----------------------------------------------------------------------------
(* Both loops: a deeper line where an entry was expected belongs to        *)
(* nothing; the error answer throws the collected members away, and the    *)
(* remaining lines with them.                                              *)
Deeper == rest # << >> /\ Current.indent > Top.indent

LoopDeeper ==
  /\ pc = "loop"
  /\ Deeper
  /\ Leave(Null, FALSE, << >>)

(* map_loop: pair lines at one indent. *)
MapEnds == rest # << >> => Current.indent < Top.indent \/ ~ NodeIsPair(Current)

MapEnd ==
  /\ pc = "loop" /\ Top.kind = "map"
  /\ ~ Deeper
  /\ MapEnds
  /\ LET ms == built[Len(built)]
     IN  Leave(Mapping(ms), Top.ok /\ MembersUnique(ms), rest)

(* Mutant: the entry hands its own line along with the rest. *)
MapEntryValueStays ==
  /\ pc = "loop" /\ Top.kind = "map"
  /\ ~ Deeper /\ ~ MapEnds
  /\ Current.leaf.kind = "member"
  /\ LET c == Current.leaf
     IN  Collect(Member(c.key, c.val), c.keyOk /\ c.valOk)
  /\ UNCHANGED << lines, rest, blk >>

(* map_entry of `key: value`. *)
MapEntryValue ==
  /\ pc = "loop" /\ Top.kind = "map"
  /\ ~ Deeper /\ ~ MapEnds
  /\ Current.leaf.kind = "member"
  /\ LET c == Current.leaf
     IN  Collect(Member(c.key, c.val), c.keyOk /\ c.valOk)
  /\ rest' = Tail(rest)
  /\ UNCHANGED << lines, blk >>

(* Mutant: key::ok is not folded in. *)
MapEntryNestedAnyKey ==
  /\ pc = "loop" /\ Top.kind = "map"
  /\ ~ Deeper /\ ~ MapEnds
  /\ Current.leaf.kind = "pair"
  /\ Fold(TRUE, Current.leaf.key)
  /\ rest' = Tail(rest)
  /\ pc' = "nested"
  /\ UNCHANGED << lines, built, blk >>

(* map_entry of `key:`: its value is what nested_value finds. *)
MapEntryNested ==
  /\ pc = "loop" /\ Top.kind = "map"
  /\ ~ Deeper /\ ~ MapEnds
  /\ Current.leaf.kind = "pair"
  /\ Fold(Current.leaf.keyOk, Current.leaf.key)
  /\ rest' = Tail(rest)
  /\ pc' = "nested"
  /\ UNCHANGED << lines, built, blk >>

(* ... and the rest of that map_entry, once the value is bound. *)
MapEntryResume ==
  /\ pc = "return"
  /\ frames # << >> /\ Top.kind = "map"
  /\ Collect(Member(Top.key, blk.type), blk.ok)
  /\ UNCHANGED << lines, rest, blk >>

-----------------------------------------------------------------------------
(* seq_loop: dash lines at one indent. *)
SeqEnds == rest # << >> => Current.indent < Top.indent \/ ~ NodeIsSeqitem(Current)

SeqEnd ==
  /\ pc = "loop" /\ Top.kind = "seq"
  /\ ~ Deeper
  /\ SeqEnds
  /\ Leave(Sequence(built[Len(built)]), Top.ok, rest)

(* seq_entry of a dash alone: the deeper block that follows, or null. *)
SeqEntryAlone ==
  /\ pc = "loop" /\ Top.kind = "seq"
  /\ ~ Deeper /\ ~ SeqEnds
  /\ ~ HasInner(Current)
  /\ rest' = Tail(rest)
  /\ pc' = "nested"
  /\ UNCHANGED << lines, frames, built, blk >>

(* seq_entry of `- content`: the content re-enters as a synthetic line. *)
SeqEntryInner ==
  /\ pc = "loop" /\ Top.kind = "seq"
  /\ ~ Deeper /\ ~ SeqEnds
  /\ HasInner(Current)
  /\ rest' = << Synthetic(Current) >> \o Tail(rest)
  /\ pc' = "block"
  /\ UNCHANGED << lines, frames, built, blk >>

(* ... and the rest of either seq_entry, once the item is bound. *)
SeqEntryResume ==
  /\ pc = "return"
  /\ frames # << >> /\ Top.kind = "seq"
  /\ Collect(blk.type, blk.ok)
  /\ UNCHANGED << lines, rest, blk >>

-----------------------------------------------------------------------------
(* The instantiation is over; anything else that cannot step is a missing  *)
(* specialisation, a hard compile error, and TLC reports it as a deadlock. *)
Terminated == pc = "done" /\ UNCHANGED vars

Next ==
  \/ BindEmpty \/ BindBody \/ BindFinish
  \/ ParseBlockPair \/ ParseBlockSeqitem \/ ParseBlockValue
  \/ NestedDeeper \/ NestedSameIndentSeq \/ NestedNull
  \/ LoopDeeper
  \/ MapEnd \/ MapEntryValue \/ MapEntryNested \/ MapEntryResume
  \/ SeqEnd \/ SeqEntryAlone \/ SeqEntryInner \/ SeqEntryResume
  \/ Terminated

Spec == Init /\ [][Next]_vars

(* The compiler instantiates what is asked for: it never stops half way. *)
FairSpec == Spec /\ WF_vars(Next)

-----------------------------------------------------------------------------
(***************************************************************************)
(* Properties.                                                             *)
(***************************************************************************)

(* s is a finite sequence, of whatever. *)
IsSequence(s) == s \in Seq({s[i] : i \in DOMAIN s})

(* The loop of frame i is suspended while something inside it is bound. *)
Suspended(i) == i < Len(frames) \/ pc \in {"block", "nested", "return"}

(***************************************************************************)
(* The types, and what each template takes for granted when instantiated:  *)
(* parse_block has a line to look at, nested_value and the loops have a    *)
(* loop to go back to, and map_loop holds a key while it waits for that    *)
(* key's value, and no longer.                                             *)
(***************************************************************************)
TypeOK ==
  /\ lines \in Docs
  /\ rest \in Seq(Line)
  /\ frames \in Seq(Frame)
  /\ IsSequence(built) /\ Len(built) = Len(frames)
  /\ \A i \in 1 .. Len(frames) : IsSequence(built[i])
  /\ pc \in {"start", "block", "nested", "loop", "return", "done"}
  /\ blk.ok \in BOOLEAN
  /\ pc = "block" => rest # << >>
  /\ pc \in {"nested", "loop"} => frames # << >>
  /\ pc \in {"start", "done"} => frames = << >>
  /\ \A i \in 1 .. Len(frames) :
       frames[i].key \in Keys <=> frames[i].kind = "map" /\ Suspended(i)

(***************************************************************************)
(* An inner block stands deeper than the block around it, except that a    *)
(* sequence may stand at the indent of the mapping whose key it is for:    *)
(* whatever the lines are, no mapping is ever nested at its own indent, no *)
(* sequence in a sequence at the same column, and a compact `- - x` opens  *)
(* its loops at the columns of its dashes.                                 *)
(***************************************************************************)
Inside(f, g) ==
  f.indent < g.indent \/ (f.indent = g.indent /\ f.kind = "map" /\ g.kind = "seq")

NestingFollowsIndent ==
  /\ \A i, j \in 1 .. Len(frames) : i < j => Inside(frames[i], frames[j])
  /\ pc = "block" =>
       \A i \in 1 .. Len(frames) : frames[i].indent < Current.indent

(***************************************************************************)
(* A loop that has collected nothing has an entry of its kind before it:   *)
(* the descent enters map_loop and seq_loop on the line they are for, so a *)
(* block never binds as an empty mapping or an empty sequence, and never   *)
(* ends without having consumed a line.                                    *)
(***************************************************************************)
LoopsHaveEntries ==
  pc = "loop" /\ built[Len(built)] = << >> =>
    /\ rest # << >>
    /\ Current.indent = Top.indent
    /\ IF Top.kind = "map" THEN NodeIsPair(Current) ELSE NodeIsSeqitem(Current)

(* Somewhere an ok is false already: in a loop's fold or in the answer. *)
Failing ==
  \/ \E i \in 1 .. Len(frames) : ~ frames[i].ok
  \/ pc \in {"return", "done"} /\ ~ blk.ok

(* A key or a value of this leaf failed to decode or to bind. *)
BadLeaf(f) ==
  \/ f.kind \in {"pair", "member"} /\ ~ f.keyOk
  \/ f.kind \in {"member", "value"} /\ ~ f.valOk

(***************************************************************************)
(* The fold loses nothing: once a line whose key or value is bad has been  *)
(* consumed, the document is on its way to being rejected, however deep    *)
(* the line was, even when its block is thrown away by a later error.      *)
(* What is not consumed yet are the last leaves of the line list, in       *)
(* order: no line is skipped and none is bound twice.                      *)
(***************************************************************************)
Consumed == Len(lines) - Len(rest)

BadScalarsReject ==
  \/ Failing
  \/ /\ Consumed >= 0
     /\ \A i \in 1 .. Consumed : ~ BadLeaf(lines[i].leaf)
     /\ \A i \in 1 .. Len(rest) : rest[i].leaf = lines[Consumed + i].leaf

(* A failure is final: no step makes a failing document a good one again. *)
FailureSticks == [][Failing => Failing']_vars

(***************************************************************************)
(* The instantiation is well-founded: every step consumes a line, or       *)
(* unwraps a dash of the head line, or moves on within the loops entered.  *)
(* So is_valid instantiates finitely many templates, whatever the text     *)
(* (README: malformed documents are never a hard error).                   *)
(***************************************************************************)
Dashes == IF rest = << >> THEN 0 ELSE Len(Current.dashes)

Weight == [start |-> 6, nested |-> 5, block |-> 4, return |-> 2, loop |-> 1, done |-> 0]

Work == 2 * Len(frames) + Weight[pc]

Descends ==
  \/ Len(rest') < Len(rest)
  \/ Len(rest') = Len(rest) /\ Dashes' < Dashes
  \/ Len(rest') = Len(rest) /\ Dashes' = Dashes /\ Work' < Work

StepsDescend == [][Descends]_vars

(***************************************************************************)
(* Every document is decided, accepted or rejected.  Together with the     *)
(* absence of deadlock: no line list reaches a template that has no        *)
(* specialisation for it, and the instantiation comes to an end.           *)
(***************************************************************************)
AlwaysDecides == <>(pc = "done")

=============================================================================
