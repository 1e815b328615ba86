------------------------------ MODULE Document ------------------------------
(***************************************************************************)
(* bind<Tree> as a whole, with bind_error behind it: the gather pass over  *)
(* the segments of a parse tree, the block binder on the lines it makes,   *)
(* and the diagnosis doc_fail gives of a document that is rejected.        *)
(*                                                                         *)
(* The segments of tree<start, Segs...> are NL tokens and content nodes.   *)
(* `---` and comments leave nothing in the tree.  Beside what the binder   *)
(* sees of it, a content node has what the gather pass and the diagnosis   *)
(* look at: whether it is the plain scalar `...`, and whether a token in   *)
(* its value is a double-quoted scalar that fails to decode.               *)
(***************************************************************************)
EXTENDS Lines

CONSTANTS
  Texts,    (* the segment lists of the parse trees *)
  FlowDepth (* how deep flow collections are nested in one another *)

(* The types of collections nested at most n deep. *)
Types[n \in Nat] ==
  IF n = 0 THEN {v \in Vals : v.kind \notin {"sequence", "mapping"}} \cup {Null}
  ELSE LET inner == Types[n - 1]
       IN  inner \cup [kind : {"sequence"}, items : Seq(inner)]
             \cup [kind : {"mapping"}, members : Seq([key : Keys, value : inner])]

ASSUME ValsAssumption == FlowDepth \in Nat /\ Vals \subseteq Types[FlowDepth]

(* What a type is made of, and what stands at the end of a path into it:   *)
(* null where the path leads out of it.                                    *)
PartsOf(t) ==
  CASE t.kind = "sequence" -> t.items
    [] t.kind = "mapping"  -> [i \in DOMAIN t.members |-> t.members[i].value]
    [] OTHER               -> << >>

PartAt(t, path) ==
  LET step(part, i) == IF i \in DOMAIN PartsOf(part) THEN PartsOf(part)[i] ELSE Null
      at[n \in 0 .. Len(path)] == IF n = 0 THEN t ELSE step(at[n - 1], path[n])
  IN  at[Len(path)]

(* The keys that come twice in a mapping, and in any mapping of a type. *)
OwnRepeats(t) ==
  IF t.kind # "mapping" THEN {}
  ELSE {t.members[p[1]].key : p \in {q \in (DOMAIN t.members) \X (DOMAIN t.members) :
          q[1] < q[2] /\ t.members[q[1]].key = t.members[q[2]].key}}

RepeatedKeys(t) ==
  LET keys[path \in Seq(Nat)] ==
        LET part == PartAt(t, path)
        IN  OwnRepeats(part)
              \cup UNION {keys[Append(path, i)] : i \in DOMAIN PartsOf(part)}
  IN  keys[<< >>]

NlToken == [nl : {TRUE}, cr : BOOLEAN, spaces : Nat]

(* column is where the content stands in the text. *)
ContentNode ==
  {c \in [nl : {FALSE}, column : Nat, dashes : Seq(Nat \ {0}), leaf : Leaf,
          dots : BOOLEAN, escVal : BOOLEAN] :
     c.leaf.kind = "none" => c.dashes # << >>}

(* The ok of bind_value: no bad escape, and no flow mapping repeats a key. *)
FlagsAgree(c) ==
  IF c.leaf.kind \in {"member", "value"}
    THEN c.leaf.valOk <=> ~ c.escVal /\ RepeatedKeys(c.leaf.val) = {}
    ELSE ~ c.escVal

(* Every line but the first is an NL token and then perhaps its content. *)
LineByLine(t) ==
  \A i \in DOMAIN t :
    ~ t[i].nl /\ i > 1 => t[i - 1].nl /\ t[i].column = t[i - 1].spaces

ASSUME TextsAssumption ==
  /\ Texts \subseteq Seq(NlToken \cup ContentNode)
  /\ \A t \in Texts :
       LineByLine(t) /\ \A i \in DOMAIN t : ~ t[i].nl => FlagsAgree(t[i])

VARIABLES
  segs,     (* Segs, fixed *)
  todo,     (* the segments gather has not looked at *)
  cur,      (* Cur, the indent of the line being read *)
  gatherOk, (* gathered_t::ok *)
  lines,    (* gathered_t::lines *)
  rest, frames, built, pc, blk, (* the block binder *)
  report    (* what bind_error answers *)

gatherVars == << segs, todo, cur, gatherOk >>
binderVars == << lines, rest, frames, built, pc, blk >>
vars == << gatherVars, binderVars, report >>

Binder == INSTANCE BlockBinder WITH Docs <- Seq(Line)

NoReport == [reason |-> "pending"]
Failure(r, w) == [reason |-> r, where |-> w]
NoFailure == Failure("none", "")

Init ==
  /\ segs \in Texts
  /\ todo = segs
  /\ cur = 0
  /\ gatherOk = TRUE
  /\ lines = << >> /\ rest = << >>
  /\ frames = << >> /\ built = << >>
  /\ pc = "gather"
  /\ blk = [type |-> Null, ok |-> TRUE]
  /\ report = NoReport

-----------------------------------------------------------------------------
(* gather *)

(***************************************************************************)
(* nl_indent: what follows the newline.  The token starts with \r or not,  *)
(* so the newline is looked for.                                           *)
(***************************************************************************)
NlSize(t)  == (IF t.cr THEN 1 ELSE 0) + 1 + t.spaces
NewlineAt(t) == IF t.cr THEN 1 ELSE 0
(* Mutant: the token is taken to start with \n. *)
NlIndentNoCr(t) == NlSize(t) - 1

NlIndent(t) == NlSize(t) - NewlineAt(t) - 1

GatherNl ==
  /\ pc = "gather"
  /\ todo # << >>
  /\ Head(todo).nl
  /\ cur' = NlIndent(Head(todo))
  /\ todo' = Tail(todo)
  /\ UNCHANGED << segs, gatherOk, binderVars, report >>

(* node_is_doc_end: the scalar by itself, not in a pair or behind a dash. *)
NodeIsDocEnd(c) == c.dots

GatherContent ==
  /\ pc = "gather"
  /\ todo # << >>
  /\ ~ Head(todo).nl
  /\ LET c == Head(todo)
     IN  /\ lines' = Append(lines, [indent |-> cur, dashes |-> c.dashes, leaf |-> c.leaf])
         /\ gatherOk' = (gatherOk /\ ~ (cur = 0 /\ NodeIsDocEnd(c)))
  /\ todo' = Tail(todo)
  /\ UNCHANGED << segs, cur, rest, frames, built, pc, blk, report >>

GatherEnd ==
  /\ pc = "gather"
  /\ todo = << >>
  /\ pc' = "start"
  /\ rest' = lines
  /\ UNCHANGED << gatherVars, lines, frames, built, blk, report >>

(* The block binder runs on what was gathered. *)
Bind ==
  /\ pc \notin {"gather", "done"}
  /\ Binder!Next
  /\ UNCHANGED << gatherVars, report >>

(* bind<Tree>::ok folds the gather flag in. *)
BoundOk == gatherOk /\ blk.ok

-----------------------------------------------------------------------------
(* The diagnosis. *)

(* The first failure of a list, in order. *)
FirstFail(fs) ==
  LET bad == {i \in DOMAIN fs : fs[i] # NoFailure}
  IN  IF bad = {} THEN NoFailure
      ELSE fs[CHOOSE i \in bad : \A j \in bad : i <= j]

(* Mutant: keys are not scanned. *)
ScanContentValuesOnly(i, c) ==
  IF c.escVal THEN Failure("bad_escape", << i, "value" >>) ELSE NoFailure

(* scan_node: a bad token is named by its segment and its place in it. *)
ScanContent(i, c) ==
  FirstFail(<<
    IF c.leaf.kind \in {"pair", "member"} /\ ~ c.leaf.keyOk
      THEN Failure("bad_escape", << i, "key" >>) ELSE NoFailure,
    IF c.escVal THEN Failure("bad_escape", << i, "value" >>) ELSE NoFailure >>)

ScanNode ==
  FirstFail([i \in DOMAIN segs |->
               IF segs[i].nl THEN NoFailure ELSE ScanContent(i, segs[i])])

(* Mutant: a key is compared with itself. *)
MapOwnDupWithItself(ms) ==
  IF ms = << >> THEN NoFailure ELSE Failure("duplicate_key", ms[1].key)

(* map_own_dup: the first key that comes again later, of any. *)
MapOwnDup(ms) ==
  LET pairs == {p \in (DOMAIN ms) \X (DOMAIN ms) :
                  p[1] < p[2] /\ ms[p[1]].key = ms[p[2]].key}
      first == CHOOSE p \in pairs :
                 \A q \in pairs : p[1] < q[1] \/ (p[1] = q[1] /\ p[2] <= q[2])
  IN  IF pairs = {} THEN NoFailure
      ELSE Failure("duplicate_key", ms[first[2]].key)

(* dup_scan: a mapping's own keys before those of its values. *)
DupScan(t) ==
  LET scan[path \in Seq(Nat)] ==
        LET part == PartAt(t, path)
            own == IF part.kind = "mapping" THEN MapOwnDup(part.members) ELSE NoFailure
        IN  FirstFail(<< own >> \o
                      [i \in DOMAIN PartsOf(part) |-> scan[Append(path, i)]])
  IN  scan[<< >>]

(* doc_fail, in check order. *)
DocFail ==
  IF BoundOk THEN NoFailure
  ELSE IF ScanNode # NoFailure THEN ScanNode
  ELSE IF ~ gatherOk THEN Failure("doc_end", "...")
  ELSE IF DupScan(blk.type) # NoFailure THEN DupScan(blk.type)
  ELSE Failure("bad_indent", "")

Diagnose ==
  /\ pc = "done"
  /\ report = NoReport
  /\ report' = DocFail
  /\ UNCHANGED << gatherVars, binderVars >>

Terminated == report # NoReport /\ UNCHANGED vars

Next ==
  \/ GatherNl \/ GatherContent \/ GatherEnd
  \/ Bind
  \/ Diagnose
  \/ Terminated

Spec == Init /\ [][Next]_vars

-----------------------------------------------------------------------------
(***************************************************************************)
(* Properties.                                                             *)
(***************************************************************************)

Tree == INSTANCE IndentTree WITH Docs <- Seq(Line), outcome <- report

(* Where among the first n segments content nodes are, in order. *)
PlacesUpTo ==
  LET places[n \in 0 .. Len(segs)] ==
        IF n = 0 THEN << >>
        ELSE IF segs[n].nl THEN places[n - 1]
        ELSE Append(places[n - 1], n)
  IN  places

Places == PlacesUpTo[Len(segs)]

(* The content nodes of the text, in order. *)
Contents == [i \in DOMAIN Places |-> segs[Places[i]]]

(* Content i stands behind a newline, not on the first line of the text. *)
AfterNl(i) == \E a \in 1 .. Places[i] : segs[a].nl

(***************************************************************************)
(* The gather pass keeps every content node, in order, and gives it the    *)
(* column it has in the text, with either kind of newline and whatever     *)
(* blank lines come in between.  (The first line has no newline to carry   *)
(* an indent: it is taken to be at 0.)                                     *)
(***************************************************************************)
IndentIsColumn ==
  pc # "gather" =>
    /\ Len(lines) = Len(Contents)
    /\ \A i \in DOMAIN lines :
         /\ lines[i].leaf = Contents[i].leaf
         /\ lines[i].indent = IF AfterNl(i) THEN Contents[i].column ELSE 0

Repeats(k) ==
  \/ Tree!Repeated(Tree!Nodes(lines), k)
  \/ \E i \in DOMAIN lines :
       /\ lines[i].leaf.kind \in {"member", "value"}
       /\ k \in RepeatedKeys(lines[i].leaf.val)

WellIndented == Tree!WellIndented(Tree!Nodes(lines))

(***************************************************************************)
(* bind_error names a reason exactly when is_valid says no, and what it    *)
(* says of a rejected document is true of its text, though the duplicates  *)
(* are looked for in a bound type that an indentation error has thrown     *)
(* parts of away: a duplicate key is named only when entries of one        *)
(* mapping of the text share it, and bad_indent, which is what is left     *)
(* when nothing else was found, is said only of a text whose lines really  *)
(* have no place in one tree.                                              *)
(***************************************************************************)
BlameIsReal ==
  report # NoReport =>
    /\ report = NoFailure <=> BoundOk
    /\ report.reason = "duplicate_key" => Repeats(report.where)
    /\ report.reason = "bad_indent" => ~ WellIndented

(***************************************************************************)
(* A document that is not rejected has none of the faults, and one whose   *)
(* lines nest is told its real fault: a bad escape anywhere before a       *)
(* document-end marker, that before a duplicate key.                       *)
(***************************************************************************)
BadEscape ==
  \E i \in DOMAIN Contents :
    Contents[i].escVal \/
    (Contents[i].leaf.kind \in {"pair", "member"} /\ ~ Contents[i].leaf.keyOk)

NoFaultIsMissed ==
  report # NoReport =>
    /\ BadEscape <=> report.reason = "bad_escape"
    /\ report.reason = "none" =>
         gatherOk /\ WellIndented /\ \A k \in Keys : ~ Repeats(k)
    /\ WellIndented /\ gatherOk /\ ~ BadEscape /\ (\E k \in Keys : Repeats(k)) =>
         report.reason = "duplicate_key"

(***************************************************************************)
(* bind.hpp:405 says that `...` AT COLUMN 0 is the document-end marker.    *)
(***************************************************************************)
DocEndIsAtColumn0 ==
  report # NoReport /\ report.reason = "doc_end" =>
    \E i \in DOMAIN Contents : NodeIsDocEnd(Contents[i]) /\ Contents[i].column = 0

=============================================================================
