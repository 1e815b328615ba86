------------------------------ MODULE Library -------------------------------
(***************************************************************************)
(* The library as a whole (ctyaml.hpp): a text is parsed with the grammar  *)
(* of grammar.hpp, and the tree is bound to a document or diagnosed; a     *)
(* document that is accepted is then serialized and what was written is    *)
(* parsed and bound in its turn.                                           *)
(*                                                                         *)
(* The parser is Earley and TreeBuilder, the block structure and what      *)
(* bind_error says are Document, with FlowBinder between them; of what     *)
(* does not parse ErrorInfo says where.                                    *)
(***************************************************************************)
EXTENDS FlowBinder, ErrorInfo, FiniteSets, Functions

CONSTANTS
  Inputs,            (* the texts *)
  JobOf(_),          (* the grammar with a text *)
  Longest(_, _, _),  (* the lexer's automata, as Earley has them *)
  MaxDepth, MaxKids  (* limits of the tree builder *)

VARIABLES
  job, nullable, sets, filling, ix, upto, count, pos, toks, result, phase, root, fail,
  segs, todo, cur, gatherOk, lines, rest, frames, built, pc, blk, report,
  info,    (* what error_info says *)
  round,   (* 1 for the text, 2 for what serialize makes of its document *)
  document (* of round 1 *)

parserVars   == << job, nullable, sets, filling, ix, upto, count, pos, toks, result, phase,
                   root, fail >>
documentVars == << segs, todo, cur, gatherOk, lines, rest, frames, built, pc, blk, report >>
roundVars    == << round, document, info >>
vars         == << parserVars, documentVars, roundVars >>

Parser ==
  INSTANCE TreeBuilder WITH Jobs <- {JobOf(in) : in \in Inputs}, NoAlias <- "none",
                            cur <- filling, pc <- phase

Binder == INSTANCE Document WITH Texts <- {}, FlowDepth <- 0

(* The places after which a line break of the tree ends, and segment i begins. *)
Segment(i) == root.kids[i]
IsNl(i)    == IsToken(Segment(i))
StartOfLine(i) == IF i = 1 THEN 0 ELSE Segment(i - 1).off + Segment(i - 1).len

(* The first token of the line, past the marker and spaces. *)
ContentStart(i) ==
  LET after == {n \in DOMAIN toks :
                  toks[n].off >= StartOfLine(i) /\ toks[n].sym \notin {"_DOCSTART", "_WS"}}
  IN  toks[CHOOSE n \in after : \A m \in after : n <= m].off

SegmentsOf(in) ==
  [i \in DOMAIN root.kids |->
     IF IsNl(i) THEN NlSegment(in, Segment(i))
     ELSE ContentSegment(in, Segment(i), ContentStart(i))]

-----------------------------------------------------------------------------
Init ==
  /\ \E in \in Inputs : job = JobOf(in)
  /\ nullable = {}
  /\ sets = << >> /\ filling = << >>
  /\ ix = 1 /\ upto = 0 /\ count = 0
  /\ pos = 0 /\ toks = << >>
  /\ result = "pending" /\ phase = "nullable"
  /\ root = Parser!NoTree /\ fail = "pending"
  /\ segs = << >> /\ todo = << >>
  /\ cur = 0 /\ gatherOk = TRUE
  /\ lines = << >> /\ rest = << >>
  /\ frames = << >> /\ built = << >>
  /\ pc = "idle"
  /\ blk = [type |-> Null, ok |-> TRUE]
  /\ report = Binder!NoReport
  /\ info = NoInfo
  /\ round = 1
  /\ document = Null

ParseStep ==
  /\ phase # "done"
  /\ Parser!Parse
  /\ UNCHANGED << documentVars, roundVars >>

BuildTree ==
  /\ Parser!Build
  /\ UNCHANGED << documentVars, roundVars >>

(* bind<Tree> begins with the segments of the tree. *)
BindStart ==
  /\ fail = "none"
  /\ pc = "idle"
  /\ \E in \in {Source(job.input, toks)} : segs' = SegmentsOf(in)
  /\ todo' = segs'
  /\ pc' = "gather"
  /\ UNCHANGED << cur, gatherOk, lines, rest, frames, built, blk, report, parserVars, roundVars >>

BindStep ==
  /\ pc # "idle"
  /\ report = Binder!NoReport
  /\ Binder!Next
  /\ UNCHANGED << parserVars, roundVars >>

(* is_valid: both the parser and the binder say yes. *)
Valid    == report # Binder!NoReport /\ Binder!BoundOk
Refused  == result \notin {"pending", "accepted"} \/ fail \notin {"pending", "none"}
Answered == Refused \/ report # Binder!NoReport

(* error_info and error_message, when the text does not parse. *)
Explain ==
  /\ Refused
  /\ info = NoInfo
  /\ info' = Info(IF result = "accepted" THEN fail ELSE result, job.input,
                  Parser!ErrPos, Parser!Recorded)
  /\ UNCHANGED << parserVars, documentVars, round, document >>

(* serialize(doc), and parse of that. *)
Reparse ==
  /\ Valid
  /\ round = 1
  /\ round' = 2
  /\ document' = blk.type
  /\ UNCHANGED info
  /\ job' = JobOf(Content(blk.type))
  /\ nullable' = {}
  /\ sets' = << >> /\ filling' = << >>
  /\ ix' = 1 /\ upto' = 0 /\ count' = 0
  /\ pos' = 0 /\ toks' = << >>
  /\ result' = "pending" /\ phase' = "nullable"
  /\ root' = Parser!NoTree /\ fail' = "pending"
  /\ segs' = << >> /\ todo' = << >>
  /\ cur' = 0 /\ gatherOk' = TRUE
  /\ lines' = << >> /\ rest' = << >>
  /\ frames' = << >> /\ built' = << >>
  /\ pc' = "idle"
  /\ blk' = [type |-> Null, ok |-> TRUE]
  /\ report' = Binder!NoReport

Finished ==
  /\ Answered
  /\ Refused => info # NoInfo
  /\ Valid => round = 2
  /\ UNCHANGED vars

Next ==
  \/ ParseStep \/ BuildTree
  \/ BindStart \/ BindStep
  \/ Explain \/ Reparse
  \/ Finished

Spec == Init /\ [][Next]_vars

-----------------------------------------------------------------------------
(***************************************************************************)
(* Properties.                                                             *)
(***************************************************************************)

(***************************************************************************)
(* "the output always re-parses to the same document": a document that is  *)
(* accepted is written as a text that is accepted, and gives it again.     *)
(***************************************************************************)
RoundTrips ==
  round = 2 =>
    /\ ~ Refused
    /\ report # Binder!NoReport => Valid /\ blk.type = document

(* What stands in the text from a place on, for n characters. *)
Stretch(off, n) ==
  SubSeq(job.input, off + 1, IF off + n > Len(job.input) THEN Len(job.input) ELSE off + n)
CharAt(off)     == Stretch(off, 1)

DashesWidth(l) ==
  LET sum[n \in 0 .. Len(l.dashes)] == IF n = 0 THEN 0 ELSE sum[n - 1] + l.dashes[n]
  IN  sum[Len(l.dashes)]

ContentIndices == {i \in DOMAIN root.kids : ~ IsNl(i)}

(***************************************************************************)
(* The columns that the block structure is read from are those of the      *)
(* text: each line break is an NL token of the tree, the indent it carries *)
(* is the column of what follows, and past it, by the widths of its dash   *)
(* tokens, stands the first character of the leaf, with nothing but dashes *)
(* and spaces before it.  The flags of a leaf are those of its tokens: it  *)
(* is ok when no escape in it is bad and no flow mapping repeats a key.    *)
(***************************************************************************)
SegmentsAreReal ==
  pc \notin {"idle", "gather"} =>
    /\ Binder!IndentIsColumn
    /\ Binder!LineByLine(segs)
    /\ Cardinality({n \in DOMAIN job.input : job.input[n] = "\n"})
         = Cardinality(DOMAIN root.kids \ ContentIndices)
    /\ \A i \in ContentIndices :
         LET l == segs[i]
             at == ContentStart(i) + DashesWidth(l)
         IN  /\ Binder!FlagsAgree(l)
             /\ \A c \in Range(Stretch(ContentStart(i), DashesWidth(l))) : c \in {"-", " "}
             /\ l.leaf.kind # "none" =>
                  /\ CharAt(at) \notin {<< >>, << " " >>, << "\n" >>}
                  /\ Stretch(at, 2) # << "-", " " >>

(***************************************************************************)
(* Of a text that does not parse, error_info names a place that can be     *)
(* looked up in the text, and error_message shows it.                      *)
(***************************************************************************)
DiagnosisPoints == info # NoInfo => PointsInto(job.input, info)

=============================================================================
