------------------------------- MODULE Earley -------------------------------
(***************************************************************************)
(* The parser of ctlark (src/single-header/ctyaml.hpp), as far as the      *)
(* chart: compute_nullable of the grammar tables, and run_pipeline, which  *)
(* closes an Earley set, lexes the next token among the terminals that     *)
(* the set expects, scans it into the next set, and so on to the end of    *)
(* the input.                                                              *)
(*                                                                         *)
(* A grammar is what the tables hold: productions in order of definition,  *)
(* a start symbol, terminals in order of definition, and of the terminals  *)
(* which are ignored, which are keywords, and their priorities.  Of the    *)
(* terminals' automata the pipeline uses the length of the longest match   *)
(* at a position, Longest.                                                 *)
(*                                                                         *)
(* The code pushes to a set in loops that skip the items it already holds. *)
(* Here a step is one push: the first in the order of the loop that is     *)
(* still missing.  Sets and input positions count from 0 as in the code.   *)
(***************************************************************************)
EXTENDS Integers, Sequences, FiniteSets

CONSTANTS
  Jobs,            (* the grammars and inputs to parse *)
  Longest(_, _, _) (* in a job, of a terminal, from a position; 0 if none *)

(* A symbol is a rule or a terminal: they are interned apart. *)
IsGrammar(g) ==
  /\ DOMAIN g.prods = 1 .. Len(g.prods) /\ Len(g.prods) \in Nat
  /\ \A p \in DOMAIN g.prods :
       /\ DOMAIN g.prods[p].rhs = 1 .. Len(g.prods[p].rhs)
       /\ Len(g.prods[p].rhs) \in Nat
       /\ \A t \in DOMAIN g.terminals : g.prods[p].lhs # g.terminals[t]
  /\ \A t \in DOMAIN g.terminals : g.start # g.terminals[t]

IsJob(j) == IsGrammar(j.grammar) /\ Len(j.input) \in Nat

ASSUME JobsAssumption == \A j \in Jobs : IsJob(j)

(* An automaton accepts nothing shorter than one character. *)
ASSUME LongestAssumption ==
  \A j \in Jobs : \A n \in DOMAIN j.grammar.terminals, p \in 0 .. Len(j.input) :
    Longest(j, j.grammar.terminals[n], p) \in 0 .. Len(j.input) - p

VARIABLES
  job,      (* the grammar and the input, fixed *)
  nullable, (* the nonterminals that derive the empty sequence *)
  sets,     (* the closed sets of the chart *)
  cur,      (* the set being filled, number Len(sets) *)
  ix,       (* the place in cur (in the productions) being looked at *)
  upto,     (* how many items cur had when the one at ix came up *)
  count,    (* item_count: of all sets together *)
  pos,      (* how much of the input is read *)
  toks,     (* the tokens *)
  result,   (* what ended the parse *)
  pc        (* the phase *)

vars == << job, nullable, sets, cur, ix, upto, count, pos, toks, result, pc >>

Prods     == job.grammar.prods
Start     == job.grammar.start
Terminals == {job.grammar.terminals[n] : n \in DOMAIN job.grammar.terminals}
Size      == Len(job.input)

(* Items: a production, how much of it is recognised, and from which set. *)
Item(p, d, o) == [prod |-> p, dot |-> d, origin |-> o]
Lhs(it)      == Prods[it.prod].lhs
Rhs(it)      == Prods[it.prod].rhs
Complete(it) == it.dot = Len(Rhs(it))
Wants(it, s) == ~ Complete(it) /\ Rhs(it)[it.dot + 1] = s
Advance(it)  == [it EXCEPT !.dot = it.dot + 1]
InCur(it)    == \E n \in DOMAIN cur : cur[n] = it

(* dotted_positions, and the capacity of the chart. *)
Dotted ==
  Cardinality(UNION {{p} \X (0 .. Len(Prods[p].rhs)) : p \in DOMAIN Prods})

(* Mutant: room for two sets, whatever the length of the input. *)
ItemCapOfGrammar == (Dotted + 16) * 2

ItemCap == (Dotted + 16) * (Size + 2) * 2

Init ==
  /\ job \in Jobs
  /\ nullable = {}
  /\ sets = << >> /\ cur = << >>
  /\ ix = 1 /\ upto = 0 /\ count = 0
  /\ pos = 0 /\ toks = << >>
  /\ result = "pending"
  /\ pc = "nullable"

-----------------------------------------------------------------------------
(* compute_nullable *)

(* Mutant: a production is looked at though its nonterminal is marked. *)
ReadyAgain(p) == \A n \in DOMAIN Prods[p].rhs : Prods[p].rhs[n] \in nullable

Ready(p) ==
  /\ Prods[p].lhs \notin nullable
  /\ \A n \in DOMAIN Prods[p].rhs : Prods[p].rhs[n] \in nullable

(* The passes over the productions go on from the one marked last. *)
Turn(p) == IF p >= ix THEN p ELSE p + Len(Prods)

MarkNullable ==
  /\ pc = "nullable"
  /\ \E p \in DOMAIN Prods :
       /\ Ready(p)
       /\ \A q \in DOMAIN Prods : Ready(q) => Turn(p) <= Turn(q)
       /\ nullable' = nullable \cup {Prods[p].lhs}
       /\ ix' = p + 1
  /\ UNCHANGED << job, sets, cur, upto, count, pos, toks, result, pc >>

NullableDone ==
  /\ pc = "nullable"
  /\ \A p \in DOMAIN Prods : ~ Ready(p)
  /\ pc' = "start"
  /\ ix' = 1
  /\ UNCHANGED << job, nullable, sets, cur, upto, count, pos, toks, result >>

-----------------------------------------------------------------------------
(* chart::push, and the end of a parse. *)

End(e) ==
  /\ result' = e
  /\ pc' = "done"
  /\ UNCHANGED << job, nullable, sets, cur, ix, upto, count, pos, toks >>

(* Mutant: one more item than there is room for. *)
PushPastCap(it) ==
  /\ count <= ItemCap
  /\ cur' = Append(cur, it)
  /\ count' = count + 1
  /\ UNCHANGED << job, nullable, sets, ix, upto, pos, toks, result, pc >>

Push(it) ==
  /\ count < ItemCap
  /\ cur' = Append(cur, it)
  /\ count' = count + 1
  /\ UNCHANGED << job, nullable, sets, ix, upto, pos, toks, result, pc >>

Full == count >= ItemCap

(* The first productions of the start symbol go into set 0, which has room. *)
StartMissing(p) == Prods[p].lhs = Start /\ ~ InCur(Item(p, 0, 0))

PushStart ==
  /\ pc = "start"
  /\ \E p \in DOMAIN Prods :
       /\ StartMissing(p)
       /\ \A q \in DOMAIN Prods : StartMissing(q) => p <= q
       /\ Push(Item(p, 0, 0))

StartDone ==
  /\ pc = "start"
  /\ \A p \in DOMAIN Prods : ~ StartMissing(p)
  /\ upto' = Len(cur)
  /\ pc' = "close"
  /\ UNCHANGED << job, nullable, sets, cur, ix, count, pos, toks, result >>

-----------------------------------------------------------------------------
(* close_set *)

Closing == pc = "close" /\ ix <= Len(cur)
Here    == cur[ix]

(* Predict: the productions of the nonterminal after the dot. *)
PredictMissing(p) == Wants(Here, Prods[p].lhs) /\ ~ InCur(Item(p, 0, Len(sets)))

Predict ==
  /\ Closing
  /\ \E p \in DOMAIN Prods :
       /\ PredictMissing(p)
       /\ \A q \in DOMAIN Prods : PredictMissing(q) => p <= q
       /\ Push(Item(p, 0, Len(sets)))

NoPrediction == \A p \in DOMAIN Prods : ~ PredictMissing(p)

(* Mutant: without the fix. *)
SkipMissingNever == FALSE

(* Aycock and Horspool: past a nullable nonterminal at once. *)
SkipMissing ==
  /\ ~ Complete(Here)
  /\ Rhs(Here)[Here.dot + 1] \in nullable
  /\ ~ InCur(Advance(Here))

SkipNullable ==
  /\ Closing
  /\ NoPrediction
  /\ SkipMissing
  /\ Push(Advance(Here))

(* Complete: the items of the origin set that wait for this nonterminal. *)
OriginSet == IF Here.origin = Len(sets) THEN cur ELSE sets[Here.origin + 1]
ParentEnd == IF Here.origin = Len(sets) THEN upto ELSE Len(OriginSet)

CompleteMissing(j) ==
  /\ Complete(Here)
  /\ Wants(OriginSet[j], Lhs(Here))
  /\ ~ InCur(Advance(OriginSet[j]))

CompleteItem ==
  /\ Closing
  /\ \E j \in 1 .. ParentEnd :
       /\ CompleteMissing(j)
       /\ \A k \in 1 .. ParentEnd : CompleteMissing(k) => j <= k
       /\ Push(Advance(OriginSet[j]))

NothingMissing ==
  /\ NoPrediction
  /\ ~ SkipMissing
  /\ \A j \in 1 .. ParentEnd : ~ CompleteMissing(j)

NextItem ==
  /\ Closing
  /\ NothingMissing
  /\ ix' = ix + 1
  /\ upto' = Len(cur)
  /\ UNCHANGED << job, nullable, sets, cur, count, pos, toks, result, pc >>

(* The chart is full: the loop stops. *)
CloseOverflow ==
  /\ Closing
  /\ ~ NothingMissing
  /\ Full
  /\ End("overflow")

CloseDone ==
  /\ pc = "close"
  /\ ix > Len(cur)
  /\ sets' = Append(sets, cur)
  /\ cur' = << >>
  /\ pc' = "lex"
  /\ UNCHANGED << job, nullable, ix, upto, count, pos, toks, result >>

-----------------------------------------------------------------------------
(* The lexer. *)

LastSet     == sets[Len(sets)]
Expected(t) == \E n \in DOMAIN LastSet : Wants(LastSet[n], t)
Ignored(t)  == t \in job.grammar.ignored
MatchLen(t) == Longest(job, t, pos)

Candidate(t) == t \in Terminals /\ (Expected(t) \/ Ignored(t)) /\ MatchLen(t) > 0

Flag(b)    == IF b THEN 1 ELSE 0
Prio(t)    == job.grammar.prio[t]
Keyword(t) == t \in job.grammar.keywords

(* Mutant: priority before length. *)
BeatsByPriority(t, u) ==
  \/ Prio(t) > Prio(u)
  \/ /\ Prio(t) = Prio(u)
     /\ MatchLen(t) > MatchLen(u)

(* Longest, then expected, then priority, then literal over pattern. *)
Beats(t, u) ==
  \/ MatchLen(t) > MatchLen(u)
  \/ /\ MatchLen(t) = MatchLen(u)
     /\ \/ Flag(Expected(t)) > Flag(Expected(u))
        \/ /\ Expected(t) = Expected(u)
           /\ \/ Prio(t) > Prio(u)
              \/ /\ Prio(t) = Prio(u)
                 /\ Flag(Keyword(t)) > Flag(Keyword(u))

(* Then definition order. *)
IsBest(n) ==
  LET term == job.grammar.terminals
  IN  /\ Candidate(term[n])
      /\ \A m \in DOMAIN term :
           Candidate(term[m]) =>
             /\ ~ Beats(term[m], term[n])
             /\ m < n => Beats(term[n], term[m])

Lexing == pc = "lex" /\ pos < Size

SkipIgnored ==
  /\ Lexing
  /\ \E n \in DOMAIN job.grammar.terminals :
       LET t == job.grammar.terminals[n]
       IN  /\ IsBest(n)
           /\ ~ Expected(t)
           /\ pos' = pos + MatchLen(t)
  /\ UNCHANGED << job, nullable, sets, cur, ix, upto, count, toks, result, pc >>

(* A token; the scan into the next set begins. *)
LexToken ==
  /\ Lexing
  /\ \E n \in DOMAIN job.grammar.terminals :
       LET t == job.grammar.terminals[n]
       IN  /\ IsBest(n)
           /\ Expected(t)
           /\ toks' = Append(toks, [sym |-> t, off |-> pos, len |-> MatchLen(t)])
  /\ pc' = "scan"
  /\ UNCHANGED << job, nullable, sets, cur, ix, upto, count, pos, result >>

LexError ==
  /\ Lexing
  /\ \A n \in DOMAIN job.grammar.terminals : ~ Candidate(job.grammar.terminals[n])
  /\ End("lex")

(* Mutant: an item that ends is accepted wherever it started. *)
DerivesAnywhere(it) == Lhs(it) = Start /\ Complete(it)

(* accepted: the start symbol over everything. *)
Derives(it) == Lhs(it) = Start /\ it.origin = 0 /\ Complete(it)

Accept ==
  /\ pc = "lex"
  /\ pos = Size
  /\ \E n \in DOMAIN LastSet : Derives(LastSet[n])
  /\ End("accepted")

RejectAtEnd ==
  /\ pc = "lex"
  /\ pos = Size
  /\ \A n \in DOMAIN LastSet : ~ Derives(LastSet[n])
  /\ End("parse")

-----------------------------------------------------------------------------
(* The scan: every item that waits for the token goes on in the next set. *)

Newest  == toks[Len(toks)]
Scanned == Newest.sym

ScanMissing(j) == Wants(LastSet[j], Scanned) /\ ~ InCur(Advance(LastSet[j]))

ScanItem ==
  /\ pc = "scan"
  /\ \E j \in DOMAIN LastSet :
       /\ ScanMissing(j)
       /\ \A k \in DOMAIN LastSet : ScanMissing(k) => j <= k
       /\ Push(Advance(LastSet[j]))

(* A chart that is full before the scan is taken for a scan of nothing. *)
ScanOverflow ==
  /\ pc = "scan"
  /\ \E j \in DOMAIN LastSet : ScanMissing(j)
  /\ Full
  /\ End(IF cur = << >> THEN "parse" ELSE "overflow")

(* Mutant: the token is not left behind. *)
ScanDoneStays ==
  /\ pc = "scan"
  /\ \A j \in DOMAIN LastSet : ~ ScanMissing(j)
  /\ ix' = 1
  /\ upto' = Len(cur)
  /\ pc' = "close"
  /\ UNCHANGED << job, nullable, sets, cur, count, pos, toks, result >>

ScanDone ==
  /\ pc = "scan"
  /\ \A j \in DOMAIN LastSet : ~ ScanMissing(j)
  /\ pos' = pos + Newest.len
  /\ ix' = 1
  /\ upto' = Len(cur)
  /\ pc' = "close"
  /\ UNCHANGED << job, nullable, sets, cur, count, toks, result >>

Terminated == pc = "done" /\ UNCHANGED vars

Step ==
  \/ MarkNullable \/ NullableDone
  \/ PushStart \/ StartDone
  \/ Predict \/ SkipNullable \/ CompleteItem \/ NextItem
  \/ CloseOverflow \/ CloseDone
  \/ SkipIgnored \/ LexToken \/ LexError
  \/ Accept \/ RejectAtEnd
  \/ ScanItem \/ ScanOverflow \/ ScanDone

Next == Step \/ Terminated

Spec == Init /\ [][Next]_vars

-----------------------------------------------------------------------------
Items == {it \in [prod : DOMAIN Prods, dot : Nat, origin : Nat] : it.dot <= Len(Rhs(it))}

(***************************************************************************)
(* Items point into the productions and to sets that are there; there are  *)
(* never more of them than the chart has room for.                         *)
(***************************************************************************)
TypeOK ==
  /\ job \in Jobs
  /\ nullable \subseteq {Prods[p].lhs : p \in DOMAIN Prods}
  /\ sets \in Seq(Seq(Items)) /\ cur \in Seq(Items)
  /\ \A n \in DOMAIN sets : \A k \in DOMAIN sets[n] : sets[n][k].origin < n
  /\ \A k \in DOMAIN cur : cur[k].origin <= Len(sets)
  /\ ix \in Nat \ {0} /\ upto \in Nat
  /\ count \in 0 .. ItemCap
  /\ pos \in 0 .. Size
  /\ toks \in Seq([sym : Terminals, off : 0 .. Size, len : 1 .. Size])
  /\ result \in {"pending", "accepted", "lex", "parse", "overflow"}
  /\ pc \in {"nullable", "start", "close", "lex", "scan", "done"}
  /\ pc \in {"nullable", "start"} => sets = << >> /\ toks = << >> /\ pos = 0
  /\ pc = "nullable" => cur = << >> /\ count = 0
  /\ pc = "close" => upto <= Len(cur)

(***************************************************************************)
(* Tokens lie one after the other in what has been read, none is empty, so *)
(* that there are no more of them than the array toks has places, and each *)
(* has its set in the chart.                                               *)
(***************************************************************************)
TokenEnd(n) == toks[n].off + toks[n].len

TokensFit ==
  /\ \A n \in DOMAIN toks :
       /\ n <= TokenEnd(n)
       /\ TokenEnd(n) <= (IF pc \in {"scan", "done"} /\ n = Len(toks) THEN Size ELSE pos)
       /\ n > 1 => TokenEnd(n - 1) <= toks[n].off
  /\ Len(toks) <= Size
  /\ pc = "close" => Len(sets) = Len(toks)
  /\ pc = "lex" => Len(sets) = Len(toks) + 1
  /\ pc = "scan" => Len(sets) = Len(toks)

(* Constant evaluation that has begun goes on. *)
FairSpec == Spec /\ WF_vars(Next)

=============================================================================
