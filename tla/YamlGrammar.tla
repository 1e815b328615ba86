---------------------------- MODULE YamlGrammar ----------------------------
(***************************************************************************)
(* The grammar of grammar.hpp: its rules and terminals, and the tables     *)
(* that the parser makes of them (GrammarTables).  A text is a sequence of *)
(* characters, each a string of length one.                                *)
(***************************************************************************)
EXTENDS GrammarTables

Tab   == "\t"
CR    == "\r"
Space == " "
Quote == "\""
Back  == "\\"

(* A rule's alternatives, in order. *)
Rules(name, bodies) ==
  [n \in DOMAIN bodies |-> [rule |-> name, body |-> bodies[n], alias |-> "none"]]

(* One alternative with an alias. *)
Aliased(name, body, alias) == << [rule |-> name, body |-> body, alias |-> alias] >>

OptWs == Opt(Leaf("_WS"))

(* "[" _WS? ("]" | e (_WS? "," _WS? e)* _WS? ("," _WS?)? "]") and the like *)
Flow(open, e, close) ==
  Cat(<< Leaf(open), OptWs,
         Alt(<< Leaf(close),
                Cat(<< Leaf(e), Star(Cat(<< OptWs, Leaf(","), OptWs, Leaf(e) >>)), OptWs,
                       Opt(Cat(<< Leaf(","), OptWs >>)), Leaf(close) >>) >>) >>)

(* The alternatives that value and fvalue share but for the plain scalar. *)
Values(name, scalar) ==
  Aliased(name, Leaf(scalar), "plain") \o Aliased(name, Leaf("DQ"), "dquoted")
    \o Aliased(name, Leaf("SQ"), "squoted")
    \o Rules(name, << Leaf("flowseq"), Leaf("flowmap") >>)

KeyOf(scalar) == Alt(<< Leaf(scalar), Leaf("DQ"), Leaf("SQ") >>)

Alternatives ==
  Rules("start", << Cat(<< Leaf("_first"), Star(Cat(<< Leaf("NL"), Leaf("_line") >>)) >>) >>)
  \o Rules("_first", <<
       Cat(<< Leaf("_DOCSTART"), Opt(Cat(<< Leaf("_WS"), Leaf("_item") >>)), OptWs,
              Opt(Leaf("_COMMENT")) >>),
       Leaf("_line") >>)
  \o Rules("_line", << Cat(<< Opt(Leaf("_item")), OptWs, Opt(Leaf("_COMMENT")) >>) >>)
  \o Rules("_item", << Leaf("pair"), Leaf("seqitem"), Leaf("value") >>)
  \o Rules("pair", <<
       Cat(<< KeyOf("SCALAR"), OptWs, Leaf(":"), Opt(Cat(<< Leaf("_WS"), Leaf("value") >>)) >>) >>)
  \o Rules("seqitem", << Cat(<< Leaf("DASH"), Leaf("_item") >>), Leaf("DASH"), Leaf("-") >>)
  \o Values("value", "SCALAR")
  \o Values("fvalue", "FSCALAR")
  \o Rules("flowseq", << Flow("[", "fvalue", "]") >>)
  \o Rules("flowmap", << Flow("{", "fpair", "}") >>)
  \o Rules("fpair", <<
       Cat(<< KeyOf("FSCALAR"), OptWs,
              Opt(Cat(<< Leaf(":"), OptWs, Opt(Leaf("fvalue")) >>)) >>) >>)

-----------------------------------------------------------------------------
(* The terminals. *)

Breaks == {CR, LineFeed}
Blanks == {Tab, Space} \cup Breaks
FlowIndicators == {",", "[", "]", "{", "}"}

(* What a plain scalar does not start with, but for : ? - before others. *)
Indicators ==
  FlowIndicators \cup {"#", "&", "*", "!", "|", ">", "'", Quote, "%", "@", "grave", "-", "?", ":"}

SpaceRun  == Plus(Chr(Space))
ColonRun  == Plus(Chr(":"))

(* Mutant: the last colons of a run may be followed by a space. *)
PlainPatternLoose(out) ==
  Cat(<<
    NotIn(Blanks \cup Indicators),
    Star(Alt(<< NotIn(Blanks \cup out), Cat(<< SpaceRun, NotIn(Blanks \cup {"#"} \cup out) >>) >>)) >>)

(***************************************************************************)
(* SCALAR, and FSCALAR with the flow indicators among the characters it    *)
(* keeps out.                                                              *)
(***************************************************************************)
PlainPattern(out) ==
  Cat(<<
    Alt(<< NotIn(Blanks \cup Indicators),
           Cat(<< ColonRun, NotIn(Blanks \cup {":"} \cup out) >>),
           Cat(<< Chr("?"), NotIn(Blanks \cup out) >>),
           Cat(<< Chr("-"), NotIn(Blanks \cup {"-"} \cup out) >>) >>),
    Star(Alt(<< NotIn(Blanks \cup {":"} \cup out),
                Cat(<< ColonRun, NotIn(Blanks \cup {":"} \cup out) >>),
                Cat(<< SpaceRun, NotIn(Blanks \cup {"#", ":"} \cup out) >>),
                Cat(<< SpaceRun, ColonRun, NotIn(Blanks \cup {":"} \cup out) >>) >>)) >>)

Literal(cs) == Cat([n \in DOMAIN cs |-> Chr(cs[n])])

(* Mutant: a backslash is a character like any other. *)
QuotedUnitNoEscape(q) ==
  IF q = Quote THEN NotIn({Quote} \cup Breaks)
  ELSE Alt(<< NotIn({"'"} \cup Breaks), Literal(<< "'", "'" >>) >>)

(* Of DQ: one character, or an escaped one; of SQ: one, or a pair of quotes. *)
QuotedUnit(q) ==
  IF q = Quote
    THEN Alt(<< NotIn({Quote, Back} \cup Breaks), Cat(<< Chr(Back), NotIn(Breaks) >>) >>)
    ELSE Alt(<< NotIn({"'"} \cup Breaks), Literal(<< "'", "'" >>) >>)

Quoted(q) == Cat(<< Chr(q), Star(QuotedUnit(q)), Chr(q) >>)

Named ==
  << [sym |-> "NL",        pattern |-> Cat(<< Opt(Chr(CR)), Chr(LineFeed), Star(Chr(Space)) >>)],
     [sym |-> "_DOCSTART", pattern |-> Literal(<< "-", "-", "-" >>)],
     [sym |-> "_WS",       pattern |-> SpaceRun],
     [sym |-> "_COMMENT",  pattern |-> Cat(<< Chr("#"), Star(NotIn(Breaks)) >>)],
     [sym |-> "SCALAR",    pattern |-> PlainPattern({})],
     [sym |-> "DQ",        pattern |-> Quoted(Quote)],
     [sym |-> "SQ",        pattern |-> Quoted("'")],
     [sym |-> "DASH",      pattern |-> Cat(<< Chr("-"), SpaceRun >>)],
     [sym |-> "FSCALAR",   pattern |-> PlainPattern(FlowIndicators)] >>

(* The literals of the rules, in the order in which they are lowered. *)
Keywords == << ":", "-", "[", "]", ",", "{", "}" >>

TerminalTable ==
  Named \o [n \in DOMAIN Keywords |-> [sym |-> Keywords[n], pattern |-> Chr(Keywords[n])]]

KeywordSet == {Keywords[n] : n \in DOMAIN Keywords}

RuleNames == {Alternatives[n].rule : n \in DOMAIN Alternatives}

(* _rules are inlined, ?rules give way to a single child. *)
Flags(A) ==
  [splice  |-> FALSE,
   inlined |-> A \in {"_first", "_line", "_item"},
   bang    |-> FALSE,
   cond    |-> A \in {"value", "fvalue"}]

Tables ==
  TablesOf([alternatives |-> Alternatives,
            terminals    |-> TerminalTable,
            ignored      |-> {},
            keywords     |-> KeywordSet,
            underscored  |-> {"_DOCSTART", "_WS", "_COMMENT"},
            prio         |-> [t \in {TerminalTable[n].sym : n \in DOMAIN TerminalTable} |-> 0],
            rules        |-> [A \in RuleNames |-> Flags(A)]])

Automata == {[sym |-> TerminalTable[n].sym, nfa |-> BuildNfa(TerminalTable[n].pattern)] :
               n \in DOMAIN TerminalTable}

Automaton(t) == (CHOOSE a \in Automata : a.sym = t).nfa

=============================================================================
