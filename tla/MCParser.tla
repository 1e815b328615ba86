------------------------------ MODULE MCParser ------------------------------
(***************************************************************************)
(* Grammars written as rules, with each combination of the marks that      *)
(* shape a tree (_ ? ! and an alias) on a rule whose body has helpers, and *)
(* with terminals that match at the same place: longer and shorter ones,   *)
(* a keyword, one with a priority, one to ignore.                          *)
(***************************************************************************)
EXTENDS MCGrammars, GrammarTables

CONSTANT MaxText

Alternative(r, body, alias) == [rule |-> r, body |-> body, alias |-> alias]

(* start: item (";" item)*   item: "a"? WORD -> ... | AB | "(" item ")" *)
AlternativesOf(alias) ==
  << Alternative("start", Cat(<< Leaf("item"), Star(Cat(<< Leaf(";"), Leaf("item") >>)) >>), "none"),
     Alternative("item",  Cat(<< Opt(Leaf("a")), Leaf("WORD") >>), alias),
     Alternative("item",  Leaf("AB"), "none"),
     Alternative("item",  Cat(<< Leaf("("), Leaf("WORD"), Leaf(")") >>), "none") >>

TerminalTable ==
  << [sym |-> "AB",   pattern |-> Cat(<< Chr("a"), Chr("b") >>)],
     [sym |-> "WORD", pattern |-> Plus(Class({"a", "b"}))],
     [sym |-> "_WS",  pattern |-> Plus(Chr(" "))],
     [sym |-> "a",    pattern |-> Chr("a")],
     [sym |-> ";",    pattern |-> Chr(";")],
     [sym |-> "(",    pattern |-> Chr("(")],
     [sym |-> ")",    pattern |-> Chr(")")] >>

Names == {TerminalTable[n].sym : n \in DOMAIN TerminalTable}

Flags == [splice : {FALSE}, inlined : BOOLEAN, bang : BOOLEAN, cond : BOOLEAN]

Marks == [item : Flags, start : Flags, alias : {"none", "al"}, ignored : {{}, {"_WS"}}, first : Names]

GrammarOf(m) ==
  TablesOf([alternatives |-> AlternativesOf(m.alias),
            terminals    |-> TerminalTable,
            ignored      |-> m.ignored,
            keywords     |-> {"a", ";", "(", ")"},
            underscored  |-> {"_WS"},
            prio         |-> [t \in Names |-> IF t = m.first THEN 1 ELSE 0],
            rules        |-> [A \in {"item", "start"} |-> IF A = "item" THEN m.item ELSE m.start]])

NoMarks == [splice |-> FALSE, inlined |-> FALSE, bang |-> FALSE, cond |-> FALSE]

(* Each way to shape the tree, with the keyword before the word. *)
Shapes == {m \in Marks : m.ignored = {"_WS"} /\ m.first = "AB" /\ ~ m.start.inlined}

(* Each way to read the text. *)
Readings == {m \in Marks : m.item = NoMarks /\ m.start = NoMarks /\ m.alias = "none" /\ m.first \in {"AB", "WORD", ";"}}

Texts == UNION {[1 .. n -> {"a", "b", ";", " "}] : n \in 0 .. MaxText}

Shown ==
  { << "b" >>, << "a", " ", "b" >>, << "a", "b" >>, << "(", "b", ")" >>, << "b", ";", "a" >>,
    << "a", "b", ";", "(", "a", " ", ")", ";", "a", " ", "a", "a" >>, << "b", "(" >> }

MatchTable(in) ==
  [t \in Names |->
     LET pattern == (CHOOSE n \in DOMAIN TerminalTable : TerminalTable[n].sym = t)
     IN  [p \in 0 .. Len(in) |-> LongestMatch(BuildNfa(TerminalTable[pattern].pattern), in, p)]]

Job(m, in) == [grammar |-> GrammarOf(m), input |-> in, match |-> MatchTable(in)]

ShapeJobs == {Job(m, in) : m \in Shapes, in \in Shown} \cup {Job(m, in) : m \in Readings, in \in Texts}

-----------------------------------------------------------------------------
MCJobs == GrammarJobs \cup ShapeJobs

(* The jobs of MCGrammars have one terminal, of one character. *)
MCLongest(j, t, p) ==
  IF "match" \in DOMAIN j THEN j.match[t][p] ELSE IF p < Len(j.input) THEN 1 ELSE 0

MCSlack(j) == IF "match" \in DOMAIN j THEN 3 ELSE 6

MCLineFeed  == "\n"

MCAlphabet  == {"a", "b", ";", " ", "(", ")"}
MCOtherCase == << >>

=============================================================================
