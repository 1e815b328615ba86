----------------------------- MODULE MCLibrary ------------------------------
(***************************************************************************)
(* Every text of up to MaxText characters of a few kinds, every text of up *)
(* to MaxFlow of others in brackets and in braces, and longer texts with   *)
(* each construct of the grammar and each reason for a rejection.          *)
(***************************************************************************)
EXTENDS Library

CONSTANTS MaxText, MaxFlow

Few == {"a", "1", " ", "\n", "-", ":", "[", "]"}

FewInFlow == {"a", "1", " ", ",", ":", "-", "#", "\"", "'", "~"}

Yaml == INSTANCE YamlGrammar WITH Alphabet <- Chars, OtherCase <- << >>, LineFeed <- "\n"

Automata == UNION {{[sym |-> a.sym, nfa |-> a.nfa] : a \in A} : A \in {Yaml!Automata}}
Tables   == CHOOSE t \in {Yaml!Tables} : TRUE

ShortTexts == UNION {[1 .. n -> Few] : n \in 0 .. MaxText}

Names == {Yaml!TerminalTable[k].sym : k \in DOMAIN Yaml!TerminalTable}

(* Of each terminal and place, the length of the longest match. *)
MatchTable(in) ==
  LET table(automata) ==
        [t \in Names |->
           LET nfa == (CHOOSE a \in automata : a.sym = t).nfa
           IN  [p \in 0 .. Len(in) |-> Yaml!LongestMatch(nfa, in, p)]]
  IN  CHOOSE m \in {table(A) : A \in {Automata}} : TRUE

MCJobOf(in) == [grammar |-> Tables, input |-> in, match |-> MatchTable(in)]

MCLongest(j, t, p) == j.match[t][p]

MCKeys  == {<< "a" >>}
MCNoKey == << "no key" >>

(* What each text is for is said above it. *)
LongTexts == {
  (* nested blocks, a sequence under a key at its own indent, dashes in a row *)
  << "a", ":", " ", "1", "\n", "b", ":", "\n", "-", " ", "a", "\n", "-", " ", "-", " ", "b",
     "\n", " ", " ", "-", " ", "~" >>,
  (* a mapping in a sequence, carriage returns, a comment, a lone dash *)
  << "-", " ", "a", ":", " ", "~", " ", "#", "b", "\r", "\n", " ", " ", "b", ":", " ", "'",
     "1", "'", "\r", "\n", "-" >>,
  (* flow collections in a block, over the escapes *)
  << "-", "-", "-", "\n", "a", ":", " ", "{", "b", ":", " ", "[", "1", ",", " ", "\"", "\\",
     "n", "\\", "e", "\\", "u", "0", "0", "0", "1", "\"", "]", ",", " ", "'", "i", "t", "'",
     "'", "s", "'", ":", "}", "\n", "\n", " ", "#", " ", "c", "\n", "b", ":", " ", "x", " ",
     "y", ":", "z" >>,
  (* a marker with content *)
  << "-", "-", "-", " ", "[", "~", ",", " ", "t", "r", "u", "e", ",", " ", "0", "x", "1", ",",
     " ", ".", "5", ",", " ", "'", ".", "5", "'", ",", " ", "\"", "t", "r", "u", "e", "\"", ",", " ", "'", "x", " ", "'",
     ",", " ", "\"", "#", "\"", "]" >>,
  (* two keys the same, in a block and in a flow mapping *)
  << "a", ":", " ", "1", "\n", "b", ":", " ", "2", "\n", "a", ":", " ", "3" >>,
  << "{", "a", ":", " ", "1", ",", " ", "\"", "a", "\"", ":", " ", "2", "}" >>,
  (* a bad escape in a key, and in a value *)
  << "\"", "\\", "q", "\"", ":", " ", "1" >>,
  << "-", " ", "\"", "\\", "x", "4", "\"" >>,
  (* lines with no place *)
  << "a", ":", " ", "1", "\n", " ", " ", "b", ":", " ", "2" >>,
  (* the document-end marker *)
  << "a", "\n", ".", ".", "." >>,
  (* a string that looks like the marker *)
  << "-", " ", ".", ".", "." >>,
  (* what no token begins with *)
  << "-", " ", "&", "a", " ", "b" >>,
  << "a", ":", "\r", "\n", " ", "b", ":", " ", "[", "1", ",", "\t", "&", "a", " ", "b", "]", "\n", "c" >> }

(* Short texts within brackets and within braces. *)
FlowTexts ==
  UNION {{<< "[" >> \o m \o << "]" >>, << "{" >> \o m \o << "}" >>} :
           m \in UNION {[1 .. n -> FewInFlow] : n \in 1 .. MaxFlow}}

(* Sequences in sequences, as blocks. *)
MCDeepBlocks ==
  {[k \in 1 .. 2 * n + 1 |-> IF k > 2 * n THEN "a" ELSE IF k % 2 = 1 THEN "-" ELSE " "] :
     n \in 1 .. 8}

MCInputs == ShortTexts \cup FlowTexts \cup LongTexts

=============================================================================
