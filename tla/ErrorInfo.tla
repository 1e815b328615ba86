----------------------------- MODULE ErrorInfo -----------------------------
(***************************************************************************)
(* error_info and error_message: what ctlark tells of an input that does   *)
(* not parse.  A byte offset becomes a line and a column, and the message  *)
(* shows a piece of the line around it with a caret below.                 *)
(*                                                                         *)
(* Of the message the piece of the line and the caret are modelled; the    *)
(* words around them are not.                                              *)
(***************************************************************************)
EXTENDS Integers, Sequences, FiniteSets

CONSTANTS
  SnippetWidth, (* snippet_width, of the piece that is shown *)
  CaretMax,     (* snippet_caret_max, the spaces before the caret *)
  ExpectedCap   (* expected_cap, the terminals that are named *)

ASSUME WidthsAssumption == CaretMax \in Nat /\ SnippetWidth \in Nat /\ CaretMax < SnippetWidth

AtMost(n, most) == IF n > most THEN most ELSE n

(* Mutant: the column goes on counting in the next line. *)
PastCharGoesOn(at, c) ==
  [line |-> at.line + (IF c = "\n" THEN 1 ELSE 0), column |-> at.column + 1]

(* locate: lines and columns count from 1. *)
PastChar(at, c) ==
  IF c = "\n" THEN [line |-> at.line + 1, column |-> 1] ELSE [at EXCEPT !.column = @ + 1]

Locate(text, offset) ==
  LET end == AtMost(offset, Len(text))
      at[n \in 0 .. end] ==
        IF n = 0 THEN [line |-> 1, column |-> 1] ELSE PastChar(at[n - 1], text[n])
  IN  at[end]

-----------------------------------------------------------------------------
(* render_snippet *)

(* The line around pos: where it starts, and where it ends. *)
LineStart(text, pos) ==
  CHOOSE s \in 0 .. pos :
    /\ s > 0 => text[s] = "\n"
    /\ \A q \in s + 1 .. pos : text[q] # "\n"

LineEnd(text, pos) ==
  CHOOSE e \in pos .. Len(text) :
    /\ e < Len(text) => text[e + 1] = "\n"
    /\ \A q \in pos + 1 .. e : text[q] # "\n"

(* The window on it, in which the caret is visible. *)
WindowStart(text, pos) ==
  IF pos - LineStart(text, pos) > CaretMax THEN pos - CaretMax ELSE LineStart(text, pos)

WindowEnd(text, pos) == AtMost(LineEnd(text, pos), WindowStart(text, pos) + SnippetWidth)

Shown(c) == IF c \in {"\t", "\r"} THEN " " ELSE c

Snippet(text, pos) ==
  LET start == WindowStart(text, pos)
  IN  [piece |-> [n \in 1 .. WindowEnd(text, pos) - start |-> Shown(text[start + n])],
       caret |-> pos - start]

-----------------------------------------------------------------------------
(* record_expected and error_info_of; of the terminals in order. *)
Info(kind, text, pos, expected) ==
  LET at == Locate(text, pos)
  IN  [kind     |-> kind,
       position |-> pos,
       line     |-> at.line,
       column   |-> at.column,
       expected |-> SubSeq(expected, 1, AtMost(Len(expected), ExpectedCap)),
       total    |-> Len(expected),
       snippet  |-> Snippet(text, pos)]

NoInfo == [kind |-> "none"]

-----------------------------------------------------------------------------
(* The lines of a text, as positions. *)
FeedsBefore(text, p) == Cardinality({n \in 1 .. p : text[n] = "\n"})

(***************************************************************************)
(* What error_info says of a place can be looked up in the text: on the    *)
(* line it names, as many characters past a line feed as the column says,  *)
(* is that place.  The message shows a piece of that line, and the caret   *)
(* lies below the character of that place, or right after the piece if the *)
(* line or the text ends there.                                            *)
(***************************************************************************)
PointsInto(text, info) ==
  LET p == info.position
      piece == info.snippet.piece
      shown(n) == LET c == text[p - info.snippet.caret + n]
                  IN  piece[n] = IF c \in {"\t", "\r"} THEN " " ELSE c
  IN  /\ FeedsBefore(text, p) = info.line - 1
      /\ FeedsBefore(text, p - info.column + 1) = info.line - 1
      /\ info.column <= p => text[p - info.column + 1] = "\n"
      /\ info.snippet.caret < info.column
      /\ \A n \in DOMAIN piece : piece[n] # "\n" /\ shown(n)
      /\ IF p < Len(text) /\ text[p + 1] # "\n"
           THEN info.snippet.caret \in 0 .. Len(piece) - 1
           ELSE info.snippet.caret = Len(piece)

=============================================================================
