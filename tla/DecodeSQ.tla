------------------------------ MODULE DecodeSQ ------------------------------
(***************************************************************************)
(* decode_sq<Text>::compute of include/ctyaml/bind.hpp: the loop that      *)
(* turns a raw single-quoted token, quotes and doubled quotes included,    *)
(* into the characters of a string.  Like decode_dq it writes to a buffer  *)
(* of fixed size in constant evaluation.                                   *)
(*                                                                         *)
(* Positions count from 0 as in the code.  A token comes with the          *)
(* positions at which the units of its regular expression                  *)
(*                                                                         *)
(*    '([^'\r\n]|'')*'                                                     *)
(*                                                                         *)
(* were matched, and last of all the position of the closing quote.        *)
(***************************************************************************)
EXTENDS Integers, Sequences

CONSTANTS
  SqChar,   (* the characters of a token *)
  SqQuote,  (* the single quote          *)
  SqTokens  (* the SQ tokens of the lexer *)

SqSize(t)  == Len(t.text)
SqAt(t, p) == t.text[p + 1]

UnitCount(t) == Len(t.starts) - 1

(* A unit is a pair of quotes or one other character. *)
SqUnitAt(t, p, next) ==
  IF SqAt(t, p) = SqQuote THEN next = p + 2 /\ SqAt(t, p + 1) = SqQuote ELSE next = p + 1

IsSqToken(t) ==
  /\ t.text \in Seq(SqChar)
  /\ t.starts \in Seq(Nat) /\ t.starts # << >>
  /\ t.starts[1] = 1
  /\ t.starts[Len(t.starts)] = SqSize(t) - 1
  /\ \A n \in 1 .. UnitCount(t) :
       /\ t.starts[n] < SqSize(t) - 1
       /\ SqUnitAt(t, t.starts[n], t.starts[n + 1])

ASSUME SqTokensAssumption == \A t \in SqTokens : IsSqToken(t)

VARIABLES
  sqToken, (* Text, fixed *)
  sqI,     (* the position of the next unit *)
  sqOut,   (* buf[0 .. len) *)
  sqPc     (* "scan" or "done" *)

sqVars == << sqToken, sqI, sqOut, sqPc >>

sqRaw(p) == SqAt(sqToken, p)
sqEnd    == SqSize(sqToken) - 1

SqInit ==
  /\ sqToken \in SqTokens
  /\ sqI = 1
  /\ sqOut = << >>
  /\ sqPc = "scan"

(* Mutant: the second quote of a pair is read again. *)
WriteUnitOneByOne ==
  /\ sqPc = "scan"
  /\ sqI < sqEnd
  /\ sqOut' = Append(sqOut, sqRaw(sqI))
  /\ sqI' = sqI + 1
  /\ UNCHANGED << sqToken, sqPc >>

(* Of a pair of quotes the first is written and both are skipped. *)
WriteUnit ==
  /\ sqPc = "scan"
  /\ sqI < sqEnd
  /\ sqOut' = Append(sqOut, sqRaw(sqI))
  /\ sqI' = IF sqRaw(sqI) = SqQuote THEN sqI + 2 ELSE sqI + 1
  /\ UNCHANGED << sqToken, sqPc >>

SqFinish ==
  /\ sqPc = "scan"
  /\ sqI >= sqEnd
  /\ sqPc' = "done"
  /\ UNCHANGED << sqToken, sqI, sqOut >>

SqTerminated == sqPc = "done" /\ UNCHANGED sqVars

SqNext == WriteUnit \/ SqFinish \/ SqTerminated

SqSpec == SqInit /\ [][SqNext]_sqVars

-----------------------------------------------------------------------------
(***************************************************************************)
(* Properties.                                                             *)
(***************************************************************************)

SqTypeOK ==
  /\ IsSqToken(sqToken)
  /\ sqI \in 1 .. sqEnd
  /\ sqOut \in Seq(SqChar)
  /\ sqPc \in {"scan", "done"}

(***************************************************************************)
(* The loop stands where a unit starts, as many units in as it has         *)
(* written characters: it never reads the second quote of a pair for a     *)
(* character, and stops on the closing quote and not after it.  So the     *)
(* buffer of Text::size() + 1 is never overrun.                            *)
(***************************************************************************)
StandsOnUnits ==
  /\ Len(sqOut) <= UnitCount(sqToken)
  /\ sqI = sqToken.starts[Len(sqOut) + 1]

(* The string is one character for each unit: a pair of quotes is a quote. *)
UndoublesQuotes ==
  sqPc = "done" => sqOut = [n \in 1 .. UnitCount(sqToken) |-> sqRaw(sqToken.starts[n])]

=============================================================================
