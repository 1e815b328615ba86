# ctyaml, verified

TLA+ models of **ctyaml**, the header-only C++ library that parses YAML while the
compiler runs: how a text becomes tokens and a parse tree, how the tree becomes a
document type, what that type answers, and how it is written again. TLC checks the
modules on small instances; TLAPS proves what matters most for every value of the
constants.

## The system

Everything happens in one thread, at compile time. ctlark, the parser generator that
the single header carries, lowers the grammar of `grammar.hpp` to productions and
automata and parses the text with them; `bind.hpp` makes a type of the tree;
`types.hpp` and `views.hpp` answer questions about it, and `serialize.hpp` renders it.
There is no shared state, no failure other than a rejected text and no concurrency.
What is hard is elsewhere:

* the lexer offers only terminals that the chart expects, and the chart is closed over
  nullable symbols, loops and ambiguity, in arrays of a capacity computed beforehand;
* the block structure of YAML is rebuilt from column numbers by templates that
  instantiate each other, a line list at a time; a missing specialisation is a hard
  compile error, an instantiation that does not shrink its list never ends, and the
  `ok` of a document is folded by hand through each of them;
* buffers have computed sizes, and constant evaluation turns one byte too many into a
  compile error of somebody else's program;
* a number is scanned twice, by two functions that trust each other, and converted in
  integers of fixed width;
* what the serializer may write plain depends on what the lexer and the scalar
  resolution make of it when it is read back, far from each other in the source;
* a diagnosis is made after the fact, of a type the failure has already spoiled.

| Component | Source | State | Operations | What makes it correct |
|---|---|---|---|---|
| Grammar | `grammar.hpp` | none | rules and terminals | a token is the scalar YAML's rules say |
| Grammar compiler (ctlark) | `single-header/ctyaml.hpp` | production and automaton tables | `lower_into`, `build_term_nfa`, `finish` | the productions and automata mean what the expressions mean |
| Parser (ctlark) | the same | chart, tokens, position | `run_pipeline`, `tree_builder` | accepts the language; the tree is the first derivation; what is expected is possible |
| Diagnosis of a parse | the same | none | `error_info`, `error_message` | line, column and caret are those of the text |
| Block structure binder | `bind.hpp` 394-410, 441-586, 641-661 | the lines left, the loops entered with their indent, members and `ok` | `parse_block`, `nested_value`, `map_loop`, `map_entry`, `seq_loop`, `seq_entry`, `bind::make` | the document is the tree of the columns; nothing is lost, bound twice or accepted in spite of a failure; always ends |
| Gather pass, diagnosis | `bind.hpp` 41-71, 394-439, 588-675, `ctyaml.hpp` | the current indent, the lines made, the doc-end flag | `gather`, `nl_indent`, `scan_node`, `dup_scan`, `doc_fail` | indents are columns; the reason given is a fault of the text |
| Double-quoted decoder | `bind.hpp` 94-102, 194-293 | position, buffer, length, `ok` | `compute`, `put_code_point` | reads and writes in bounds; refuses exactly the bad escapes; writes the UTF-8 that was meant |
| Single-quoted decoder | `bind.hpp` 297-321 | position, buffer | `compute` | every doubled quote becomes one, nothing else changes |
| Plain scalar resolution | `bind.hpp` 106-190 | none | `plain_null` ... `plain_float`, `resolve_plain` | the core schema; one kind per spelling |
| Flow values | `bind.hpp` 325-390 | none | `bind_value`, `bind_key`, `bind_fpair` | `ok` folds over every child; keys unique |
| Number conversion | `types.hpp` 40-124, 165-197 | mantissa, exponent | `to_arithmetic`, `is_integer` | the value the spelling denotes |
| Document types, views | `types.hpp`, `views.hpp` | spans into static arrays | brackets, `contains`, `items`, `get` | a miss is a null view; no read outside a span |
| Serializer | `serialize.hpp` | output pointer, length | `serialized_size`, `serialize_to`, `plain_safe` | both passes agree to the byte; the output reads back |
| Public API | `ctyaml.hpp` | none | `is_valid`, `parse`, `error_info`, `bind_error` | a verdict for every text |

The components interact by calls only. `parse` runs the parser; `bind` gathers the
segments of the tree into lines, then descends; the descent calls the flow binder for
every line, and that the scalar decoders; `bind_error` scans the tree and the bound type
again, and `error_info` the input; views and the serializer walk the bound type.

## The modules

| Module | Models | Role |
|---|---|---|
| `GrammarTables`, `YamlGrammar` | the lowering of rules and patterns; the grammar itself | pure operators and data |
| `YamlTokens`, `GrammarMeaning` | nothing: the promise | plain and quoted scalars in YAML's words; the words a grammar derives |
| `Earley` | the nullable pass and `run_pipeline` | one component, a step per push |
| `TreeBuilder` | `tree_builder`, the end of `run_parse` | extends `Earley` |
| `Derivations`, `EarleyProperties`, `ParserProperties` | nothing: the promise | what a grammar derives, without a chart; what `Earley` owes to it; what `TreeBuilder` does |
| `ErrorInfo` | `locate`, `render_snippet`, `error_info_of` | pure operators |
| `Lines` | `ln<Indent, Content>`, the document types | data shared by the binder |
| `BlockBinder` | the block structure pass | detailed specification, with its properties |
| `IndentTree`, `BlockRefinement` | nothing: the promise | abstract specification, and `BlockBinder` implements it |
| `Document` | gather, bind, diagnose | composes `BlockBinder` with what is around it |
| `DecodeDQ`, `DecodeSQ` | the quoted scalars | one component each |
| `PlainScalar` | `plain_null` ... `resolve_plain`, `is_integer` | pure operators, and the core schema they are for |
| `ToArithmetic` | `to_arithmetic`, after `resolve_plain` | one component |
| `FlowBinder` | `bind_value`, `bind_key`, `bind_fpair` | pure operators over a parse tree |
| `Characters`, `Serialize` | `serialize.hpp` | pure operators |
| `ReadBack` | nothing: the reader | the scalar terminals and decoders, for what `Serialize` writes |
| `Views` | the types' accessors, the views | one component, a step per read |
| `Library` | `ctyaml.hpp` | composes `TreeBuilder`, `FlowBinder`, `Document`, `Serialize` and `ErrorInfo` |
| `...Proofs` | | theorems: `BlockBinder`, `BlockRefinement`, `Diagnosis` (`Document`, `ErrorInfo`), `Decode` (both decoders), `ToArithmetic` (and `PlainScalar`), `Earley`, `Views` |
| `Induction` | | lemmas of induction and recursion that the theorems rest on |
| `MC...` | | the instances TLC checks |

### `GrammarTables` and `YamlGrammar`

An expression of a rule or of a terminal is a tree of `op` records. `Lowered` makes the
productions of a list of alternatives, with the helper nonterminals for loops, options
and groups in the order in which the code creates them, since that order decides which
derivation the tree builder prefers. `BuildNfa` builds the fragments of an automaton, and
`LongestMatch` runs it with the epsilon closures of the code. `YamlGrammar` spells the
rules and terminals of `grammar.hpp` as such expressions. What ctll does to read the
grammar's own text is not modelled: the expressions are its result.

### `Earley`, `TreeBuilder` and `ParserProperties`

The loops of `run_pipeline` push items to a set and skip those it already holds. A step
of `Earley` is one push, the first in the order of the loop that is still missing; `pc` is
the loop, `ix` the item it looks at. The capacity of the chart is that of the code, and
a push that does not fit is `CloseOverflow` or `ScanOverflow`.

| Code | Actions |
|---|---|
| `compute_nullable` | `MarkNullable`, `NullableDone` |
| start of `run_pipeline` | `PushStart`, `StartDone` |
| `close_set` | `Predict`, `SkipNullable`, `CompleteItem`, `NextItem`, `CloseDone`, `CloseOverflow` |
| the contextual lexer | `SkipIgnored`, `LexToken`, `LexError`, `RejectAtEnd` |
| the scan into the next set | `ScanItem`, `ScanDone`, `ScanOverflow` |
| `run_parse`, after the chart | `Build` of `TreeBuilder` |

`TreeBuilder` is the recursion over a chart that accepts: `find_splits` tries the ends of
a symbol from the longest down, the alternatives are tried in order, and children are
spliced, inlined, kept or dropped by the marks of the rule. Depth and children are
limited as in the code. It is a function of the chart, so it is one step.

`Derivations` has the spans of the input that each symbol derives, as the least solution of
the productions, computed in rounds until nothing is new. `EarleyProperties` compares the
verdict with it.

### `ErrorInfo`

The place of an error as a line and a column, and the window of the line that the message
shows with a caret below. The words of the message are not modelled.

### `Lines`

A content node of the parse tree is a `pair`, a `seqitem` or a value; a
`seqitem` holds a `DASH` and perhaps another node. The nodes of one line are
therefore a run of dashes that ends in a leaf, and a line is `[indent, dashes,
leaf]`, where `dashes` are the widths of the `DASH` tokens (all the binder
reads of them). Scalars and flow collections are bound on their own line by
`bind_value`, of which a leaf carries the result: a bound type of the set `Vals`
and an `ok` flag. `FlowBinder` computes them from the parse tree.

### `BlockBinder`

The instantiation stack of the compiler is explicit. A frame is a `map_loop` or
a `seq_loop` that has been entered (`I`, the folded `Ok`, and for a mapping the
key whose value is being bound); `built` is what each loop has collected (`Ms`,
`Is`); `rest` is the `Lines` parameter handed along; `pc` is the template
instantiated next. Each action is one `if constexpr` branch of one `make`, or
the part of a `map_entry` or `seq_entry` after the inner `make` has answered:

| Code | Actions |
|---|---|
| `bind::make` | `BindEmpty`, `BindBody`, `BindFinish` |
| `parse_block::make` | `ParseBlockPair`, `ParseBlockSeqitem`, `ParseBlockValue` |
| `nested_value::make` | `NestedDeeper`, `NestedSameIndentSeq`, `NestedNull` |
| `map_loop::make` | `LoopDeeper`, `MapEnd` |
| `map_entry::make` | `MapEntryValue`, `MapEntryNested`, `MapEntryResume` |
| `seq_loop::make` | `LoopDeeper`, `SeqEnd` |
| `seq_entry::make` | `SeqEntryAlone`, `SeqEntryInner`, `SeqEntryResume` |

No action applies where no specialisation exists, so a hard compile error would
be a deadlock; deadlock is checked in every run.

### `IndentTree` and `BlockRefinement`

`IndentTree` says what a document is without descending: every node of every
line has a column; a node belongs to the nearest earlier node that encloses it
(a smaller column, or a key at the same column as a dash); the line list is a
document when every parent has room for a block, the children of every parent
form one block, no block repeats a key and every scalar decoded. Its state
machine decides in one step. `BlockRefinement` maps the descent to it: pending
until `pc = "done"`, then the verdict. Every other step is a stutter. Columns,
node lists, children and values are recursive functions, so that the refinement
can be proved and not only checked.

### `Document`

The segments under `start` are newline tokens and content nodes; the gather pass
is an action per segment, `Bind` runs `BlockBinder` (by `INSTANCE`) on the lines
made, and `Diagnose` is `doc_fail`. A content node carries the column it has in
the text, which the code does not see: the properties compare with it. It also
carries whether a double-quoted token in its value fails to decode, which is
what `scan_node` asks, separately from the `ok` of the bound value. Byte
contents of a reported token are abstracted to its place.

`dup_scan` recurses over a type, which has any depth: `DupScan` is a function of the
path from the whole type to the part it looks at. `Types[n]` are the types of
collections nested `n` deep in one another. Two assumptions say what `Document` is
given: the values of flow collections are types of some bounded depth `FlowDepth`
(`ValsAssumption`), and of each list of segments that every line but the first follows a
newline token with the spaces before it (`LineByLine`), and that the `ok` of a
value is false exactly when an escape in it is bad or a flow mapping in it repeats a key
(`FlagsAgree`). The run `library` checks both of the segments that the parser and
`FlowBinder` make of real texts (`SegmentsAreReal`).

### `DecodeDQ`

The loop of `compute`, a step per loop iteration, and a step per digit of the
inner loop. Characters are bytes and positions count from 0. A token comes with
the positions at which the units of its regular expression start; `IsToken`
states what the lexer guarantees. The code's `unsigned long` may be 32 bits wide,
which eight digits fit; the model stops shifting once past the last code point.

### `DecodeSQ`

The loop of `compute`, a step per turn. `starts` lists where the characters of the token
begin, of which a doubled quote is one.

### `PlainScalar` and `ToArithmetic`

A text is a sequence of characters. `PlainScalar` translates the resolution
functions (`Run` is the loop they are made of) and, apart from them, states the
regular expressions of the core schema by cutting the text in every way.

`ToArithmetic` extends it: `Pick` resolves the text, and the rest is
`to_arithmetic<T>` for an integral `T`, an action per loop iteration and per
branch between the loops. `LongBits` and `IntBits` are the widths of `long long` and
`int`; the cast to `T` at the end is `Cast`, and the properties are about every signed
and unsigned `T` of the widths in `TargetWidths`. Unsigned arithmetic and conversions wrap. Signed
overflow is undefined: in constant evaluation it is an error of the compiler, and
in a build the machine wraps, as g++ does. The model wraps and `constant` remembers
that the evaluation is no constant expression any more; `constant = TRUE` is part
of every property about a result. For `.inf` and `.nan` an integral `T` gets 0,
which the code leaves to its caller, and so do the properties.

### `FlowBinder`

A node of the tree is bound on its own line: `BindValue` is `bind_value`, `BindFPair`
`bind_fpair`, `BindKey` `bind_key`. Each returns the type and `ok`, as `bound` does, and
the fold of `ok` over children is spelled as in the code. Quoted tokens are decoded to
what they mean; that the loops of the decoders write this is what the run `decode` shows.

### `Serialize` and `ReadBack`

`Length` and `Content` are the size pass and the write pass, translated apart from each
other. Both recurse over the document by level: a level has what collections nested so deep
in one another are, `MaxNesting` how deep they are (4 in `views` and `library`, as deep as the
texts of the run; 8 in `library_depth`), and where the templates call themselves for an element,
the level above looks it up in the one below. A character is a string of length one; the
control characters have names (`Characters`). `plain_safe` is translated with everything it asks of the other headers.
`ReadBack` runs the automata of the scalar terminals on what was written, with whatever
the serializer may put after a scalar, and decodes what they match.

### `Views`

A view is a record of the spans of `value_view`. `target` is the value that the typed
accessors lead to, `view` the view a client holds. `Index` is the bracket with an index;
`Look`, `Skip`, `LookupEnds` and `ContainsEnds` are the loops of the bracket with a key
and of `contains`; `Iterate`, `NextElement` and `NextMember` are iteration and `items`. A
pointer is the array it points to and a span a pointer and a count, so a read outside of
an array is a read outside of a sequence.

### `Library`

A text goes the whole way: `ParseStep` and `BuildTree` are `TreeBuilder` (by `INSTANCE`)
with the tables of `YamlGrammar`, `BindStart` turns the tree into the segments that the
gather pass sees, with the leaves that `FlowBinder` binds, and `BindStep` is `Document`.
`Explain` is `error_info` of a text that does not parse. `Reparse` serializes a document
that was accepted and starts over with that text; the second round ends with the
comparison of the two documents. The automata are tabulated for each text beforehand.

## Properties and runs

Every property has a mutant, a plausible bug in one definition that TLC finds with the
same configuration.

| Run | Instance | Properties |
|---|---|---|
| `block` | documents of up to 3 lines, indents 0, 1, 2, 4, 12 contents; of 5 lines, indents 0, 1, 2, 4 contents | `TypeOK`, `NestingFollowsIndent`, `BadScalarsReject`, `StepsDescend`, `AlwaysDecides`, `ImplementsIndentTree` |
| `document` | up to 3 lines of text, `---`, blank lines, CRLF, 8 contents; 300k states | `IndentIsColumn`, `BlameIsReal`, `NoFaultIsMissed` |
| `document_end` | the same | `DocEndIsAtColumn0`, violated |
| `decode` | double-quoted tokens of up to 3 of 35 pieces; single-quoted ones of up to 5 units; 875k states | `StaysInBounds`, `RefusesExactlyBad`, `WritesWhatIsMeant`, `StandsOnUnits`, `UndoublesQuotes`, `StepsAdvance` |
| `number` | texts of up to 5 of 11 characters; 8-bit `long long`, 6-bit `int`, `T` of 7 and 8 bits; 434k states | `KindIsCoreSchema`, `ReadsInText`, `ConvertsWithinWidth`, `AlwaysConverts` |
| `number_fraction` | the same, `T` of 7 bits | `FractionsTruncate`, violated |
| `number_least` | up to 4 characters, `T` of 8 bits | `IntegersConvert`, violated |
| `parser` | every grammar of 2 or 3 productions of up to 2 symbols, words of up to 2; one with every mark of a rule, texts of up to 3 characters; two that fill the chart; 332k states | `TypeOK`, `TokensFit`, `AcceptsExactly`, `ExpectedIsViable`, `ShortInputsFit`, `ResolvesAsListed`, `LexesLongest`, `AlwaysEnds` |
| `compile` | expressions of up to two operators over two leaves; the scalar terminals on every text of up to 5 and 6 characters; 5k states, each of which compares whole languages | `LoweringKeepsWords`, `MatchesLongest`, `PlainIsLongest`, `QuotedCloses` |
| `library` | every text of up to 3 of 8 characters, of up to 2 of 10 within brackets and braces, 13 longer ones; 200k states | `RoundTrips`, `SegmentsAreReal`, `DiagnosisPoints` |
| `library_depth` | block sequences nested up to 8 deep, a depth limit of 24 | `RoundTrips`, violated |
| `views` | documents of two levels with up to 2 children, every string of up to 3 of 17 characters and every character of ASCII in four places; 93k states | `ReadsInside`, `FollowsPath`, `TellsMisses`, `VisitsEach`, `WritesExactlyLength`, `ScalarsReadBack` |

* `block` follows the recursion: blocks nest as their indents do, a failed scalar or an
  indentation error always reaches the root, every step shrinks a measure, every document
  is decided, and the verdict **and** the document are those of `IndentTree`: an item in
  the wrong sequence, a synthetic column off by one or a leftover line that is ignored is
  a counterexample.
* `document` checks that the indent a line is given is its column, and that what
  `bind_error` says is true of the text. It answers a question the code raises by itself:
  the duplicate scan works on the type of a *rejected* document, where an indentation
  error has replaced whole blocks by `null`. It may overlook a duplicate there and answer
  `bad_indent`, which is then also a fault of the text (`BlameIsReal`), but not in a
  document whose lines nest (`NoFaultIsMissed`).
* `document_end` is a disagreement between the code and its comment. `bind.hpp:405` speaks
  of `...` at column 0; the code tests `Cur == 0`, which also holds after `--- `. So
  `--- ...` is rejected although its scalar stands at column 4.
* `decode` checks the double-quoted decoder against a description of escapes by their
  digits and a reading of UTF-8 by the table of the Unicode standard, neither of which
  uses the code's arithmetic; and that the single-quoted one looks for a pair of quotes
  only where a character of the token begins.
* `number` checks the resolution against the core schema, that `is_integer` agrees with
  it, that `to_arithmetic` finds what it takes for granted (a character after `e`, digits
  after that, nothing left over), and that the result is the number the text denotes,
  fraction truncated, when the widths can hold its digits; for an unsigned `T` also where only
  `unsigned long long` holds them, which survives the way through `long long`.
* `number_fraction` and `number_least` are where the widths bite although `T` could hold
  the result. The digits of a fraction go through `long long` with the whole part before
  they are cut off, so `12.8` in 8 bits (128 wraps) is -12; in the code, `to<int>()` of
  `1.00000000000000000000` is 0 and of `9.223372036854775808` is -9. And the magnitude of
  the least value is negated after it has become that value: `to<long long>()` of
  `-9223372036854775808` is no constant expression. The README of the library says that
  `to<T>()` converts, and that it truncates fractions like a cast would.
* `parser` compares the chart with the language of the grammar, computed as the least
  solution of its productions: what is accepted derives and what is refused does not, a
  terminal is expected exactly when the tokens read so far go on with it to some word, and
  the tree is the derivation that comes first when alternatives and then longest pieces
  are preferred, in the shape the marks of the rules give it. `LexesLongest` says which
  token wins where several match. `ShortInputsFit` bounds from below when the chart can be full.
* `compile` compares productions and automata with the words of the expressions they were
  made of, and the scalar terminals with YAML's rules for plain and quoted scalars.
* `library` runs all of it on real texts: columns survive lexer, tree and gather pass, and
  the segments are as `Document` assumes (`SegmentsAreReal`); what
  is serialized parses to the same document; the place that is reported can be looked up.
* `library_depth` shows where that ends. A nested block sequence costs the tree builder
  fewer levels than a nested flow sequence, because `_item` splices, and its recursion is
  limited to 256: a document of 90 nested block sequences is valid, and what `serialize`
  makes of it does not parse. The run has a limit of 24, for 8 levels.
* `views` walks documents along chains of any length, through misses and out of them, beside
  the typed accessors, and serializes them.

**Bounds.** The binder looks at one line and one indent at a time, so what can go wrong
needs an outer loop, an inner loop, and a line that could belong to either or to neither:
three lines. Four indents give a column between any two of those, before, between and
after the columns that dashes of width 2 make. Five lines reach blocks that close two
levels at once and go on. The contents include each kind of leaf, good and failed, dashes
alone, wide and in a chain, and two keys that may collide. `decode` has the first and the
last code point of every UTF-8 length, both ends of the surrogates, openings of hex
escapes that take their digits from the pieces after them, or do not find them, and bytes that
are half a character, which the decoder copies as they are. The
alphabet of `number` spells signs, dots, prefixes, exponents, an octal digit, a digit that
is none, and a hex digit that is no `e`; five characters put a sign on both the mantissa
and the exponent, and in 8 and 6 bits three digits and two overflow what 19 and 10 do in
the code. The widths keep the order of the real ones, and the code never compares with a
width.

Three productions over two nonterminals, in every order, hold left, right, mutual and hidden
recursion, cycles, symbols that are nullable directly and through each other, and ambiguity,
beside two crowded grammars that fill the chart while a set is closed and while a token is
scanned. A grammar with every combination of the marks of a rule, with a keyword inside a
word, an ignored terminal and a priority is added for the trees and the lexer. `Slack` is how
many terminals more a word may have that completes what was read. Two operators are enough for
every nesting of one operator in another, which is where a fragment's states could be shared
or a helper reused. The characters of `compile` are one for each class that the terminals
distinguish. The texts of `library` have every construct of the grammar and every reason for a
rejection, and the short ones are complete over what is a token by itself. The snippet is
4 characters wide with a caret within 2 instead of 72 and 60, so that short lines are cut on
both sides. `MaxDepth` and `MaxKids` are those of the code where texts are short enough.

**Fairness.** `AlwaysDecides`, `AlwaysConverts` and `AlwaysEnds` need it: weak fairness of
`Next`, in the parser of `Parse`. A compiler that has started to instantiate a template or to
evaluate a function goes on until it is done or runs out of resources; the limits of a compiler
are not modelled.

**Deadlock** is checked in every run. The modules stutter explicitly when done, so a missing
specialisation, a loop with no way on or a lexer with no verdict would be found.

## What is proved

`BlockBinderProofs`, for every set of keys and values and every set of line lists:

| Theorem | Statement |
|---|---|
| `TypeCorrect` | `Spec => []TypeOK` |
| `NestingCorrect` | `Spec => []NestingFollowsIndent` |
| `EntriesCorrect` | `Spec => []LoopsHaveEntries`: no collection is empty |
| `FailureFinal` | `Spec => FailureSticks`: an `ok` that is false stays in a frame or in the result |
| `ScalarsCorrect` | `Spec => []BadScalarsReject` |
| `StepsAreWellFounded` | `Spec => StepsDescend` |
| `AcceptedKeysUnique` | an accepted document has no repeated key, at any depth |

The assumptions are `KeysAssumption` (the value that stands for "no key" is not a key) and
`DocsAssumption` (the documents are finite lists of lines). `TypeOK` is inductive as stated,
since it says with the types what each template takes for granted: `parse_block` a line, the
loops a frame, and a held key exactly while a mapping waits for that key's value. Without the
last part, `MapEntryResume` could not be shown to build a member. `NestingFollowsIndent` is
inductive relative to `TypeOK`: its second conjunct, that a block about to be parsed is deeper
than every open loop, is the strengthening that entering a loop needs. For `BadScalarsReject`
the invariant says that what is left of the lines is a suffix of the document, leaf by leaf,
since a dash may already have been unwrapped. `StepsDescend` is proved step by step: the lines
left, then the dashes of the head line, then twice the depth plus a weight of `pc`.
`AcceptedKeysUnique` says it over the set of documents rather than by recursion: for any set
`D` of documents that holds `null` and the values of single lines and is closed under sequences
of its members and mappings of its members with distinct keys, an accepted document is in `D`.
Its invariant is that everything collected is in `D`, or some `ok` is false already.

`BlockRefinementProofs`, from the same assumptions:

| Theorem | Statement |
|---|---|
| `DescentFollowsTree` | `Spec => []DescentInv`, the inductive invariant |
| `ImplementsTree` | `Spec => ImplementsIndentTree`: the descent decides, and binds, as the tree of the columns says |
| `BoundKeysReal` | what is bound, of a rejected document too, has a repeated key only where the text has one |

Nothing the code keeps says where in the tree it is: it has a list of lines, one indent per
loop and what was collected. The invariant gives it a place, by two witnesses: how many of the
document's nodes are read (`Suffix`: what is left are the nodes after them, though the line they
are on may have lost its dashes), and which node owns the block of each open loop (`Open`: a
chain in which each is the parent of the next, encloses the entries of its loop and has
everything read since inside it). From the columns it follows that a line that is deeper than
the loop on top has the last entry as its parent, one at its indent the loop's owner, and one
further left closes the loop for good. `Shaped` says that the children read so far form blocks,
`Filled` that each loop has collected the values of the children of its owner, up to the one it
waits for, and `NoTwins` that a repeated key is in a loop that is still open, where `MapEnd` will
find it. `NoPlace` is what ties the refusals to the tree: in a legal tree, the next line belongs
to no block that has been closed. While nothing failed all of this holds, and when it ends the
tree is legal and its value has been collected. When something fails the tree is not one of a
document (`LoopDeeper`, `BindFinish`, a sequence after an entry), or a leaf is bad or a key
repeated, and that stays so. `DescentInv` says both. The place is known after a failure too,
since the code goes on then, until a line too deep makes it drop what is left; in a legal tree
there is none, so that even a rejected document is bound to the value of its tree.

The diagnosis needs more of the descent than the verdict: what it has bound of a document
that *fails*. `BoundKeysReal` says that every mapping in it has repeated keys only where the
text has them. `AcceptedKeysUnique` says nothing there, and neither does the part of
`DescentInv` about the tree. But `DescentInv` knows the place in
the tree until a line too deep throws the rest of the document away (`Lost`), in a failing
descent as well, and with it that a loop collects the entries of one node. Hence `KeysInv`: a
key that a loop has collected twice, or collected and now waits for the value of, is in two
entries of one block; nothing is collected after that, and closing the loops that are still
open adds a member under a key that was already held. Again "every mapping in it" is
said by sets that are closed (`Genuine`), not by recursion. `BinderInv` is all of the binder's
invariants together.

`DiagnosisProofs`, for every set of texts (`TextsAssumption`, `ValsAssumption`) and every
`FlowDepth`:

| Theorem | Statement |
|---|---|
| `IndentIsColumnOfText` | `Spec => []IndentIsColumn` |
| `BlameIsRealOfText` | `Spec => []BlameIsReal` |
| `NoFaultOfTextIsMissed` | `Spec => []NoFaultIsMissed` |
| `InfoPoints` | for every text, place in it and width of the window (`WidthsAssumption`), what `error_info` says of that place `PointsInto` the text, which is what `DiagnosisPoints` asks |
| `CaretPointsAt` | the part of it about the snippet |

The invariant (`DiagnosisInv`) says while gather runs which segments have become which lines,
and that the indent held is that of the last newline passed; afterwards that `BinderInv` holds
of these lines, carried over step by step since a step of `Bind` is a step of `BlockBinder`.
From there it goes in three parts. A document is accepted exactly when it is well indented, no escape is
bad and no key repeated, by the refinement of `IndentTree` (`AcceptedIsFaultless`). What
`dup_scan` finds in a type are the keys that come twice in one of its mappings, by induction
over `Types` (`DupScanIsRight`). What comes
twice in the bound type comes twice in the text, always (`BoundKeysReal`, of the set `Blamed`),
while what comes twice in the text comes twice in the bound type if the lines are well
indented, since it is then the value of the tree even when the document is
rejected (`TreeKeepsRepeats`). `bad_indent` is what is left over: no
bad escape, a clean end, no repeated key in the bound type. Were the text well indented, it
would have been accepted.

`DecodeProofs`, for every set of tokens the lexer may deliver to the double-quoted decoder
(`TokensAssumption`):

| Theorem | Statement |
|---|---|
| `BytesOnly` | `Spec => []TypeOK` |
| `ReadsAreInside`, `BufferIsEnough`, `AlwaysInBounds` | `Spec => []ReadsInside`, `[]BufferFits`, and both as `[]StaysInBounds` |
| `AlwaysAdvances` | `Spec => StepsAdvance` |
| `RefusalsAreRight` | `Spec => []RefusesExactlyBad` |
| `WritesMeaning` | `Spec => []WritesWhatIsMeant` |

That a character follows a backslash holds because the loop only ever stands where a unit of
the token's regular expression starts, and that a hex escape ends on such a place because a
hex digit is a unit by itself (`AtUnits`). The buffer bound is the third part of the invariant,
`2 * Len(out) <= 3 * (i - 1)`: `\L` and `\P` write three bytes for two characters, everything
else less for each. For the refusals the invariant relates the loop to the token: the units
passed are good exactly while `ok`, and the digits read so far spell `cp` (`Spelt`), or both are
past the last code point already, after which no digit brings them back (`Judged`).

`WritesWhatIsMeant` reads the output as UTF-8 and compares it with the code points the token
means. The code never reads UTF-8: it copies a character byte by byte, and writes the bytes of a
code point for an escape. So the invariant (`Faithful`) keeps the pairs of places at which the
same code point starts in the output and in the token, each leading to the next, up to a last
pair from which one of two things holds. Either the output ends with bytes copied from there, of
a character that is not whole yet; or the token is malformed there and so is the output,
whatever is still written after it. An escape in the middle of a character leads from the first
to the second, since no first byte that `put_code_point` writes continues a character. What
`put_code_point` writes reads as the code point (`Utf8Reads`), and what the digits spell is its
argument (`SpelledRead`, from `Judged`). At the closing quote the two readings are equal from
each pair on, by induction from the last pair back.

and, for the single-quoted one (`SqTokensAssumption`): `SqTypeCorrect`, `UnitsKept` (`[]StandsOnUnits`) and
`QuotesUndoubled` (`[]UndoublesQuotes`); the invariant adds that output `n` is the character of
unit `n`.

`ToArithmeticProofs` begins with what has no state: `CoreSchema` says for every text that `plain_int` or
`plain_float` accepts it exactly when the core schema calls it a number, and that `is_integer`
then tells its integers. The code scans by runs of digits, the schema is stated by cutting the
text in every way; the lemmas say what a run, a part and a scan are, and that a cut that
matches lies where the runs end.

Then, for every width and every set of texts (`TextsAssumption`, `BitsAssumption`):

| Theorem | Statement |
|---|---|
| `ScansAgree` | `Spec => []ReadsInText` |
| `KindsAreRight` | `Spec => []KindIsCoreSchema` |
| `ConvertsRight` | `Spec => []ConvertsWithinWidth` |

`ReadsInText` is not inductive: nothing in `to_arithmetic` says that an `e` has a digit behind
it. The invariant `Where` says for each loop where it stands in terms of the scan by which
`plain_float` accepted the text.

`ConvertsRight` needs in addition (`Count`) what the loops have computed: each accumulator is the
number that the characters read so far spell (`Spelt`, a function of the place), in `scale` the
value is the mantissa times, or over, the power of ten that has been counted off (`Scaled`), and
no signed operation has overflowed yet, as long as the types hold what the text denotes
(`Manageable`). The accumulators only grow, so that a final value that fits has fitted all along;
ten to the power of what is left is why the product has too, and cutting off the last digits one
by one is cutting them off together. The theorem is where the condition of the property comes
from: that the sum of places and exponent fits `int` is not enough. The exponent has to fit
without its sign (`1e-32` in the run), and the places have to before the exponent is added,
which no text of the run is long enough to show. The last case, an unsigned `T` of as many bits as `long long`, is that a
number wrapped to a negative one casts back (`CastIs`).

`EarleyProofs`, for every grammar and input (`JobsAssumption`, `LongestAssumption`):

| Theorem | Statement |
|---|---|
| `TypeCorrect` | `Spec => []TypeOK`: items point to sets that exist, and there are never more than the chart holds |
| `TokensAlwaysFit` | `Spec => []TokensFit` |
| `ParserSound` | an accepted text is read to its end and its tokens are in every relation that has the tokens and is closed under the productions |
| `ParserExact` | `Spec => []AcceptsExactly`: what is accepted has a derivation, and what is refused has none |
| `ThreeTokensFit` | `Spec => []ShortInputsFit` |
| `ParserExpects` | `[](ExpectsExactly /\ LexesExactly)`: the terminals awaited are those that can follow the tokens, and each token is the longest match of what can |

`JobsAssumption` says that a symbol is a rule or a terminal, since the code interns them apart.
For soundness the invariant says that every item's symbols before the dot cover what lies
between its origin and its set, in each closed relation, and that nullable symbols cover
nothing; the least solution of `Derivations` is such a relation. For completeness the loops of
the code, with all their skipping of what is there, must leave nothing out: `ClosedSets` says
that a set that has been left is closed under prediction, completion, nullable symbols and the
token scanned, and `FilledSoFar` what holds of the set being filled for the items looked at. An
item that is completed where it starts does nothing in the code, since the nullable symbols have
been advanced over already; `NullableKnown` is why that is enough. From these, by induction over
the rounds of the least solution, whoever awaits a symbol at the start of a span it derives has
been advanced at its end (`Charted`), so that a set without a finished start production has read
what is no word. That the rounds settle is a theorem too: there are finitely many spans.
`ThreeTokensFit` counts: a set holds no item twice (`Once`), and set `n` items from at most
`n + 1` sets.

`ParserExpects` is what `ExpectedIsViable` and `LexesLongest` check of small grammars, without
the bounds on words that a run needs: `CanFollow(n, t)` says that some word of the language, of
any length, begins with the first `n` tokens and goes on with `t`. That nothing is missed is
shown on such a word: were `t` not awaited in set `n`, what the word derives up to there would be
charted, and of what goes beyond nothing would be asked for (`Passed`), not even the start
symbol at 0. That nothing is offered in vain needs that every symbol derives some word
(`Completable`; `Productive` in the run), without which it is false: the invariant `AllAsked` says
of every item that a word which begins as the tokens do, and has the item's nonterminal where
the item starts, goes on to a word of the language; what an item awaits does so because what
it lacks can be appended (`RestDerives`), and what derives of one word derives of another that
has the same piece (`DerivedMoves`). Between the tokens lie matches of ignored terminals (`Gaps`).

`ViewsProofs`, for every set of documents closed under children (`DocsAssumption`), and chains
of any length: `ReadsAreInside` (`[]ReadsInside`), `ChainsFollow` (`[]FollowsPath`),
`ContainsTells` (`[]TellsMisses`), `EachIsVisited` (`[]VisitsEach`). The invariant says what
has been passed by a search and collected by an iteration. `PassesAgree`
(`[]WritesExactlyLength`) is about the serializer, for documents nested to any depth with
collections and texts of any length: a text put together from parts is as long as the sum of
theirs (`FlattenSize`), the separators the size pass adds at once are those the write pass puts
before each element but the first (`SeparatedTotal`), an escape is as long as the size pass takes
it to be, so a document is written to the byte if its elements are (`DocumentFits`), and by
induction over the levels every document is (`SerializedFits`). `NestedDef`, `SizesDef` and
`SerializedDef` are the equations of the three recursive functions.

`Induction`: the induction theorems of the library take an operator as a parameter, which no
installed prover instantiates. Here induction is over a set of numbers that has a least member
or is closed under successors, and a recursive function is shown to satisfy its equation by
building it (`RecursionExists`, `RecursionUpTo`, `RecursionForward`). With these, what `Columns`,
`Nodes`, `Children`, `Values`, `EndsAfter`, `Rounds`, `Written`, `Meant`, `TwoTo`, `TenTo`,
`DigitsValue`, `Total`, `Nested`, `SerializedSize`, `Serialized`, `Types`, `RepeatedKeys`,
`DupScan`, `Places` and `Locate` compute is proved for every input.

Only model-checked: liveness (`AlwaysDecides`, `AlwaysConverts`, `AlwaysEnds`; of the first the
well-founded steps are proved), which the prover does not reach; of the parser the tree
(`ResolvesAsListed`) and the forms of `ExpectedIsViable` and `LexesLongest` that TLC can evaluate,
by a recursive enumeration of words; that scalars read back, which runs the automata of the terminals
(`ScalarsReadBack`); and everything about `GrammarTables`, `FlowBinder` and `Library`
(`LoweringKeepsWords`, `MatchesLongest`, `PlainIsLongest`, `QuotedCloses`, `RoundTrips`,
`SegmentsAreReal`, and of `DiagnosisPoints` that the parser stops at a place in the text), which
contain recursive operators, for which the prover loses its backend.

## Not modelled

* What ctll does with the text of a grammar (an LL(1) parse), grammar imports and templates,
  the names that literals get as terminals and how they are interned, and the lifting of the
  tree to types: the models start from the rules and expressions that are the result.
* The words of messages, and the tracing beside the pipeline (`tracer` callbacks).
* Conversions to a floating `T` (`types.hpp` 114-123): `long double` arithmetic that rounds at
  every step, after loops that are those of the model.
* Compiler limits: instantiation depth, constant-evaluation steps.
* The debugging toolbox forwards to ctlark. Build files, packaging, the C++20 module wrapper,
  examples and tests hold no behaviour of the library.

The single header is an amalgamation of ctll, ctlark and the library's own headers, in which
most includes occur several times; the models cite the first occurrence, the one that the
include guards keep. Most of its lines are the other copies.

## Other disagreements met

Without a run of their own, because the passing runs state what is true instead:

* `single-header/ctyaml.hpp:8127` says that the parser handles every context-free grammar.
  Its chart is of a capacity linear in the input, and a rule of 14 nullable symbols, each the
  rule itself, fills it with nine characters (`perr::overflow`); with 15 and twelve
  characters it is full while a token is scanned, which line 8484 says cannot happen, and the
  verdict is `perr::parse`. `AcceptsExactly` and `ShortInputsFit` are stated with that. YAML's
  grammar is far from such a crowd.
* `grammar.hpp:16` says that `:` in a plain scalar is not followed by a space; the terminal lets the
  `:` through that follows a leading `-` or `?`, so `-: x` and `?: x` are one scalar
  (`ColonAfterIndicator` in `PlainIsLongest`).
* A text of more than 128 lines has more segments than the tree builder keeps children for a
  node (`max_kids`, 8513) and is rejected.
* A capacity failure leaves `err_pos` at 0, so that it is reported at the first character.
