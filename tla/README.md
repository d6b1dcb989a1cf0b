# A TLA+ model of rdpgen

rdpgen reads a grammar file with rules, code blocks and directives, and is
meant to emit a recursive descent parser. At this commit it parses the file,
runs two passes over the rules and prints the result; the call that would emit
code is commented out (`src/src/rdpgen.c:22`). These modules model the C code
that is compiled and executed, and the two container libraries it comes with.

Paths below are those of the repository, below `src/`.

## 1. Inventory

rdpgen is one sequential process. Nothing runs concurrently, nothing is
persisted and nothing is retried. What makes it hard is elsewhere: global state
shared by all modules (the current token, the file stack, the error count),
lookahead that one function reads and another consumes, error paths that leave
half-built data behind, loops that end only because of an error count, walks
over linked lists with a cursor inside the list, and end-of-input conditions.

| component | state | operations | talks to | correct when |
|---|---|---|---|---|
| input files, `src/fileio.c` | stack of open files, each with its current character, line and column | `open_input_file`, `get_char`, `consume_char`, `get_line_no`, `get_col_no` | libc; called by scanner and `errors.c` | the stack is one character stream, positions are those of the current character |
| scanner, `src/scanner.c` | the one current token `_tok` | `consume_token`, `get_token` | file stack; `syntax`, `fatal` | tokens are those of the text; calls return |
| errors, `src/errors.c` | `errors` | `syntax`, `fatal`, `get_errors` | every component | the count says whether the grammar was accepted |
| parser, `src/parser.c` | `Pstate`, the rule and pattern under construction | `parse_input` and the `parse_*` functions | scanner, typed lists | accepts the grammar files, and keeps what they say |
| preprocessor, `src/preproc.c` | `terminals`, `non_terminals`, `is_terminal` flags | `make_non_terms`, `make_terms` | typed lists | every symbol classified once, duplicates reported |
| dump, `src/dump.c`; main, `src/rdpgen.c` | none | `dump_state`, `main` | all of the above | prints clean states only, right verdict, ends |
| linked list, `src/list.c`, typed by `src/ptrlst.h` and `src/utils.c` | nodes with `next`/`prev`; `first`, `last`, `crnt`, `len` | append, prepend, insert, remove, push, pop, peek, index, reset, iterate, destroy | memory | a sequence with safe iteration |
| hash table, `src/hash.c` (not linked into rdpgen) | slots, `cap`, `count`, `tombstones` | `hashInsert`, `hashFind`, `hashRemove`, `hashCreate`, `hashDestroy` | memory | a map, searches end |
| strings, `src/strs.c`, and the file names of `src/utils.c` | buffer, `len`, `cap` of each string | create, copy, append, strip, clear, compare, change case, destroy; `header_name`, `source_name` | memory; called by scanner, parser, file stack | writes stay in the buffer, texts end in it, the length is that of the text |
| memory, `src/memory.c` | none | `mem_alloc`, `mem_realloc`, exit when they fail | the garbage collector | callers know which bytes are written |
| emitters `src/emit*.c`, `src/backup`, `test`, `docs` | - | - | - | see "not modelled" |

Calls are plain C calls. The data that crosses components is the token (scanner
to parser), the rule list (parser to preprocessor to dump) and the error count
(all of them). PROJECT.json lists, under "hazards", each place of the code
where one of these can go wrong in a way that a test would hardly reach.

## 2. Modules

| module | models | depends on |
|---|---|---|
| `RuleTree` | the rule data of `parser.h` | |
| `Tokens` | the tokens of `scanner.h` | `RuleTree` |
| `Parser` | `parser.c`; the scanner is an arbitrary source of tokens | `Tokens` |
| `Grammar` | reference: which token sequences are grammar files, and what they say | `Tokens` |
| `PreProc` | `preproc.c` | `RuleTree` |
| `Rdpgen` | `rdpgen.c` and `dump.c`; composes `Parser` and `PreProc` | both |
| `FileStack` | input half of `fileio.c` | |
| `CharStream` | abstract: one stream of characters | |
| `Scanner` | `scanner.c`, character by character, over one stream | |
| `TokenSource` | abstract: what `Parser` assumes of the scanner | `Tokens` |
| `Frontend` | `parse_input` on a file; composes `FileStack`, `Scanner` and `Parser`, with the position that `syntax` prints | the three |
| `StringBuffer` | `strs.c` over `memory.c`, byte by byte; `header_name` and `source_name` | |
| `TextSpec` | abstract: string objects that are texts | |
| `Lexicon` | reference lexer, not a state machine | |
| `LinkedList` | `list.c`, pointer by pointer | |
| `ListSpec` | abstract: a sequence with an iteration | |
| `HashTable` | `hash.c`, slot by slot | |
| `MapSpec` | abstract: a map | |

`<X>Props` states the properties of `X`, `MC<X>` gives the bounds, and
`<X>_proofs` holds the proofs; those about `Parser` are in `Rdpgen_proofs`, whose
program contains it. The references (`Grammar`, `Lexicon`) are written
independently of the control flow that they judge, as sets of sequences and as
functions of the text.

How state corresponds to code:

* `Parser`: `tok` is `_tok`, `pc` the place in `parse_input` and the functions
  below it ("top" the loop, "alternatives" the loop of `parse_rule`, "elems" the
  loop of `parse_pattern`, "skip" the last line of a directive's function,
  "done" after the return). A step is one call of `consume_token` with the code
  up to the next one. `rule` and `elems` are the objects that are not in a list
  yet. `input`, the distinct tokens delivered, is a history variable that only
  the properties and the bound read. `fatal`, `nomemory` and `hung` are what the
  scanner may do instead of returning: exit from `check_eof` after two reports,
  exit from `mem_realloc` (`src/memory.c:36`) with no error counted, and loop.
  They occur wherever it still has input, which is more than the real scanner
  does; in `Frontend` they occur where the real one does them.
* `PreProc`: `cur` holds the cursors of the three nested `FOR_LST` loops. An
  empty list makes the loop body run on an address just above NULL, the
  "crash" phase; `WildLoop` says so once for all loops.
* `Rdpgen`: `stage` is the line that `main` has reached, `out` what was
  printed, `status` how the program ended ("killed" is the signal).
* `FileStack`: `pos` is the position of `ch`; the top of the stack is the head.
* `Scanner`: `rest` is the remaining text with the current character first;
  `pc` names the loop that is running. A step is one iteration. Characters are
  classes: letters (with the underscore), digits, spaces, the newline, bytes
  above 0x7F, the byte 0xFF, and the characters that the code names.
* `Frontend`: the variables of the three components side by side; the file
  stack stands for the scanner's `rest`. A step of the scanner is a step here.
  The step in which `consume_token` returns is at the same time the parser's
  step up to its next call, which leaves out no order: there is one thread.
  `reports` is history: for each call of `syntax`, the number of tokens read and
  whether a name, and which line and column, are printed.
* `StringBuffer`: a buffer is a function on the positions `0 .. cap - 1`, and a
  write goes to the position that the code computes, whether it is one or not.
  `Junk` is a byte that `mem_realloc` returned and nobody wrote. `strip_str`
  takes the `strlen` of the object itself, whose first bytes are a pointer:
  `HandleLens` are the results that this can have. `spoiled` is history.
* `LinkedList`: an element is its address, the functions `next` and `prev` are
  its fields. `iterating`, `pops` and `op` are history: they record what the
  comments in `list.c` require of the caller (no change while iterating) and
  what the abstract list needs to know. Any `reset_lst` begins an iteration, that
  of an empty list too: `ret` is then a wild address, which the loop's body gets.
  An index that no element has, and a pop of the empty list, end in `Killed`.
* `HashTable`: `Probe(k, c, n)` is the n-th slot that `find_slot` looks at, the
  change of distance after `cap` probes included. `misses` and `removed` are
  history.

Operators that stand in front of a definition with a similar name
(`RuleErrorsUnchecked` before `RuleErrors`, and so on) are plausible mistakes.
Each property is known to fail when the definition after it is replaced by one
of them; PROJECT.json, "mutants", says which.

## 3. Runs

| run | what it checks |
|---|---|
| `parser` | `VerdictIsRight`: the error count is 0 exactly for the inputs of the reference grammar. `TreeMatchesInput`, `SettingsMatchInput`: rules, code blocks and settings are those of the file. `RulesWellFormed`, `TypeOK` |
| `preproc` | `EverySymbolClassified` (once, and on one side only), `FlagMarksFirstUse`, `EveryDuplicateReported`, `CrashIffEmptyList`, `Ends` |
| `rdpgen` | the same, end to end and on tokens: `KilledOnlyByEmptyLists` gives the exact set of grammar files that kill the program, `ReportIsRight` and `OnlyCleanStateIsPrinted` what it prints, `PrintedListsAreComplete`, `AlwaysEnds` |
| `file_stack` | `ImplementsStream` (refinement of `CharStream`), `NoFinishedFile`, `PositionsAreRight` |
| `scanner` | `TokensAreRight` against the reference lexer, texts with a NUL included, `StopsOnlyWhereItMust`, `CallsReturn`; `ImplementsSource` (refinement of `TokenSource`) shows that what `Parser` assumes of the scanner is so |
| `frontend` | `VerdictIsThatOfTheText`: the error count is 0 exactly when the reference grammar accepts what the reference lexer makes of the characters. `ErrorsPointBehindTheToken`: where an error message points. `ParsingEnds` |
| `strings` | `BuffersNotOverrun`, `TextsEnd`, `LengthsFitTexts`, and `ImplementsTextWhileSound` (refinement of `TextSpec` as long as no length is spoiled) |
| `list` | `ImplementsList` (refinement of `ListSpec`), `Linked`, `CursorIsLive`, `NothingLeaks`, `IndexingIsRight`, `LenCountsAllButPops` |
| `hash` | `ImplementsMapUntilRemoval` (refinement of `MapSpec`), `EntriesAreReachable`, `FindSlotReturns`, `LoadIsBounded`, `CountIsEntriesAndMisses` |

Three runs violate a property that states what a sentence of the repository says:

| run | sentence | what happens |
|---|---|---|
| `rdpgen_doc` | `README.md:6` "There are no basic restrictions on the grammar." | `a : {}` kills the program: `reset_lst` of an empty list is not NULL |
| `file_stack_line` | `src/fileio.c:104` "Return the line number of the current file." | a newline that is the first character is not counted |
| `hash_dup` | `src/hash.c:152` "cannot store duplicate key" | a tombstone hides a stored key, which is then stored again |

Other sentences are contradicted by what a passing run shows. There the property
states what the code does, and the sentence is false in the states named here:

| run, property | sentence | what the code does |
|---|---|---|
| `scanner`, `TokensAreRight` | `src/scanner.h:10` "SYMBOL, // [a-zA-Z_][a-zA-Z0-9_]+" | one letter is a symbol too |
| `scanner`, `TokensAreRight` | `src/scanner.h:8` and `:11`, a block or string ends in `.*[^\n]` | both may be empty and hold newlines |
| `scanner`, `TokensAreRight` | `src/scanner.h:17` "END_OF_INPUT, // file's end" | the byte 0xFF between tokens gives it anywhere in the file |
| `list`, `LenCountsAllButPops` | `src/list.c:291` "Get the list length." | `pop_lst` leaves `len` as it was: one too many for each pop |
| `hash`, `LoadIsBounded` | `src/hash.c:11` "The table is full when 3/4 of the buckets are in use." | `src/hash.c:87` resizes beyond 4/7 |

Related behaviour that the models contain, without a run of its own: the end of
the file inside a string, block or comment is never noticed
(`StopsOnlyWhereItMust` says exactly where); an empty file below or above others
would make `get_char` return EOF early (rdpgen opens only one); `reset_lst`
returns neither NULL nor an item on an empty list (`CursorIsLive`); failed lookups
make an empty hash table count as full (`CountIsEntriesAndMisses`); the process
exits with 1 and an error count of 0 when the memory is used up in an unclosed
string or block (`ReportIsRight`); a byte above 0x7F inside a string ends the process with
"unexpected end of file" (`src/scanner.c:33`, `StopsOnlyWhereItMust`);
`strip_str` sets a length that is not that of the text, and a NUL in a block of
the grammar cuts its code off (`LengthsFitTexts`, `TokensAreRight`). An error at
the end of a file is printed with the name NULL and the line -1
(`ErrorsPointBehindTheToken`).

### Bounds

* `parser`: inputs of up to seven tokens over two rule names, two strings, two
  numerals, one block. Seven tokens hold two rules, a rule with two patterns,
  or a rule and a directive, and an error at each place. Strings have two values so that
  the last of two `%name` is told from the first. Integers have 4 and longs 5
  bits: "9" wraps, "99" saturates first. Past its bound the source delivers only
  the end of the input.
* `rdpgen`: ten tokens over four symbols. That is two rules whose symbol lists are
  printed (`%verbosity 6 a : b {} x : y {}`, and the same with names that are used
  before their definition or defined twice), and one rule with every section of
  the dump (`%verbosity 6 a : b {} %code {}`). `Bounded` in `MCRdpgen` leaves out
  inputs whose symbols are not in one fixed order of first use, which are those
  it keeps with other names for the symbols, and what the parser does in an input
  of more than five tokens after an error, where it reads at most the rest of a
  construct; `parser` has errors at all places of seven tokens. `rdpgen_doc` needs
  only five tokens.
* `preproc`: all lists of two rules with up to two elements per pattern, of one
  rule with two patterns, of two rules of which the first has two patterns, and
  three rules with one element each. This has every order of definition and
  use, duplicates, and an empty pattern at every place.
* `file_stack`: three files, so that two are suspended at the same time. A file
  with a leading newline is left to `file_stack_line`, which shows what it leads
  to. Files without text are in no run of the stack: rdpgen opens one file, and an
  empty one is simply at its end, as `scanner` and `frontend` have it.
* `scanner`: all texts of up to three characters over all classes and of up to
  five over those that nest, close or run on; six calls.
* `frontend`: all files of up to three pieces, a piece being a character or a
  directive, alone, behind a rule and behind a directive with its argument. Each
  error of the parser needs at most three pieces after one of these beginnings,
  and each kind of token can be the one that ends the file.
* `strings`: two strings with a first capacity of 4 instead of 8, which can
  double once; the literals have up to four characters, so that each of the
  three ways to append meets each fill level of a buffer, and with them the
  byte that decides about growing. The memory holds both strings in their first
  capacity or one that has grown; an operation that needs more exits or is not
  considered. Copies need two strings, and no operation has a third.
* `list`: four elements, two pops. A place in the middle of four has two
  neighbours on one side and one on the other, and no operation looks further. The addresses are symmetric.
* `hash`: three keys with one first slot in a table of 8, whose common distance
  visits two slots only; the count may reach 6, one more than what triggers the
  one resize, to 16. Keys with the same hash and data values are symmetric.

### Fairness

The program is one thread that runs until it exits, so weak fairness of its step
is what the operating system gives it. `PreProc` and `Rdpgen` assume
that for the whole step relation, not for single actions; termination is then a
fact about the loops. In `Scanner` only the steps inside `consume_token` are
fair: the parser need not call it again. A spinning `consume_token` takes
stuttering steps, and `CallsReturn` names the texts that lead there.
`Frontend` assumes weak fairness of its whole step, `Parser` by itself none: its
termination is checked where the scanner is the real one, and in `Rdpgen`.
`FileStack`, `LinkedList`, `HashTable` and `StringBuffer` are libraries and have
no fairness.

## 4. Proofs

Checked by TLAPS for every value of the constants, under the named assumptions
of the modules: `NullAssumption`, `TextAssumption`, `NumberAssumption`,
`PointerAssumption`, `StringAssumption`, `HashAssumption` (hashes are numbers,
and the NULL pointers of a slot and of a key are no keys), `ScannerAssumption`
(EOF is no character; letters, digits, spaces and bytes above 0x7F are different
characters and none of the bytes and marks that the code names, as `isalpha`,
`isdigit` and `isspace` have it; the keywords have the types of the four
directives), `InitialRulesAssumption` (rule lists are lists of rules in which no
element is flagged, as `parse_input` leaves them) and `FrontendAssumption` (what
the scanner and the parser assume, of the constants of their composition). TLC
evaluates all of them as well.

Each argument below has the same frame: an invariant is shown to be inductive,
action by action, and the property follows from it in every state.

`LinkedList_proofs`, for any number of elements and operations, first proves
`Linked`, `CursorIsLive`, `LenCountsAllButPops` and `TypeOK`, whose conjunction is
inductive. They need one another: `remove_lst` and `insert_lst` go through the
neighbour of a neighbour, so a step keeps `next` and `prev` inverse only if they
were, and were inside the allocated elements; `reset_lst` returns an element
exactly if there is one, `iterate_lst` stays on allocated elements because `next`
does; and the count goes down by one because the element
that is freed was allocated. Then `Holds(s, ..)` says that links hold a
sequence `s`, and `HInv` that they hold `Items`, the sequence found by walking
along `next`. One lemma per change of the links (at an end, in the middle, from
the front, from the back) says which sequence they hold afterwards; a walk along
links that hold `s` finds `s`. From this follow `ImplementsList` (each operation
is the one of `ListSpec`), `NothingLeaks` and `IndexingIsRight`.

`HashTable_proofs` proves `LoadIsBounded`, `FindSlotReturns`,
`CountIsEntriesAndMisses` and `EntriesAreReachable`, for any keys, hash values and
number of resizes. The invariant is that the count is that of entries and
misses, that it leaves room, and that no slot on the way to a stored key is
NULL. Two facts carry it: the probes of a key visit each slot that its distance
allows, and a table with a NULL slot among them ends the search
(`FindSlotStops`). A resize is a fold over the old slots; `RehashedIsATable` goes
through the first `n` of them. `ImplementsMap` adds, until the first removal,
that each key is stored once and nothing is a tombstone; then the contents do not
depend on the slots, and every call returns what `MapSpec` would.

`StringBuffer_proofs`, for any number of strings, texts, capacities and
doublings, proves `BuffersNotOverrun` and `TextsEnd`. Neither is inductive:
`strip_str` sets a length that has nothing to do with the text, so that the
next append starts in front of its end or behind it. The invariant `Good` says
of each string that its buffer is written, with a NUL in it, up to some position
that is at least the length and at least the end of the first allocation.
`mem_alloc` establishes that by clearing the block; an append extends the
position by what it writes; growing leaves it, since the new bytes come after it;
and the spoiled length stays below it, because the object begins with a pointer
whose last two bytes are zero. This is the assumption
`HandleLens \subseteq 0 .. InitialCap - 2`. The doubling loops end with the
least capacity that suffices (`LeastIsLeast`, `GrownGood`); for `cat_str_char`,
which doubles only once, it has to be shown that once is enough. For a string
that was not spoiled the length is moreover the position of the first NUL: this is
`LengthsFitTexts`, and with it each operation changes one text as `TextSpec`
says (`ImplementsTextWhileSound`).

`FileStack_proofs`, for any number of files of any length, proves
`NoFinishedFile`, `PositionsAreRight` and the refinement `ImplementsStream`. All
assume `HaveText`: no file is empty and EOF is not a character. `PositionsAreRight`
also assumes `NoLeadingNewline`. These are the two kinds of file that the code
gets wrong. The invariant adds what all need: the position of every file lies
inside its text. Each `consume_char` adds at most one newline to those passed,
so the count goes up by one exactly where the line does. The rest of the stream
is the concatenation of what is unread in each file, and opening, reading and
closing a file are then a text put in front, its first character taken off, and
an empty text dropped.

`Rdpgen_proofs`, in its first part, is about the parser alone. For inputs of
every length it proves `TypeOK` and `RulesWellFormed`. The latter says nothing of the rule that is being built, so
the invariant adds `PatternsHaveCode`: without errors all patterns of that rule
have their code, and `EndRule` hands it over. For the meaning of the input,
`MeaningInv` says at every place in the parser, and not only at its end, that
what was stored, written out as tokens again, is what was read (`Built`): the
rules in the list, the rule under construction, its open pattern. At the end this
is `TreeMatchesInput`; and the settings are those of the directives read so far,
which is `SettingsMatchInput`. `VerdictIsRight` has two halves. While there is
no error, the input is a concatenation of whole rules and directives and a
beginning of the next one (`BetweenParts`, `WithinRule`), hence viable. After
an error it is a `DeadEnd`: a finite automaton reads tokens independently of the
parser, every grammar file has a reading that ends between two parts, a state
"bad" is never left, and the parser reports an error only where the reading
turns bad.

`PreProc_proofs`, for any list of rules that the parser can hand over, proves
`EverySymbolClassified`, `FlagMarksFirstUse`, `EveryDuplicateReported` and
`CrashIffEmptyList`. The invariant says where the cursors are (`WalkIsRight`: on
a place, with everything in front of it non-empty), that the rules in front of the cursor
are listed or were counted as duplicates (`NamesAreRight`), and that the elements
passed are those whose terminals are listed, flagged exactly at the first use of
each (`TermsAreRight`). The order of places is that of the three nested loops,
and `NextElemWalks` shows that a step passes exactly one. Setting a flag leaves the
shape of the rules as it is.

In its second part `Rdpgen_proofs` proves the four properties of the whole
program, `KilledOnlyByEmptyLists`, `ReportIsRight`, `OnlyCleanStateIsPrinted` and
`PrintedListsAreComplete`, for every sequence of tokens that the scanner can
deliver, although they speak of the first token and the last line of
output only. `PlacesInv` relates the places of the input to the parser's data: a
rule name is a symbol in front of a colon, which is known only when the next token
is read, so the last token is left out until the parser has decided what it is
(`Settled`). An exit with 1 is the scanner's: with an error counted after
`check_eof`, and without one after `mem_realloc`, which `ReportIsRight` therefore
names. `ParsedWell` is what `parse_input` hands over, `PassInv` the
invariant of the passes on it, taken from an instance of `PreProc_proofs`, and
`Clean` what is known when they return without an error. `MInv` says by stage of
`main` which of these hold and what has been printed: the first
`Shown(section - 1)` sections, no list of which was empty.

`Scanner_proofs` proves `ImplementsSource` for every text: each step of
`consume_token` is one of `TokenSource` or none. A state of the source is the
token delivered last, so what has to be carried through a call is how that token
limits what may come: `Stays` says that after the end of the input, or a
character that starts no token, the scanner still stands there, and `TextFits`
what the text of an unfinished token consists of, by loop. `CopyStrIs` says what
is left of it when it is cut at a NUL; an unknown directive is never cut to
nothing, which is why it is not mistaken for a character that starts no token.

It also proves `TokensAreRight` and `StopsOnlyWhereItMust`: the scanner delivers
the tokens of the reference lexer. `Lexicon` says where a token ends by
quantifying over the text, the scanner finds out one character at a time, so
`LexInv` says how much of that is known in each loop. The scanner stands at `Pos`
(`Placed`), the tokens so far are the first cuts of the reference
(`Delivering`), and the next one begins at `From`. In front of a token, what is
passed does not change where the next one begins (`Skipping`; `StartSkips` and
`StartInComment` are the two cases). Inside one, its text is what was
passed since `From`, which is a run of letters or digits (`Wording`), has no
second quote, or has more opening than closing braces at every place, by the
number in `count` (`Quoting`). The character that ends the loop is then the one
that the reference looks for (`RunEndIs`, `FindIs`, `ClosingIs`), and `copy_str`
cuts the text where the reference does (`TokIs`). A process that has exited
stands in one of three loops (`StoppedWithin`), and what these loops know at the
end of the text, or at a byte above 0x7F, makes the reference give up there too.

`Frontend_proofs` puts the proved parts together, for texts of every length over
any characters. That a step of the composition is a step of the scanner or none,
and a step of the parser or none, is `TheScannerIsAtWork` and
`TheParserIsAtWork`: refinements of `Scanner` and `Parser`, by which every
theorem about these holds here. The instances through which the composition and
the proofs of the parts name the same operators are shown to agree first
(`SameScan`, `SameCuts`, `SameParse`, `SameGrammar`). What the parts know of one
another has to be added to their invariants (`FrontInv`):

* `FileStands`: the file stack is that of a file whose position is the scanner's,
  with the counters that the newlines up to there give; `Consumed` shows that
  `consume_char` goes on to the next position, and closes the file at the last.
* `Handed`: the tokens that the parser read are those that the scanner returned,
  one by one, up to the first that comes again and again; after it the scanner
  may have returned more. Between two calls the current character is the one
  behind the last token.
* `Paced`: there are no more tokens than characters and an end. A token that does
  not come again has consumed a character, which the scanner may have done by the
  time it is within the token (`ScannerMoves`).
* `Blank`: an empty file, which is never closed, has no error.
* `Pointing`: each message so far is right; running out of memory prints none. It is the invariant of the messages
  alone, and follows from `Handed` and `FileStands` at the step that prints one.

`ErrorsPointBehindTheToken` is then `Pointing`. For `VerdictIsThatOfTheText`, what
the parser has read is a beginning of the tokens of the text (`InputWithin`), and
all of them if it has read their end. Without errors it is a grammar file, which
ends there; after an error it is a dead end, and no grammar file over any tokens
begins with one (`DeadBeginsNothing`), the tokens of the text included. In the model the
parser takes only tokens whose texts are in the constants `Symbols`, `Strings`,
`Numerals` and `Blocks`, and at most `MaxTokens` of them. The theorem holds for all
values of these, the sets of all texts included.

Induction over data is not available as a rule, but it can be avoided: a nonempty
set of numbers has a least element (`LeastNumber`, from `WFMin` of the library),
so the least length at which a fact about a recursive function fails is taken to a
contradiction. The concatenation of sequences, walks along links, resizes and
readings of tokens are treated in this way.

Model-checked only: the liveness properties `Ends`, `AlwaysEnds`, `CallsReturn` and
`ParsingEnds`, which are out of reach of the provers. Every invariant and every
refinement that a passing run checks is proved.

## 5. Not modelled

* `strs.c` inside the other modules: there, strings are values. `StringBuffer`
  shows when that is right: for texts without a NUL byte that are not stripped.
  The scanner's model has NUL bytes; nothing calls `strip_str`.
* `memory.c`: `mem_free` does nothing with the garbage collector of the build;
  `mem_dup` copies the keys of the hash table, which are values there.
  Allocation failure is modelled for strings and where the scanner runs into it.
* Output files and emitters: not called, or not built.
* The file name that `get_fname` returns (only whether there is one),
  `tok_to_str` and the wording of messages, which at `scanner.c:31` includes what
  a `va_list` looks like when printed as a string.
* `backup/`, `rdpgen.c` from line 31 (`#if 0`), tests and documentation.
* Data of list elements other than their identity, and sizes in the hash table:
  the callers use one size per container.

## 6. Plan

Done, in this order: parser with reference grammar; preprocessor; the whole
program; file stack; scanner; linked list; hash table; their first proofs;
strings and the file stack with their proofs; the composition of file stack,
scanner and parser.

Then proved: the invariants and refinements of the linked list, the hash table,
the strings, the file stack, the parser, the preprocessor and the whole program;
that the scanner is the source of tokens that the parser needs, and delivers the
tokens of the reference lexer; and, for every text, the verdict of the composed
front end and the positions that it prints.

What could come next needs code that this commit does not run: the emitters, once
`main` calls them, and more than one open input file.
