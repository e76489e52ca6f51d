# Verification of the SVRF to PVRS convertor

PVconverter (`svrf2pvrs`) turns a design rule deck written in SVRF, or in Tcl
that generates SVRF (TVF), into PVRS or TRS. This directory holds TLA+ models
of its parts, the TLC runs that check them on small decks and the proofs that
TLAPS checks for every deck. Paths below are relative to
`src/pvconvertor/src/` unless they start with `src/`.

## The system

A conversion is one process and a pipeline over one temporary file.

| part | files | state it keeps | operations | what makes it right |
|---|---|---|---|---|
| Conversion run | `main/main.cpp`, `main/rcsSvrf2Pvrs.cpp` | options, temporary files, last global line number | `execute`, `processIncludeFileRespectively`, the TVF variants | temporary files are removed, streams are closed, each file's conversion is in its own output, every fatal error is reported and ends the run |
| Preprocessor | `preprocess/rcsPreprocessor.cpp` | name definitions, stack of conditionals, enabled flag, open include files, global line number (all static), the files to convert under `-oi` | one per directive, called by the loop of `execute` | the effective path and nothing else is written; files are read in place; recursion is caught; line numbers are kept |
| Error manager | `public/manager/rcErrorManager.cpp` | list of errors, map from global lines to files and lines | `addError`, `MapLineIndex`, `Report`, `clear` | each error names the file and the line it is about; fatal errors end the run |
| Manager, pragmas | `public/manager/rcsManager.cpp`, `rcspragmamanager.cpp` | option flags, output and log streams, `#pragma env` variables, counter of temporary layers | setters, `beginWrite`, `endWrite`, `insertEnvVar`, `parseFileName` | one output stream per file, first value of a variable stays |
| Formatter, comment extractor | `preprocess/rcsFormat.cpp`, `rcsCheckTextExtractor.cpp` | the temporary file | one pass each | no line is added or lost |
| Lexical parser | `lexical/rcsLexParser.cpp` and generated scanners | token list | `parse` | tokens keep their global line |
| Macro parser | `lexical/rcsMacroParser.cpp` | token list, macros, scopes | extract DMACROs, expand CMACROs | every call is replaced by its body, recursion is caught, layers of two calls stay apart |
| Syntax convertor | `syntax/rcsSynConvertor.cpp` | token list, node tree, number of the next temporary layer | implicit layers, one node per statement | temporary names are fresh, definitions are where they are needed, no token changes its statement |
| Number parser | `syntax/rcsNumberParser.cpp` | position in a list of tokens | recursive descent | an expression takes its own tokens and no more |
| PVRS writers | `syntax/rcsSynPvrsConvertor.cpp` and others | the tree, names of macros' layers, depth of temporary layers, the output stream | one function per statement | each operation is written with all it names, nested as it was, names with the scope of their layer |
| Syntax tree | `public/synnode/` | nodes and their tokens | insertion, visits | order of insertion |
| TVF and TRS compilers | `tvf/` | a Tcl interpreter | one function per Tcl command | the SVRF a script generates |
| GUI | `gui/convertorWin.h` | fields of a window | `onConvert` | a second conversion starts clean |
| Calculators | `src/pvconvertor/rc_tran/` | none shared | separate programs | |

Interaction is by the temporary file `.svrf2pvrs.tmp`, by the list of tokens
and the tree that one stage hands to the next, by the two singletons
(`rcErrManager_T`, `rcsManager_T`) and by the preprocessor's static members,
which nested preprocessors share. There are no threads. What makes the system
hard is therefore

 * recursion: a preprocessor creates nested ones for include files, a conversion
   run creates nested ones under `-oi`, a macro's body calls macros, operations
   in parentheses hold others, and the writer writes one operation in the middle
   of another;
 * iterators into a list that other code inserts into and erases from: macro
   bodies are inserted behind the iterator, definitions of temporary layers in
   front of a position chosen long before;
 * global state that every level of a recursion changes: a conditional may
   open in one file and close in another, a definition in an include file
   changes what an `#ifdef` after it selects, one counter numbers the layers of
   all conversions;
 * tokens that are changed while they are written and are read again later;
 * one number for two things: a line's global number is used as its line in
   the temporary file by all later stages, and as the mark of a statement's
   beginning by the syntax convertor;
 * errors: `addError` ends the process from any depth, except for INCL1;
 * two processes in one directory share the names of the temporary files. The
   code does not support that and no property is about it.

`PROJECT.json` lists the hazards at their lines, and for those that no property
covers the reason.

## Modules

| module | contents |
|---|---|
| `Preprocessor` | the preprocessor, the part of the error manager that numbers lines and ends runs, and the `#pragma env` variables |
| `ConditionalBlocks` | the abstract specification of conditionals: blocks that nest |
| `PreprocessorProperties`, `MCPreprocessor` | what has to hold of it, a second meaning of conditionals to compare it with; small disks and options |
| `PreprocessorProofs` | the stack of conditionals and the blocks it implements; include files, line numbers and the order of lines |
| `ConversionRun` | a process: `main`, `execute`, the nested conversions of `-oi`, the window, and the streams, temporary files, errors and line map they share |
| `ConversionRunProperties`, `MCConversionRun` | what has to hold of it; small disks and command lines |
| `ConversionRunProofs`, `ConversionErrorProofs`, `ConversionOutputProofs` | types and the line map; what the user is told of errors, and the streams; names, outputs and temporary files |
| `MacroExpansion` | the macro parser: the passes over the list of tokens |
| `MacroExpansionProperties`, `MacroMeaning`, `MCMacroExpansion` | what has to hold of it; the recursive meaning of macros; small decks |
| `MacroExpansionProofs` | types, scopes, recursion and the spelling of layers for every deck |
| `ImplicitLayers` | the first two passes of the syntax convertor: names before signs, operations in parentheses |
| `SyntaxNodes` | its third pass, which cuts the list into nodes; extends `ImplicitLayers`, whose result it reads |
| `SyntaxProperties`, `MCSyntax` | what the three passes have to get right; small decks |
| `SyntaxProofs` | positions, temporary names, nodes and progress for every list of tokens |
| `ListLemmas` | lemmas about lists and positions that several proofs use, and induction and recursion over them |
| `NumberExpressions` | the number parser and `getConstraint`, as operators |
| `LayerCommands` | one definition for each function `conv...Cmd()`: its options and what it does with the rest |
| `PvrsWriter` | the writer of PVRS: visits, temporary layers, scopes, and the loop that all the functions have |
| `PvrsWriterProperties`, `MCPvrsWriter` | what a tree means; small trees |
| `PvrsWriterProofs` | layers behind their definitions, where numbers end, and the types, for every tree |

The stages are separate specifications, as the code runs them one after the
other: each starts from any input that the stage before may leave, restricted
only as its module says. `SyntaxNodes` and `ImplicitLayers` share their list and
are one specification.

### Preprocessor

A step is one turn of the loop in `execute()`: one line is read and all that
its directive causes happens. The C++ call stack of nested `execute()` calls is
`frames`, innermost last, each with the file it reads, the number of lines it
has read and whether it is in the inner loop of `#decrypt`. The static members
have their source names without the prefix: `fileCollection`, `globalLineNo`,
`nameDefinition`, `conditionalsStack`, `isEnabled`. `lineIndex` is the error
manager's map, a sequence because `MapLineIndex` is called with consecutive
numbers; `out` is the text in the temporary file, as the global number of the
source line (`global`) and the line of the temporary file (`at`) of each piece;
`newlines` counts the newline characters, which is what determines `at`.

| code | action |
|---|---|
| opening of the rule file | `Start` |
| `processDefine`, `processUndefine`, `processRedefine`, `processReundefine` | the actions of the same names, through `Definition` |
| `processIfdef`, `processIfndef` | `ProcessIfdef`, `ProcessIfndef`, through `Conditional` |
| `processElse`, `processEndif` | `ProcessElse`, `ProcessEndif` |
| text; directives under `-full`; `#endcrypt` | `CopyText`, `EchoDirective` |
| `processPragma` | `ProcessPragma` |
| INCLUDE in a skipped branch | `IncludeDisabled` |
| `processInclude`: operand, variable and recursion errors | `IncludeRejected` |
| ... file missing or not regular (INCL1, the run goes on) | `IncludeUnreadable` |
| ... TVF compiler fails | `IncludeTvfFails` |
| ... nested `execute()` | `ProcessInclude`; its return is `EndOfFile` |
| INCLUDE under `-oi` | `ConvertInclude` |
| `#decrypt` and its inner loop | `ProcessDecrypt`, `SkipCrypted`, `DecryptAtEndOfFile` |

`status` says how the run ended: `done`; `exited` for the errors that `Report`
ends the process for; `aborted` for the C++ exceptions nobody catches (an
INCLUDE without a name or with an unset variable under `-oi`).

Abstractions: a line is its directive, its number of operands (3 for more than
two), the operands, and whether a file name is quoted. Names, values and paths
are members of sets; names and values are taken up to case, as the code
compares them. The state of a file says what `stat` and the TVF compiler make
of it, and the lines of a TVF file are those the compiler generates. The TVF
compiler and the environment are inputs. A read is not interleaved with other
processes that write the files.

### Properties of the preprocessor

 * `EffectivePath`: what is written is the text of exactly the lines whose every
   enclosing branch is selected. It is stated with a second meaning of
   conditionals that has neither stack nor flag: the blocks around a line are
   found by counting directives, a name's value is that of the last live
   directive that may set it.
 * `SkippedStaysSkipped`, `ImplementsBlocks`: the saved flags are monotone along
   the stack, and flag and stack together implement `ConditionalBlocks`.
 * `OpenOnce`, `IncludeInPlace`, `Termination`: an include file is not opened
   while it is being read; its lines come where the INCLUDE is; the run ends
   even when files include each other.
 * `LineMap`: text is on the line of the temporary file that has its global
   number. It holds of delimited decks: `#decrypt` has its `#endcrypt` in the
   same file and file names are quoted under `-oi`. Without that the code
   writes a newline more or fewer, and so the precondition is needed.
 * `TypeOK`.

A claim of the error table that does not hold has a run: `RecursionOnlyIfOpen` (a
file that is missing is reported as recursive when it is included again). Two
more differences are described here only: DEF5, the message for a missing
`#endif`, is never raised (`EndOfFile` returns whatever is on the stack), and a
`#pragma` line in a skipped branch is obeyed and copied, which `EffectivePath`
counts as selected.

### ConversionRun

A step is one stage of the innermost `execute()`, or one line of it where a stage
goes from line to line. `frames` is the stack of active calls, each with its
arguments (`file`, `out`, `sf`), the offset of its line numbers (`shift`, the
source's `m_lastGlobalLine`), the files its preprocessor is reading (`reading`)
and must not read again (`registered`), the lines in the temporary file
(`tokens`, each with its kind and the place it was read at), how far the syntax
convertor has come (`line`), the output names of its include files (`includes`,
the source's `m_vIncludeFile`) and its stage `pc`. `outStream` and `logStream` are
the manager's two streams, `temps` the temporary files that exist, `compiled`
what the script among them was made of, `tmpIndex` the number in the name of the
next file that an included TVF file is compiled to (`Generated`), `output` what
each output file contains,
`errorList` and `lineIndex` the error manager's list and map, `shown` what has
been printed, with what was printed of its place and whether the log got it.

A place has the file it is in (`file`, the source's own or the TVF file it was
compiled from), the `name` under which the preprocessor had opened the text, and
the line. The two differ for an included TVF file, which is read from a generated
file that `AutoFileRemover` deletes (`realFile`, `RemovedWith`). `MapLineIndex`
gets the name, and so `lineIndex` maps a global line to what is `Told`.

| code | action |
|---|---|
| `main`: the options, one by one | `ParseArgument` |
| ... usage, window or conversion | `Main` |
| `onConvert` and its `catch` | `OnConvert`, `HandleThrow` |
| `beginWrite` and OPEN1 | `BeginWrite`, `BeginWriteFails` |
| `-trs` for SVRF; unreadable deck | `NotTvf`, `CheckFails` |
| TVF to TRS; TVF compiler | `ConvertToTrs`, `CompileFails`, `Check` |
| switch file, `initial` of the preprocessor | `Preprocess` |
| its loop: a line copied, one with an error | `ReadLine`, `ReadDirective` |
| ... an INCLUDE under `-oi` | `ReadInclude` |
| ... other INCLUDEs: INCL2, INCL1, a TVF file that fails, a nested `execute()` | `IncludeAgain`, `IncludeMissing`, `IncludedTvfFails`, `IncludeFile` |
| ... its end | `EndOfFile` |
| macro parser | `ParseMacros`, `MacroFails` |
| `transGlobalLineForIncFile` and syntax convertor | `Warn`, `ConvertFails` |
| writer, removal of files | `Convert` |
| `Report`, `endWrite` | `Report` |
| `processIncludeFileRespectively` | `ProcessIncludeFile`, `StackOverflow`, `Return` |
| `~rcsSvrf2Pvrs` | part of `Leave` and `HandleThrow` |
| `addError` of a fatal error | `Raise`, part of every action that fails |

`status` is `exited` after `exit()`, `thrown` between `throw false` and its
`catch`, `overflow` when the C++ stack is exhausted, `idle` when a window waits.

Abstractions: a line is known by the stage that objects to it. The preprocessor
only copies lines and opens files: what conditionals, `#decrypt` and pragmas do
is in `Preprocessor`, whose `LineMap` says that line `k` of the temporary file
has the number `k`. A missing file that is included twice is reported as
recursive here as there. A name is its parts between dots, because two endings
are all the code looks for. The generated script of a TVF file has the lines the
file has on `disk`. Temporary files can always be written. Of the options, those
that only change wording are left out.

Properties, over and above `TypeOK`:

 * `OwnOutput`, `AllConverted`: conversions nested under `-oi` share one stream,
   and yet each text is in the file named for its input; when the run returns,
   every include statement that was written names a file that was converted.
   Two kinds of runs are excepted, and TLC shows for each that it has to be.
   With `-o inc.pvrs` an include file `inc` is written over the deck's output
   (`OutFileApart`). With `-sf` a TVF deck includes the script made of it,
   which is removed before its turn comes: the process ends with an error,
   or, if the switch file is TVF that does not compile, converts what the switch
   file has left in the script's place.
 * `InputRecovered`: the nested `execute()` finds its input's name. Only for
   names without `.trs` and `.pvrs` in them (`PlainNames`): the code erases the
   first occurrence, not the ending.
 * `ErrorPlace`: errors are reported at the line where they are, across the
   offsets of nested conversions and the second conversion of a window, and in
   the user's own file if that file is SVRF (`Written`). Text the program has
   generated is told by the name of the temporary file it was read from.
   Excepted are errors of the macro parser in nested conversions, see below.
 * `EveryErrorReported`: each error is shown once, in order, and logged. Under
   `-oi` the code guarantees less, none is lost: the log is closed after the
   first file and the list is printed again by every file.
 * `FatalEndsRun`: a return from `main` means that there was no fatal error, for
   all the stages that run with a deferred INCL1.
 * `StreamsClosed`, `TempRemoved`: after a return or an exception no stream is
   open and no temporary file is left, those of included TVF files among them.
   `-trs` for an SVRF deck leaves a stream open, and then the process ends. The
   script of a TVF deck (`.tvf2svrf.tmp`) stays if the conversion fails, or if the
   deck includes another TVF file, which overwrites the static name to remove;
   `Clean` excludes these.
 * `Termination`: a conversion ends, be it by `overflow`.

Two claims do not hold and have a run each: `RecursionReported` (files that
include each other exhaust the stack under `-oi`, where the error table has
INCL2 for them) and `MacroErrorFile` (the macro parser runs before the line
numbers of an include file are moved to the global ones: with a deck of two lines
an error at line 2 of the include file is reported as line 2 of the deck).

A difference without a run: an error in the text of an included TVF file is
reported in a file with a generated name, `._SVRF2PVRS_GENERATE_PVRS_FROM_TCL_FORMAT_`
and a number, that is removed at the end of that file, before most errors are
printed. The same holds of the script of a TVF deck, `.tvf2svrf.tmp`, and of the
lines that `-sf` puts before a deck, in `.svrf2pvrs.switch.tmp`. The lines are
right for these files, and no document says which file the user is told.

### MacroExpansion

A step is one turn of a loop of `parse()` or of `replaceCMacro()`. `phase` says
which loop runs, or how the run ended; `stream` and `pos` are the list of tokens
and the iterator, `macros` is `m_mapMacros`, `local` the locals of
`replaceCMacro()`, among them the iterator into the body that is copied.

| code | action |
|---|---|
| `extractMacro`, `parseMacroParas` | `ExtractMacro`: `RejectDefinition` (MAC1 to MAC5), `DefineMacro` under `-flattenmacro`, `DefineUnclosed` where `++iter` passes the end, `KeepMacro` otherwise |
| `parseCMacro` | `ParseCMacro`: `RejectCall` (MAC6, MAC10), `EnterCall` |
| `replaceCMacro`: an argument; MAC7, MAC9 | `TakeArgument`, `RejectArgument` |
| ... the call is erased, the scope is drawn | `ReplaceCMacro` |
| ... a token of the body; its last brace; a body without one | `CopyToken`, `EndCopy`, `CopyPastEnd` |
| the loops of `parse()` | `Skip`, `EndExtract`, `EndPass`, `FirstCall`, `NoCall`; `CallWithoutName` reads beyond the end |

`calls` and the field `call` of a token are history: which expansion put a token
where it is. Abstractions: a name is a member of `Names` with `Lower` for
`toLower()` and `ValidNames` for `isValidSvrfName()`; all separators without a
role are `EQUAL`. `KeepMacro` is the new spelling of PVRS; the prefix `$` of old
PVRS is left out. What is read at or beyond the end of a list is `undefined`,
and a line number that is read there is any line.

 * `Substitution`: the passes, each of which expands what the pass before it
   inserted, leave the text that the calls mean. The meaning is in
   `MacroMeaning`: a table of definitions, environments and recursion, with
   neither insertion nor passes. It is compared for decks whose calls have their
   macro and arguments (`WellFormed`).
 * `FreshScopes`, `ScopesNest`: no two expansions have the same scope, and each
   token has the scopes of the calls it came through; an argument keeps its own.
 * `RecursionStopped`: no macro is expanded inside of itself. Only for decks in
   lower case (`Lowercase`): the check compares names of different case, and
   `RecursionCaught` fails for the others (a finding).
 * `LayersSpelledAlike`: in a definition that is kept, a layer is spelled in one
   way, also where it is used before it is defined. A DMACRO inside of the body of
   another is not looked at, since `extractMacro` goes on behind that body
   (`Nested`): there `DMACRO m { DMACRO n } x { X = x }` keeps both spellings.
 * `Termination`: the passes end.

Differences without a run: MAC8 is never raised, since only calls of macros that
are defined are looked at, and the search for calls left over stops at the first
unknown one, so that it hides those behind it (`FirstCall`); CMACRO as the last
token reads beyond the end instead of raising MAC6 (`CallWithoutName`);
separators among a definition's parameters are skipped instead of rejected with
MAC4, and since a call does not skip them, its body then seems to have no end
(`CopyPastEnd`).

### ImplicitLayers and SyntaxNodes

These are the three passes of `rcsSynConvertor::execute()` over the list of
tokens. `pos`, `insertAt` and `opens` are the iterator, the place where the next
definitions go and the calls of `parseImplicitLayerDefinition()`, which calls
itself; `iter`, `begin`, `rule` and `nodes` are the third pass: the iterator, the
first token that is in no node yet, the rule check that is being read and the
tree.

| code | action |
|---|---|
| `checkDefinedNameValid` | `CheckDefinedNameValid` |
| `recognizeImplicitLayerDefinitions`: where definitions go | `OpenBrace`, `CloseBrace`, `EqualSign`, `Directive`, `Skip` |
| `parseImplicitLayerDefinition` | `OpenParen`, `Keyword`, `NotInside`, `SkipInside`; at `)`: `RejectParen`, `PlainParen`, `NameLayer`, `InsertDangling`; at the end: `Unclosed` |
| `parseLayerOperation` | `OperationInRoot`, `OperationInRule` |
| `parseSpecification`, LVS REDUCE SPLIT GATES | `SpecificationInRoot`, `SpecificationInRule`, `SplitGates`, `SplitAtEnd` |
| `parseLayerDefinition` | `LayerDefinition`, `DropDefinition`, `RejectDefinition`, `NameBeforeComment` |
| `parseRuleCheck`, DMACRO | `RuleCheck`, `Proc`, `ProcWithoutBrace`, `EndRule`, `RejectRule`, `DeviceAuxiliaryLayer` |
| `parsePreProcess`, comments, built-in code | `PreProcess`, `IncludeAtEnd`, `Single` |
| `++iter`; the end of `execute()` | `NextToken`, `Finish` |

An iterator is a position that moves with its token when something is inserted
in front of it, and `Dangling` when its token was erased. The code erases the
comments inside of an operation once it is past them; here they stay in the list
and are left out of the node. The temporary name `pvrs_tmp_layer_k` is the number
`k`; a deck has no such name of its own. `Numbered` is what earlier conversions
have used of the static counter.

 * `OneNodePerStatement`: a deck of regular form gives one node for each
   statement, with all of its tokens, when every temporary name is replaced by its
   definition in parentheses. The reference reads the deck line by line.
 * `RegularAccepted`: such a deck is not rejected, and nothing outside of its
   list is read for it.
 * `SameBranch`: the definition of a temporary layer is in the same branches of
   conditionals and in the same rule check as its use.
 * `DefinedOnce`, for any list of tokens: a temporary name is defined once and
   used once.
 * `Forward`, `Termination`: every node takes the third pass on. It steps back in
   front of the name of a definition, and stays behind the last statement only
   because the first pass has rejected an `=` without a name.
 * `TypeOK`, `NodesTypeOK`.

Regular decks are those of `MCSyntax`: a statement begins a line and its
continuation lines hold operands only. Outside of them the code does this: a
rule check without its brace is accepted (`Utassert(false)` does nothing, SYN8 is
never raised); SYN6 is raised at the outermost parenthesis only and a stray `)`
not at all; doubled parentheses `((AND a b))` are the fatal LAY6; a definition with
nothing behind its `=` vanishes (LAY3 is never raised); tokens before a comment or
a directive in a rule check are in no node; a call of a kept macro behind a
rule check that has operations as arguments gets their definitions at the end of
the list, outside of a conditional it may be in; behind an INCLUDE at the end of
the list, and behind SPLIT GATES that ends it, or has only a comment behind it, is
read what is beyond the end (`SplitReadsEnd`). Two differences are findings:
`name_before_comment` and `signed_argument`.

### NumberExpressions, LayerCommands and PvrsWriter

`rcsSynPvrsConvertor` visits the tree and writes PVRS. The tree is the list of its
nodes in the order of their visits. The functions `conv...Cmd()`, one for each
kind of operation, all have one loop over the tokens. `PvrsWriter` has that loop,
with an action for each way through its body, and `LayerCommands` has what the 39
functions differ in: the options, which operands may come when, and
what is done with the rest. `otherwise` in an option is where the code goes on
when what the option needs is not there; C++ falls through to another `case`
there, and each of these ways is modelled.

`calls` is the C++ stack of `parseTmpLayerForOperation()`: the definition of a
temporary layer is skipped when it is visited, and its operation is written in
the middle of the operation that names it. `nodes` is the tree as it is now, since
writing a name changes its token; `defLayers` the layers that macros have defined
so far, which decide on the scope that a name gets; `collecting` the first of
two rounds of visits under `-kt`. `out` is the text as a list of pieces: a layer,
a number, a keyword, or where an operation opens and closes.

| code | action |
|---|---|
| `getLayerRefName`, `getRealLayerName` | `LayerOperand`, `BadOperand`, `LayerOption`, `BadLayerOption` |
| `parseTmpLayerForOperation`, return | `TmpOperand`, `TmpOption`, `TmpOptionAgain`, `TmpArgument`; `Return` |
| `getStringName`, `getNumberExp` as operands | `NameOperand`, `NumberOperand`, `RejectOperand` |
| `getConstraint`; operators; separators | `ConstraintOperand`, `ConstraintPast`, `RejectConstraint`, `EchoConstraint`, `IgnoreConstraint`; `RejectOperator`, `OperatorAgain`; `EchoSeparator`, `SeparatorAgain`, `RejectSeparator` |
| options | `FlagOption`, `OmitOption`, `SkipOption`, `PairOption`, `RejectPair`, `FollowOption`, `WordOption`, `NameOption`, `ValueOption`, `AfterOption`, `KeyOperand`, `TwoOption`, `LimitOption`, `WithoutLayer` |
| `convExecProcCmd`, `convDfmOrEdge`, `convSize_XYCmd` | `OwnKeyword`, `TmpArgument`, `Argument` |
| the visits | `VisitLayerDefinition`, `VisitTmpLayer`, `VisitLayerOperation`, `VisitRuleCheck`, `VisitText`, `VisitUnknow` |
| the rounds of `rcsSynConvertor::execute()` | `SecondRound`, `Finish` |

`status` is `thrown` for the errors that end the statement and the run,
`undefined` where the end of a list is read as a token, `endless` where the loop
`continue`s at the same token.

 * `WrittenAsMeant`: the text of a correct tree is its statements in order, each
   temporary layer written out where it stood, no operand or option lost, every
   name with the scope of the layer it means. The meaning looks at each token
   alone: it has no loop, options, expressions or positions.
 * `CorrectAccepted`: a correct tree is written to its end.
 * `DefinedBefore`, for any tree in one round: a macro's layer is never written
   before its definition under the same name.
 * `Termination`, `WriterTypeOK`.

What a correct tree is was chosen so that SVRF allows it and the code handles
it; the following SVRF is legal and excluded, since the code does otherwise:

 * an operator that begins no constraint, or none where only a constraint may be:
   `endless` in AREA, LENGTH, WITH WIDTH, WITH EDGE, WITH TEXT, HOLES, RECTANGLE,
   WITH NEIGHBOR, NET AREA, DEANGLE (this is not legal SVRF, but an endless loop is
   no error message);
 * `SHRINK ... BY 1+2` is written as growing by `-1+2`; `SHIFT BY 1 -1` is read as
   one expression and rejected; DEANGLE rejects an offset in parentheses;
 * `SIZE XY` and `DFM OR EDGE` write names as they are: a temporary layer whose
   definition was skipped, a macro's layer without its scope;
 * `INSIDE CELL ... WITH LAYER (op)` writes the operation twice; a temporary layer
   as first operand is not counted in SNAP, DEANGLE, NET and ENCLOSE RECTANGLE, and
   an operator in front of a width is written twice there;
 * a layer of a macro that is made of a layer with its own name: the use is
   taken for the new one (`MadeOfItself`);
 * under `-kt`, scoped definitions get their scopes twice and `dummy` and
   `unknown` nodes are written in both rounds.

## Runs

All runs start from every input of a set: a disk on which a file is any sequence
over an alphabet of lines up to a length, a list of tokens, a tree.

| run | inputs | distinct states | shows |
|---|---|---|---|
| `conditionals` | one file: up to 4 lines over `#ifdef`, `#ifndef`, `#else`, `#endif`, `#define`, `#undefine` and text; up to 6 over the nesting ones; up to 4 with marked definitions; up to 2 with wrong operands | 418,000 | the stack and the effective path |
| `includes` | a deck of up to 3 lines and an include file of up to 2, of which either may include both, a second spelling of the include file and a file that is missing, a directory or broken TVF; decks of up to 3 lines with `#decrypt`, `#pragma env`, conditionals on variables and both INCLUDEs; all four option settings | 530,000 | files, recursion, line numbers, pragmas, modes, termination |
| `conversions` | `-oi`, with and without `-sf`, and `-o`: decks of up to 3 lines (text, warning, syntax error, two INCLUDEs), an include file that has errors of each stage, includes the deck or a TVF file; nine option lists with decks of up to 2 lines in each state and a switch file; two conversions in a window to a path that may not be writable | 832,000 | nested conversions, places of errors, ends of a run, temporary files, exceptions, a second conversion, termination |
| `macros` | two macros with or without a parameter that call each other and themselves, with bodies of up to two calls and decks of up to two; all lists of up to 4 tokens of 9 kinds; definitions and calls with any two parameters and arguments; kept bodies of up to 4 tokens of 7 kinds | 881,000 | substitution, scopes, recursion, termination |
| `syntax` | all lists of up to 4 tokens of 10 types on lines of their own and up to 3 on one line; some 700 regular decks; lists that meet the rest of the steps | 94,000 | nodes, temporary layers, progress |
| `writer` | see below | 95,000 | what is written, acceptance, scopes, termination |
| `missing_include_twice`, `recursion_of_includes`, `macro_error_line`, `macro_recursion`, `name_before_comment`, `signed_argument` | as above | | one claim each that does not hold; see `findings` |

Why the bounds are enough. Six lines hold three levels of nesting with an
`#else` in one of them, or two closed blocks; the flags of the stack are
determined by pairs of neighbouring entries, so that a third level adds no new
case, and the theorems cover all depths. A marked name needs three lines to
matter (mark, block, overwrite) and one to be looked at. A cycle of includes
needs two files and two lines, a second spelling one more path.

`MaxDepth` = 4 nested conversions: two are enough for every offset and stream
to be shared, three for a file to go on after its include file's include file,
and the fourth stands for the end of the stack. `MaxConversions` = 2: the second
conversion meets all that a first one can leave behind. It is 0 in the two
violation runs, which have no window.

Two macros are enough for a mutual recursion, for a call whose arguments
hold a name of the other's parameter, and for three passes; the theorems about
scopes and recursion hold for any number. Four tokens hold every pair of a
definition or call with what is missing of it. In `syntax` the regular decks
hold operations nested three deep, two branches, a rule check in a branch and a
branch in a rule check; `Numbered` = 2 stands for an earlier conversion.

The trees of `writer`: one operation for each of 39 functions, and for those
whose operations differ in their options one for each difference, with every operand
(a name, a quoted name, a temporary layer) followed by every operand, constraint or
option that is correct there, where options and constraints take a number, one
with a sign, and expressions with precedence, parentheses and a function of two
arguments. Each stands alone and, under `-kt`, as a temporary layer that is used
by another operation, so that three operations are nested. Macro layers: all
lists of two definitions and a use over the scopes none, `m` and `m` in `m,n`,
which is where the innermost scope differs from the outermost and where a scope
is undefined so far. Any two tokens of ten kinds and the operation's own options
follow the keyword in the trees that need not be correct.

The runs that end in a stuttering state (`Halted`) check deadlock. `syntax` and
`writer` do not: their last step is `Finish` and a finished pass has no
successor; `Termination` says that nothing else stops.

Fairness is weak fairness of the step of the whole loop, pass or process: the
code is sequential and nothing but its end stops it. No action is singled
out as fair. `OnConvert` is the user's and not fair.

## Proofs

`ConstantsTyped`, `DecksAssumption` and the other assumptions say that the constants
have their types; TLC evaluates them in each run. The number of files, names,
lines, tokens, macros and the nesting are arbitrary.

Preprocessor:

 * `InductiveInvariant`, `TypeCorrect`, `SkippedBranches`
   (`PreprocessorProofs`). `TypeOK` is not inductive: `#endif` takes its flag
   from the entry below an `#else`, and that there is one is part of
   `SkippedStaysSkipped`; the line read is a line of the file because no frame
   is past its end (`FramesOK`). The conjunction `IInv` of the three is
   inductive. `PushKeepsSkipped` and `PopKeepsSkipped` carry the argument about
   the stack: what is pushed is enabled only if all below it is, and what is
   restored was on the stack.
 * `IncludesOpenOnce`: `OpenOnce` is inductive
   together with `IInv`. An include file is registered before it is opened and
   forgotten only by the frame that registered it, which is the only one with
   that path.
 * `LinesMapped`: on a delimited deck the number of newlines written equals the
   global line number between any two steps (`InStep`), because an `#endcrypt`
   is ahead of every frame inside of a `#decrypt` (`EndcryptAhead`).
 * `LinesInPlace`: for every file being read there is a global line that is the last
   one read of it (`PlaceInv`): that of the innermost file has behind it nothing or
   all of one included file, and that of each other file is the INCLUDE which
   opened the next one. A line that is read is thus behind the line before it in
   its file, and a file that ends leaves its INCLUDE with all of it behind.
 * `BlocksImplemented`: the refinement. `StackBlocks` maps the stack of
   `#ifdef` and `#else` entries, each with the flag that it saved, to the blocks
   that are open, where the flag of a block is saved in the entry of the next one.
   Opening, `#else` and closing are the steps of `ConditionalBlocks` and all
   others stutter; that the flag of an outermost block is `TRUE` where it is
   restored is the invariant `OutermostLive`.

 * `EffectiveLines`: `EffectivePath` for every disk, option and nesting. Its
   invariant `PathInv` says that there are verdicts on the lines read, one for
   each, from which the whole state can be told: what has been written
   (`Written`), whether a `#decrypt` block goes on (`CryptOf`), the variables
   (`EnvOf`), the entry of each name (`NameOf`), and of the stack which line opened
   the block of each entry (`StackedOn`). The lemmas in front of it say how
   counting goes from one line to the next (`OpensAround`, `ClosesAround`,
   `KeepsAround`, `ElseNext`) and that a verdict depends on nothing behind its line
   (`AgreeOnVerdict`); the steps on the stack are `OpenStacked`, `ElseStacked` and
   `EndStacked`. `VerdictsGiven` is the induction over the lines: the recursive
   function `Verdicts` builds just these verdicts.

Conversion run:

 * `Typed` (`ConversionRunProofs`). Only a stage that has a line takes one, and the
   lines mapped so far are known at each stage (`ModeOK`, `LinesOK`); a frame that
   is not innermost is at its include files (`Nesting`); the temporary files that
   exist are those with fixed names and those of the innermost frame's `reading`
   (`TempsOK`). The conjunction `Inv` is inductive.
 * `Placed` (`ConversionErrorProofs`): the line of the temporary file on which a
   token is has the number `shift` + line, under which the map gives what is told of
   the token's place (`TokensMapped`); an error is added with that number, and since
   the map only grows until `onConvert` clears it and the list, each error in the
   list keeps its place (`ErrorsLocated`). That this is the user's own file for SVRF
   rests on the names: a reader whose name is not that of its source reads what was
   compiled from TVF (`ReadersNamed`), and so do the places of tokens and errors
   (`OwnName`). For errors of the macro parser the number is without `shift`, and so
   the theorem is about those in the outermost frame, whose `shift` is 0, as
   `ErrorPlace` is.
 * `Closed`: a stream is open only between `beginWrite` and `endWrite`, in the
   innermost frame; all returns but that of `NotTvf` come after `endWrite`.
 * `NoFatalReturns`: the list holds no error that is fatal, but for INCL1 up to
   `Report`, and there INCL1 ends the process. So neither the stages behind it nor
   a nested conversion start with a fatal error in the list.
 * `Reported`: without `-oi`, the list is printed once, by the `Report` of the only
   frame, by the error that ends the process or by the handler; before it `shown`
   is empty, after it nothing is added.

Names and files (`ConversionOutputProofs`):

 * `NamesRecovered`: all frames but the first are those of include files, whose
   output was named by `OutputName` and whose input by `InputName` from it
   (`StackInv`); for plain names the second undoes the first (`EndingRemoved`).
 * `OutputsKept`: the stream is open at the path of the innermost frame, what was
   written by a frame that is not innermost is still there, and a frame that
   writes to the path of another one has the same input, or is the outermost,
   which `OutFileApart` sets apart (`OutputInv`).
 * `TempsRemoved`: each temporary file is that of a conversion that is at the stage
   that uses it, a generated one that of an include file that is being read
   (`TempsOK`), but for a script of a TVF file whose output is `Partial`, and that
   output stays so, since each later conversion of the file fails too (`TempInv`,
   `ScriptLeft`, `Failed`).
 * `Converted`: each include file of a file that was written is in the list of a
   frame that has not come to it, or is being converted, or has been written and is
   `Settled` (`PromiseInv`, `Due`); the list has all INCLUDEs of the file that the
   preprocessor has read (`ReadInv`). When no frame is left, only the last is
   possible. A file that includes itself is in the list when it is written again.

Macro parser (`MacroExpansionProofs`):

 * `TypeCorrect`: the two iterators and the position in the body stay in their
   lists, up to the end. The invariant adds what `parseCMacro` has checked, which
   holds until the call is replaced (`PhaseInv`): while arguments are read,
   `iCMacro` is behind the call, whose name has a macro and is in none of its own
   scopes; while a body is copied, a brace is open.
 * `ScopesAreFresh`: the number of a scope is at most the counter of its macro,
   which goes up before a scope is drawn (`CallsNumbered`).
 * `RecursionIsStopped`: the scopes of a token name each macro once, since the next
   one is appended only if `InOwnScope` does not hold; with a deck in lower case
   all scopes are in lower case, and so are stored bodies and arguments.
 * `ScopesAreNested`: some function gives each expansion its scopes, those of its
   caller and its own, and all tokens of the list and of the arguments carry those of
   the expansion they came from (`NestInv`). A call extends the function by one
   expansion, which is in the text of an earlier one. By induction over the
   expansions it is the recursive function `ScopesOf` (`ScopesGiven`).
 * `LayersAreSpelledAlike`: where definitions are kept, all bodies in front of the
   iterator that are not nested are settled and stay so (`Settled`, `KeptInv`):
   rewriting a value changes no type, so that the places of braces and the ends of
   bodies are what they were, and behind the iterator nothing is rewritten.

Syntax convertor (`SyntaxProofs`):

 * `PositionsInList`, `NamedOnce`, `NodesForward`. The inductive invariant adds
   that every sign is preceded by a name, that the place of the next definition
   is never at a sign, that the open parentheses are in order and in front of
   the position, that all temporary names are at most `nTmpNo`, and where the one
   occurrence of each name is. An insertion or a replacement moves all of these,
   and `ListLemmas` says how. `Forward` follows as a statement's end is behind its
   keyword and the name in front of an `=` is no keyword.
 * `NodesTyped`: `NodesTypeOK` is inductive together with the above and with the fact
   that the third pass has not begun before the second has ended (`NotBegun`). That
   the position stays in the list rests on the end of a statement, which is found
   at most behind the last token (`StatementEndBound`).

Writer of PVRS (`PvrsWriterProofs`):

 * `LayersInOrder`: `DefinedBefore` is an invariant of every tree, correct or not.
   The inductive `WriterInv` says that a name enters `defLayers` only when its
   definition is written (`Covered`), that a token which has got scopes has those of
   a name in `defLayers` (`ScopedIn`), also when it is read again, and that the
   innermost call has a node of the tree. A step either writes no layer
   (`WrittenInv`, which most actions come down to), or the one of `WriteLayerInv`,
   whose scopes `getRealLayerName` has found in `defLayers` (`RealFacts`), or it
   defines one (`DefinitionInv`).
 * `NumberPlaced`: the parser of numbers is a recursive function of the rule and the
   position. That it is defined for every list of tokens is shown from the end of
   the list backwards: at each position the rules are a function of the results
   behind it, and of those rules at the same position that come before (`ParsePlaced`).
   By the same order each result ends in the list, and a number behind its
   beginning. So it is for `getConstraint` (`ConstraintPlaced`).
 * `WriterTypes`: the inductive `TypeInv` has `WriterInv`, and of every call on the
   stack, not only the innermost, that its position is in its list or at its end and
   that its option and step are of the function that writes its node (`PlacedIn`).
   That survives the writing of names, which replaces tokens and keeps the length of
   the lists (`SameShape`). What is new is placed by `NumberPlaced`, and by
   `CommandsFit`, a lemma over all 39 functions: the operands lead to operands of the
   same function, and an option that finds no layer and goes on in the code of
   another option, as in SIZE, finds it in the same function.

## What is only model-checked

 * `Termination` of all components: liveness under fairness.
 * `Substitution`, whose meaning of macros is a RECURSIVE operator.
 * `OneNodePerStatement`, `RegularAccepted`, `SameBranch`, `WrittenAsMeant` and
   `CorrectAccepted` are about decks and trees that are regular or correct, which is
   an attribute of the input that only `MCSyntax` and `MCPvrsWriter` give a
   meaning: for an arbitrary value of the constants they say nothing provable.

## Not modelled

 * The generated scanner `lexical/rcsflex.cpp` and the Tcl and Tk headers in
   `share/include`: tables and vendored code. The models start from its tokens.
 * In the lexical parser and the syntax convertor: SETLAYER, which is rewritten to
   the other form of a definition.
 * In the writer of PVRS: the specification statements, which are tables of
   keywords, the dimensional checks INTERNAL, EXTERNAL and ENCLOSURE, CONVEX EDGE,
   DENSITY, net area ratios, the operations of DFM, RET and PATHCHK, and table DRC.
   Layout, quotes, line breaks and the comments of `-as`.
 * The writer of old PVRS (`rcsSynNodeConvertor`), which repeats the writer of PVRS
   with other words, and old PVRS's prefix `$`.
 * The Tcl commands of the TVF and TRS compilers, and `-E`, which stops after them.
 * The comment extractor and the formatter, but for the lines they keep.
 * The widgets of the window. The programs in `rc_tran` and the scripts.

## Plan

 1. The remaining operations and the specification statements in `LayerCommands`.
 2. The comment extractor and the formatter as one pass over characters: no line
    is added or lost, and a comment's text is not in the output.
