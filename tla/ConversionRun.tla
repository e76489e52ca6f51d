---------------------------- MODULE ConversionRun ----------------------------
(***************************************************************************)
(* A process of svrf2pvrs: main(), rcsSvrf2Pvrs::execute() and what they   *)
(* share with the stages they call: temporary files, output and log        *)
(* stream, the error manager's list and line map.  From the command line   *)
(* the process converts one deck, and under -oi then each file the deck    *)
(* includes, by a nested execute(); with -gui it converts a deck whenever  *)
(* the user asks for it.                                                   *)
(*                                                                         *)
(* A step is one stage of the innermost execute(), or one line of it where *)
(* a stage goes from line to line.  What a stage makes of a line is a      *)
(* property of the line: a stage that rejects a line adds an error with    *)
(* the line's number, and which place the user is then told is what the    *)
(* module follows.  The preprocessor has a module of its own; here it says *)
(* which lines get into the temporary file, in which order.                *)
(***************************************************************************)
EXTENDS Naturals, SequencesExt

CONSTANTS
  Words,          \* the pieces of names between their dots
  Names,          \* names of files on disk
  Deck,           \* the name of -i
  SwitchFile,     \* the name of -sf
  OutFile,        \* the name of -o
  Unwritable,     \* paths that cannot be opened for writing
  Starts,         \* the disks and the command lines to consider
  MaxDepth,       \* nested execute() calls that fit on the stack
  MaxConversions, \* bound: conversions of one window
  NoPlace

Tmp       == <<".", "svrf2pvrs", "tmp">>
SwitchTmp == <<".", "svrf2pvrs", "switch", "tmp">>
ScriptTmp == <<".", "tvf2svrf", "tmp">>

\* What a TVF file that is included is compiled to, named with a number, here
\* the number of words behind the first two.
Generated(n) == [i \in 1..(n + 2) |-> IF i = 1 THEN "." ELSE "included"]

\* The content of an output file that was opened and not written.
Partial == <<>>

\* The files a preprocessor may be made to read.
Sources == Names \cup {SwitchTmp, ScriptTmp}
Path    == Seq(Words)

\* A line, named for the stage that objects to it: `directive' the
\* preprocessor, `macro' the macro parser, `syntax' and `warning' the syntax
\* convertor.  The target is that of an INCLUDE.
Line == [kind : {"text", "directive", "macro", "syntax", "warning", "include"},
         target : Sources]

\* Lines of a TVF file are the lines of the SVRF that the TVF compiler makes
\* of it, of a bad one those it makes before it fails.
File == [state : {"svrf", "tvf", "badTvf", "missing", "irregular"},
         lines : Seq(Line)]

Arguments == {"-i", "-o", "-oi", "-full", "-sf", "-gui", "-trs"}

ASSUME RunConstants ==
  /\ {".", "svrf2pvrs", "tmp", "switch", "tvf2svrf", "included", "trs", "pvrs"}
       \subseteq Words
  /\ Names \subseteq Path \ {<<>>, Tmp, SwitchTmp, ScriptTmp}
  /\ \A name \in Names : ~IsPrefix(Generated(0), name)
  /\ {Deck, SwitchFile} \subseteq Names
  /\ OutFile \in Path
  /\ Unwritable \subseteq Path
  /\ \A s \in Starts : s.disk \in [Names -> File] /\ s.args \in Seq(Arguments)
  /\ MaxDepth \in Nat \ {0}
  /\ MaxConversions \in Nat
  /\ NoPlace \notin [file : Sources, name : Path, line : Nat \ {0}]

VARIABLES
  disk,         \* the files that are not temporary, fixed
  args,         \* the arguments that main() has not come to
  opt,          \* the options in force
  status,
  frames,       \* the active execute() calls, innermost last
  temps,        \* the temporary files that exist
  svrfFileName, \* rcsTVFCompiler_T::m_pSvrfFileName, static
  compiled,     \* the file that ScriptTmp was made of last
  tmpIndex,     \* getTvf2SvrfTmpFileName()::index, static
  outStream,    \* m_pPVRSOutStream: is it open, and on which path
  logStream,    \* m_pPVRSSumStream: unset, open or closed
  output,       \* what the output files contain: the input converted,
                \* or Partial
  globalLineNo, \* rcsPreProcessor_T::m_sgnGlobalLineNo
  lineIndex,    \* m_mapLineIndex
  errorList,    \* m_vErrorList
  shown,        \* the errors reported by this conversion
  conversions   \* the number of onConvert() calls

commandLine == <<opt, args>>
scriptVars  == <<svrfFileName, compiled, tmpIndex>>
tempVars    == <<temps, scriptVars>>
streams     == <<outStream, logStream>>
lineVars    == <<globalLineNo, lineIndex>>
errorVars   == <<errorList, shown>>
vars == <<disk, commandLine, status, frames, tempVars, streams, output,
          lineVars, errorVars, conversions>>

-----------------------------------------------------------------------------
(***************************************************************************)
(* The command line.                                                       *)
(***************************************************************************)
NoOptions == [usage |-> FALSE, in |-> FALSE, out |-> FALSE, sf |-> FALSE,
              full |-> FALSE, oi |-> FALSE, gui |-> FALSE, trs |-> FALSE]

ParseOption(o, arg) ==
  CASE arg = "-i"    -> [o EXCEPT !.usage = @ \/ o.in, !.in = TRUE]
    [] arg = "-o"    -> [o EXCEPT !.usage = @ \/ o.out, !.out = TRUE]
    [] arg = "-oi"   -> [o EXCEPT !.usage = @ \/ o.out, !.out = TRUE,
                                  !.oi = TRUE, !.full = TRUE]
    [] arg = "-full" -> [o EXCEPT !.usage = @ \/ o.full, !.full = TRUE]
    [] arg = "-sf"   -> [o EXCEPT !.usage = @ \/ o.sf \/ o.full, !.sf = TRUE]
    [] arg = "-gui"  -> [o EXCEPT !.usage = @ \/ o.gui, !.gui = TRUE]
    [] arg = "-trs"  -> [o EXCEPT !.trs = TRUE]

Rejected(o) == o.usage \/ (~o.gui /\ ~(o.in /\ o.out))

-----------------------------------------------------------------------------
(***************************************************************************)
(* Names.  Under -oi the preprocessor names the output file of an included *)
(* file; execute() gets the input back from it.                            *)
(***************************************************************************)
StateOf(name) ==
  IF name \in Names THEN disk[name].state
  ELSE IF name \in temps THEN "svrf" ELSE "missing"

Unreadable(name) == StateOf(name) \in {"missing", "irregular"}

isTVFRule(name) == StateOf(name) \in {"tvf", "badTvf"}

OutputName(name) == Append(name, IF isTVFRule(name) THEN "trs" ELSE "pvrs")

\* Mutant: only the ending of SVRF files is taken off.
InputNamePvrs(path) == RemoveFirst(path, "pvrs")

\* The first ".trs" of the path is erased, or else the first ".pvrs".
InputName(path) ==
  IF Contains(path, "trs") THEN RemoveFirst(path, "trs")
                           ELSE RemoveFirst(path, "pvrs")

-----------------------------------------------------------------------------
(***************************************************************************)
(* Errors.  `line' is what the code says, and `place' is where the fault   *)
(* is: which line of the text of which file, and under which name the      *)
(* preprocessor had opened that text.                                      *)
(***************************************************************************)
Error(type, line, place) == [type |-> type, line |-> line, place |-> place]

IsFatal(error) == error.type # "WARNING"

Lookup(error, index) ==
  IF error.line \in DOMAIN index THEN index[error.line] ELSE NoPlace

LogOpened == IF logStream = "unset" THEN "open" ELSE logStream
LogClosed(log) == IF log = "open" THEN "closed" ELSE log

endWrite == /\ outStream' = [outStream EXCEPT !.open = FALSE]
            /\ logStream' = LogClosed(logStream)

\* Mutant: only the error that was added last is printed.
ReportsLast(errors, index, log) ==
  [i \in (IF errors = <<>> THEN {} ELSE {1}) |->
     [error |-> Last(errors), at |-> Lookup(Last(errors), index),
      logged |-> log = "open"]]

\* What Report prints, and whether the log gets it too.
Reports(errors, index, log) ==
  [i \in DOMAIN errors |-> [error |-> errors[i],
                            at |-> Lookup(errors[i], index),
                            logged |-> log = "open"]]

\* Mutant: the deferred INCL1 does not count.
NeedExitNow(errors) ==
  \E i \in DOMAIN errors : IsFatal(errors[i]) /\ errors[i].type # "INCL1"

NeedExit(errors) == \E i \in DOMAIN errors : IsFatal(errors[i])

\* addError of each error, of which the last is fatal: the process ends, or
\* in a window the exception takes it back to onConvert().
Raise(errors, index, log) ==
  /\ errorList' = errorList \o errors
  /\ IF opt.gui
     THEN /\ status' = "thrown"
          /\ shown' = shown
          /\ outStream' = outStream
          /\ logStream' = log
     ELSE /\ status' = "exited"
          /\ shown' = shown \o Reports(errorList', index, log)
          /\ outStream' = [outStream EXCEPT !.open = FALSE]
          /\ logStream' = LogClosed(log)

OpenError == Error("OPEN1", 0, NoPlace)

-----------------------------------------------------------------------------
Top == Last(frames)

\* The innermost execute() has come to a stage.
At(pc) == status = "converting" /\ Top.pc = pc

Frame(file, out, sf, shift) ==
  [file |-> file, out |-> out, sf |-> sf, shift |-> shift, script |-> FALSE,
   reading |-> <<>>, registered |-> {}, tokens |-> <<>>, line |-> 0,
   includes |-> <<>>, next |-> 1, pc |-> "begin"]

SetTop(frame) == frames' = ReplaceAt(frames, Len(frames), frame)
Goto(pc)      == SetTop([Top EXCEPT !.pc = pc])

Emptied(path) ==
  [p \in DOMAIN output \cup {path} |-> IF p = path THEN Partial ELSE output[p]]

-----------------------------------------------------------------------------
Init ==
  /\ \E s \in Starts : disk = s.disk /\ args = s.args
  /\ opt = NoOptions
  /\ status = "start"
  /\ frames = <<>>
  /\ temps = {}
  /\ svrfFileName = ScriptTmp
  /\ compiled = Deck
  /\ tmpIndex = 0
  /\ outStream = [open |-> FALSE, path |-> OutFile]
  /\ logStream = "unset"
  /\ output = [p \in {} |-> Partial]
  /\ globalLineNo = 0
  /\ lineIndex = <<>>
  /\ errorList = <<>>
  /\ shown = <<>>
  /\ conversions = 0

ParseArgument ==
  /\ status = "start"
  /\ args # <<>>
  /\ opt' = ParseOption(opt, Head(args))
  /\ args' = Tail(args)
  /\ UNCHANGED <<disk, status, frames, tempVars, streams, output, lineVars,
                 errorVars, conversions>>

\* main(): Usage exits, -gui opens the window, or the deck is converted.
Main ==
  /\ status = "start"
  /\ args = <<>>
  /\ \/ /\ Rejected(opt)
        /\ status' = "returned"
        /\ frames' = frames
     \/ /\ ~Rejected(opt) /\ opt.gui
        /\ status' = "idle"
        /\ frames' = frames
     \/ /\ ~Rejected(opt) /\ ~opt.gui
        /\ status' = "converting"
        /\ frames' = <<Frame(Deck, OutFile, opt.sf, 0)>>
  /\ UNCHANGED <<disk, commandLine, tempVars, streams, output, lineVars,
                 errorVars, conversions>>

\* Mutant: the errors are kept.
ClearedLines == /\ lineIndex' = <<>>
                /\ UNCHANGED errorList

\* What onConvert() resets: the error manager is cleared, the manager and
\* with it the streams are new.
Cleared == /\ errorList' = <<>>
           /\ lineIndex' = <<>>

\* The user asks for a conversion, of any deck, with or without a switch file
\* and to a file that may not be writable; there is neither -oi nor -trs.
OnConvert ==
  /\ status = "idle"
  /\ conversions < MaxConversions
  /\ conversions' = conversions + 1
  /\ Cleared
  /\ outStream' = [outStream EXCEPT !.open = FALSE]
  /\ logStream' = "unset"
  /\ shown' = <<>>
  /\ status' = "converting"
  /\ \E file \in Names, out \in {OutFile} \cup Unwritable, sf \in BOOLEAN :
       frames' = <<Frame(file, out, sf, 0)>>
  /\ opt' = [opt EXCEPT !.oi = FALSE, !.trs = FALSE]
  /\ UNCHANGED <<disk, args, tempVars, output, globalLineNo>>

\* Mutant: the preprocessor's file is forgotten.
RemovedSwitch == {SwitchTmp}

\* The destructor of rcsSvrf2Pvrs.
Removed == {Tmp, SwitchTmp}

\* Mutant: the frame stays.
LeaveNot(files) == UNCHANGED <<frames, status, temps>>

\* The innermost execute() returns and leaves these files.  Its caller is the
\* loop over the include files of another one, or main() or onConvert(); a
\* convertor is destroyed after each loop, and before main() or onConvert()
\* goes on.
Leave(files) ==
  /\ frames' = Front(frames)
  /\ status' = IF Len(frames) > 1 THEN status
               ELSE IF opt.gui THEN "idle" ELSE "returned"
  /\ temps' = IF Len(frames) > 1 /\ Top.includes = <<>> THEN files
              ELSE files \ Removed

\* beginWrite(): open() of a stream that is open fails and leaves it open.
BeginWrite ==
  /\ At("begin")
  /\ logStream' = LogOpened
  /\ outStream.open \/ Top.out \notin Unwritable
  /\ outStream' = IF outStream.open THEN outStream
                  ELSE [open |-> TRUE, path |-> Top.out]
  /\ output' = IF outStream.open THEN output ELSE Emptied(Top.out)
  /\ Goto("check")
  /\ UNCHANGED <<disk, commandLine, status, tempVars, lineVars, errorVars,
                 conversions>>

BeginWriteFails ==
  /\ At("begin")
  /\ ~outStream.open /\ Top.out \in Unwritable
  /\ Raise(<<OpenError>>, lineIndex, LogOpened)
  /\ UNCHANGED <<disk, commandLine, frames, tempVars, output, lineVars,
                 conversions>>

\* -trs and no TVF: the only return that leaves the streams open.
NotTvf ==
  /\ At("check")
  /\ opt.trs /\ ~isTVFRule(Top.file)
  /\ Leave(temps)
  /\ UNCHANGED <<disk, commandLine, scriptVars, streams, output, lineVars,
                 errorVars, conversions>>

CheckFails ==
  /\ At("check")
  /\ ~opt.trs
  /\ Unreadable(Top.file)
  /\ Raise(<<OpenError>>, lineIndex, logStream)
  /\ UNCHANGED <<disk, commandLine, frames, tempVars, output, lineVars,
                 conversions>>

\* -trs: rcsTvfConvertor writes the output on its own.
ConvertToTrs ==
  /\ At("check")
  /\ opt.trs /\ isTVFRule(Top.file)
  /\ output' = [output EXCEPT ![outStream.path] = Top.file]
  /\ endWrite
  /\ Leave(temps)
  /\ UNCHANGED <<disk, commandLine, scriptVars, lineVars, errorVars,
                 conversions>>

\* The TVF compiler has opened its output before it reads the script.
CompileFails ==
  /\ At("check")
  /\ ~opt.trs /\ StateOf(Top.file) = "badTvf"
  /\ shown' = shown \o Reports(errorList, lineIndex, logStream)
  /\ endWrite
  /\ svrfFileName' = ScriptTmp
  /\ compiled' = Top.file
  /\ Leave(temps \cup {ScriptTmp})
  /\ UNCHANGED <<disk, commandLine, tmpIndex, output, lineVars, errorList,
                 conversions>>

Check ==
  /\ At("check")
  /\ ~opt.trs /\ StateOf(Top.file) \in {"svrf", "tvf"}
  /\ LET script == isTVFRule(Top.file) IN
     /\ SetTop([Top EXCEPT !.script = script, !.pc = "preprocess"])
     /\ temps' = IF script THEN temps \cup {ScriptTmp} ELSE temps
     /\ svrfFileName' = IF script THEN ScriptTmp ELSE svrfFileName
     /\ compiled' = IF script THEN Top.file ELSE compiled
  /\ UNCHANGED <<disk, commandLine, status, tmpIndex, streams, output, lineVars,
                 errorVars, conversions>>

-----------------------------------------------------------------------------
(***************************************************************************)
(* The preprocessor, a line a step.  It copies the lines it reads to the   *)
(* temporary file, which become the tokens of the later stages.            *)
(***************************************************************************)
Include(name) == [kind |-> "include", target |-> name]

InFile == IF Top.sf THEN SwitchTmp
          ELSE IF Top.script THEN ScriptTmp ELSE Top.file

\* A file that is read: whose text it is, and the name it was opened by.
Opened(source, name) == [source |-> source, name |-> name, line |-> 1]

LinesOf(source) ==
  CASE source = SwitchTmp ->
         <<Include(SwitchFile),
           Include(IF Top.script THEN ScriptTmp ELSE Top.file)>>
    [] source = ScriptTmp -> disk[compiled].lines
    [] OTHER              -> disk[source].lines

\* initial() and the start of the first execute().
Preprocess ==
  /\ At("preprocess")
  /\ temps' = temps \cup {Tmp} \cup (IF Top.sf THEN {SwitchTmp} ELSE {})
  /\ globalLineNo' = Top.shift
  /\ SetTop([Top EXCEPT !.pc = "read",
                        !.reading = <<Opened(InFile, InFile)>>])
  /\ UNCHANGED <<disk, commandLine, status, scriptVars, streams, output,
                 lineIndex, errorVars, conversions>>

\* The file that is read, and its next line.
Reader    == Last(Top.reading)
LinesLeft == At("read") /\ Reader.line <= Len(LinesOf(Reader.source))
NextLine  == LinesOf(Reader.source)[Reader.line]
Here      == [file |-> Reader.source, name |-> Reader.name,
              line |-> Reader.line]

\* What the map knows of a place: m_pFileName and the line of that file.
Told(place) == [name |-> place.name, line |-> place.line]

\* Mutant: the line is mapped before it is counted.
MappedLate == [n \in DOMAIN lineIndex \cup {globalLineNo} |->
                 IF n \in DOMAIN lineIndex THEN lineIndex[n] ELSE Told(Here)]

\* MapLineIndex: an insertion into a map, which keeps what is there.
Mapped == [n \in DOMAIN lineIndex \cup {globalLineNo + 1} |->
             IF n \in DOMAIN lineIndex THEN lineIndex[n] ELSE Told(Here)]

Counted == /\ globalLineNo' = globalLineNo + 1
           /\ lineIndex' = Mapped

\* The innermost execute() when the line has been copied.
Copied ==
  [Top EXCEPT !.reading = ReplaceAt(@, Len(@), [Reader EXCEPT !.line = @ + 1]),
              !.tokens = Append(@, [kind |-> NextLine.kind, place |-> Here])]

ReadLine ==
  /\ LinesLeft
  /\ NextLine.kind \notin {"directive", "include"}
  /\ Counted
  /\ SetTop(Copied)
  /\ UNCHANGED <<disk, commandLine, status, tempVars, streams, output,
                 errorVars, conversions>>

ReadDirective ==
  /\ LinesLeft
  /\ NextLine.kind = "directive"
  /\ Counted
  /\ Raise(<<Error("directive", globalLineNo', Here)>>, lineIndex', logStream)
  /\ UNCHANGED <<disk, commandLine, frames, tempVars, output, conversions>>

\* -oi: the file is converted later, by an execute() of its own.
ReadInclude ==
  /\ LinesLeft
  /\ NextLine.kind = "include" /\ opt.oi
  /\ Counted
  /\ SetTop([Copied EXCEPT
               !.includes = Append(@, OutputName(NextLine.target))])
  /\ UNCHANGED <<disk, commandLine, status, tempVars, streams, output,
                 errorVars, conversions>>

IncludeAgain ==
  /\ LinesLeft
  /\ NextLine.kind = "include" /\ ~opt.oi
  /\ NextLine.target \in Top.registered
  /\ Counted
  /\ Raise(<<Error("INCL2", globalLineNo', Here)>>, lineIndex', logStream)
  /\ UNCHANGED <<disk, commandLine, frames, tempVars, output, conversions>>

\* processInclude() up to the look at the file, which is registered by now.
Registers ==
  /\ LinesLeft
  /\ NextLine.kind = "include" /\ ~opt.oi
  /\ NextLine.target \notin Top.registered
  /\ Counted

Registered == [Copied EXCEPT !.registered = @ \cup {NextLine.target}]

\* INCL1 is fatal and yet waits for the final Report; the file stays
\* registered.
IncludeMissing ==
  /\ Registers
  /\ Unreadable(NextLine.target)
  /\ SetTop(Registered)
  /\ errorList' = Append(errorList, Error("INCL1", globalLineNo', Here))
  /\ UNCHANGED <<disk, commandLine, status, tempVars, streams, output, shown,
                 conversions>>

\* A TVF file is compiled to a temporary file with the next number, whose
\* name the compiler keeps in its static member.
CompileIncluded(name) ==
  IF isTVFRule(name)
  THEN /\ svrfFileName' = Generated(tmpIndex)
       /\ temps' = temps \cup {Generated(tmpIndex)}
       /\ tmpIndex' = tmpIndex + 1
  ELSE UNCHANGED <<svrfFileName, temps, tmpIndex>>

\* A TVF file that is included and does not compile ends even a window.
IncludedTvfFails ==
  /\ Registers
  /\ StateOf(NextLine.target) = "badTvf"
  /\ CompileIncluded(NextLine.target)
  /\ shown' = shown \o Reports(errorList, lineIndex', logStream)
  /\ endWrite
  /\ status' = "exited"
  /\ UNCHANGED <<disk, commandLine, frames, compiled, output, errorList,
                 conversions>>

\* The name that the preprocessor of an included file gets.
realFile(name) == IF isTVFRule(name) THEN Generated(tmpIndex) ELSE name

IncludeFile ==
  /\ Registers
  /\ ~Unreadable(NextLine.target) /\ StateOf(NextLine.target) # "badTvf"
  /\ CompileIncluded(NextLine.target)
  /\ LET file == Opened(NextLine.target, realFile(NextLine.target)) IN
     SetTop([Registered EXCEPT !.reading = Append(@, file)])
  /\ UNCHANGED <<disk, commandLine, status, compiled, streams, output,
                 errorVars, conversions>>

\* AutoFileRemover: the generated ones of the files that are read.
RemovedWith(reading) ==
  {file.name : file \in {f \in ToSet(reading) : f.name # f.source}}

EndOfFile ==
  /\ At("read") /\ ~LinesLeft
  /\ SetTop([Top EXCEPT !.reading = Front(@),
                        !.registered = @ \ {Reader.source},
                        !.pc = IF Len(Top.reading) = 1 THEN "parse" ELSE @])
  /\ temps' = temps \ RemovedWith(<<Reader>>)
  /\ UNCHANGED <<disk, commandLine, status, scriptVars, streams, output,
                 lineVars, errorVars, conversions>>

-----------------------------------------------------------------------------
(***************************************************************************)
(* The stages after it, and the include files.                             *)
(***************************************************************************)
LinesWith(kinds) == {k \in DOMAIN Top.tokens : Top.tokens[k].kind \in kinds}

\* The macro parser knows lines of the temporary file only; definitions come
\* before calls.
MacroFails ==
  /\ At("parse")
  /\ \E k \in LinesWith({"macro"}) :
       Raise(<<Error("MACRO", k, Top.tokens[k].place)>>, lineIndex, logStream)
  /\ UNCHANGED <<disk, commandLine, frames, tempVars, output, lineVars,
                 conversions>>

ParseMacros ==
  /\ At("parse")
  /\ LinesWith({"macro"}) = {}
  /\ Goto("convert")
  /\ UNCHANGED <<disk, commandLine, status, tempVars, streams, output,
                 lineVars, errorVars, conversions>>

\* Mutant: the line numbers stay those of the temporary file.
GlobalLineNot(k) == k

\* transGlobalLineForIncFile().
GlobalLine(k) == Top.shift + k

\* The lines to which the syntax convertor has not come that it objects to.
Noted == {k \in LinesWith({"warning", "syntax"}) : k > Top.line}

NextNoted(k) == k \in Noted /\ \A j \in Noted : k <= j

SyntaxError(type, k) == Error(type, GlobalLine(k), Top.tokens[k].place)

Warn ==
  /\ At("convert")
  /\ \E k \in Noted :
       /\ NextNoted(k)
       /\ Top.tokens[k].kind = "warning"
       /\ errorList' = Append(errorList, SyntaxError("WARNING", k))
       /\ SetTop([Top EXCEPT !.line = k])
  /\ UNCHANGED <<disk, commandLine, status, tempVars, streams, output,
                 lineVars, shown, conversions>>

ConvertFails ==
  /\ At("convert")
  /\ \E k \in Noted :
       /\ NextNoted(k)
       /\ Top.tokens[k].kind = "syntax"
       /\ Raise(<<SyntaxError("SYNTAX", k)>>, lineIndex, logStream)
  /\ UNCHANGED <<disk, commandLine, frames, tempVars, output, lineVars,
                 conversions>>

\* The output is written and the temporary files are removed: the script
\* under the name the TVF compiler was given last.
Convert ==
  /\ At("convert")
  /\ Noted = {}
  /\ output' = IF outStream.open
               THEN [output EXCEPT ![outStream.path] = Top.file] ELSE output
  /\ temps' = temps \ (Removed \cup IF Top.script THEN {svrfFileName} ELSE {})
  /\ Goto("report")
  /\ UNCHANGED <<disk, commandLine, status, scriptVars, streams, lineVars,
                 errorVars, conversions>>

\* Mutant: the output stream stays open for the include files.
CloseLog == outStream' = outStream /\ logStream' = LogClosed(logStream)

CloseStreams == endWrite

\* Report() and endWrite(): an INCL1 ends the process here, not the window.
Report ==
  /\ At("report")
  /\ shown' = shown \o Reports(errorList, lineIndex, logStream)
  /\ CloseStreams
  /\ IF NeedExit(errorList) /\ ~opt.gui
     THEN status' = "exited" /\ UNCHANGED frames
     ELSE Goto("includes") /\ UNCHANGED status
  /\ UNCHANGED <<disk, commandLine, tempVars, output, lineVars, errorList,
                 conversions>>

\* Mutant: the last include file is left out.
MoreIncludesButLast == Top.next < Len(Top.includes)

MoreIncludes == Top.next <= Len(Top.includes)

ProcessIncludeFile ==
  /\ At("includes")
  /\ MoreIncludes
  /\ Len(frames) < MaxDepth
  /\ LET path == Top.includes[Top.next] IN
     frames' = Append(ReplaceAt(frames, Len(frames),
                                [Top EXCEPT !.next = @ + 1]),
                      Frame(InputName(path), path, FALSE, globalLineNo))
  /\ UNCHANGED <<disk, commandLine, status, tempVars, streams, output,
                 lineVars, errorVars, conversions>>

\* Nothing but the stack ends a recursion of include files.
StackOverflow ==
  /\ At("includes")
  /\ MoreIncludes
  /\ Len(frames) = MaxDepth
  /\ status' = "overflow"
  /\ UNCHANGED <<disk, commandLine, frames, tempVars, streams, output,
                 lineVars, errorVars, conversions>>

Return ==
  /\ At("includes")
  /\ ~MoreIncludes
  /\ Leave(temps)
  /\ UNCHANGED <<disk, commandLine, scriptVars, streams, output, lineVars,
                 errorVars, conversions>>

\* onConvert() catches what addError throws; the convertor is destroyed, and
\* so is what processInclude() has on the stack.
HandleThrow ==
  /\ status = "thrown"
  /\ status' = "idle"
  /\ frames' = <<>>
  /\ temps' = temps \ (Removed \cup RemovedWith(Top.reading))
  /\ shown' = shown \o Reports(errorList, lineIndex, logStream)
  /\ endWrite
  /\ UNCHANGED <<disk, commandLine, scriptVars, output, lineVars, errorList,
                 conversions>>

-----------------------------------------------------------------------------
Stage == \/ BeginWrite \/ BeginWriteFails
         \/ NotTvf \/ CheckFails \/ ConvertToTrs \/ CompileFails \/ Check
         \/ Preprocess \/ ReadLine \/ ReadDirective \/ ReadInclude
         \/ IncludeAgain \/ IncludeMissing \/ IncludedTvfFails
         \/ IncludeFile \/ EndOfFile
         \/ MacroFails \/ ParseMacros
         \/ Warn \/ ConvertFails \/ Convert \/ Report
         \/ ProcessIncludeFile \/ StackOverflow \/ Return

\* What the process does by itself.
Step == ParseArgument \/ Main \/ Stage \/ HandleThrow

Ended == status \in {"returned", "exited", "overflow"}

\* The process has ended, or nobody uses its window any more.
Halted == /\ Ended \/ (status = "idle" /\ conversions = MaxConversions)
          /\ UNCHANGED vars

Next == Step \/ OnConvert \/ Halted

Spec == Init /\ [][Next]_vars /\ WF_vars(Step)
=============================================================================
