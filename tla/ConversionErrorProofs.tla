------------------------ MODULE ConversionErrorProofs ------------------------
(***************************************************************************)
(* Theorems about a process of svrf2pvrs, continued: what the user is told *)
(* of errors, and the streams.                                             *)
(***************************************************************************)
EXTENDS ConversionRunProofs

LEMMA Joined ==
  ASSUME NEW S, NEW s \in Seq(S), NEW t \in Seq(S), NEW i \in DOMAIN (s \o t)
  PROVE  \/ i \in DOMAIN s /\ (s \o t)[i] = s[i]
         \/ i - Len(s) \in DOMAIN t /\ (s \o t)[i] = t[i - Len(s)]
OBVIOUS

-----------------------------------------------------------------------------
(***************************************************************************)
(* The steps, by the stage they lead to.                                   *)
(***************************************************************************)
LEMMA SetFrame ==
  ASSUME frames \in Seq(Frames), frames # <<>>, NEW f, SetTop(f)
  PROVE  frames' # <<>> /\ Len(frames') = Len(frames) /\ Top' = f
BY DEF SetTop, ReplaceAt, Top, Last

LEMMA ToCaller ==
  ASSUME Inv, status = "converting", NEW files, Leave(files)
  PROVE  /\ status' \in {"converting", "idle", "returned"}
         /\ status' = "converting" => Len(frames) > 1 /\ Top'.pc = "includes"
         /\ Len(frames) > 1 => status' = "converting"
         /\ status' = "idle" => opt.gui
         /\ status' = "returned" => ~opt.gui
<1>1. frames \in Seq(Frames) /\ frames # <<>>
  BY DEF Inv, TypeOK
<1>2. Len(frames) \in Nat \ {0} /\ DOMAIN frames = 1..Len(frames)
  BY <1>1
<1>3. /\ frames' # <<>> => Top' = frames[Len(frames) - 1]
      /\ (frames' = <<>>) <=> (Len(frames) = 1)
  BY <1>1, Popped DEF Leave
<1>4. CASE Len(frames) > 1
  <2>1. Len(frames) - 1 \in DOMAIN frames /\ Len(frames) - 1 < Len(frames)
    BY <1>2, <1>4
  <2>2. frames[Len(frames) - 1].pc = "includes"
    BY <2>1 DEF Inv, Nesting
  <2>3. Top'.pc = "includes"
    <3>1. Len(frames) # 1
      BY <1>2, <1>4
    <3>2. Top' = frames[Len(frames) - 1]
      BY <1>3, <3>1
    <3> QED
      BY <2>2, <3>2
  <2> QED
    BY <1>4, <2>3 DEF Leave
<1>5. CASE ~(Len(frames) > 1)
  BY <1>5 DEF Leave
<1> QED
  BY <1>4, <1>5

\* The stages between the check and the end of the conversion.
Inner == \/ Preprocess \/ ReadLine \/ ReadInclude \/ IncludeMissing
         \/ IncludeFile \/ EndOfFile \/ ParseMacros \/ Warn \/ Convert

Fails == \/ BeginWriteFails \/ CheckFails \/ ReadDirective \/ IncludeAgain
         \/ IncludedTvfFails \/ MacroFails \/ ConvertFails

LEMMA Stages2 ==
  Stage <=> \/ Inner \/ Fails \/ BeginWrite \/ NotTvf \/ ConvertToTrs
            \/ CompileFails \/ Check \/ Report \/ ProcessIncludeFile
            \/ StackOverflow \/ Return
BY DEF Stage, Inner, Fails

LEMMA InnerSteps ==
  ASSUME Inv, Inner
  PROVE  /\ status = "converting" /\ status' = "converting"
         /\ Top.pc \in {"preprocess", "read", "parse", "convert"}
         /\ Top'.pc \in {"read", "parse", "convert", "report"}
         /\ Len(frames') = Len(frames)
         /\ UNCHANGED <<opt, outStream, logStream, shown>>
<1> USE DEF streams, errorVars, commandLine
<1>1. PICK f : SetTop(f) /\ f.pc \in {"read", "parse", "convert", "report"}
  <2>1. CASE ReadLine \/ ReadInclude \/ IncludeFile \/ IncludeMissing
    <3>1. LinesLeft /\ Copied \in Frames /\ Copied.pc = "read"
      BY <2>1, CopiedFrame DEF ReadLine, ReadInclude, IncludeFile,
         IncludeMissing, Registers
    <3>2. CASE ReadLine
      BY <3>1, <3>2 DEF ReadLine
    <3>3. CASE IncludeMissing
      BY <3>3, RegisteredFrame DEF IncludeMissing
    <3>4. CASE ReadInclude
      <4> DEFINE f == [Copied EXCEPT !.includes =
                         Append(@, OutputName(NextLine.target))]
      <4>1. SetTop(f)
        BY <3>4 DEF ReadInclude
      <4>2. f.pc = "read"
        BY <3>1 DEF Frames
      <4> HIDE DEF f
      <4> QED
        BY <4>1, <4>2
    <3>5. CASE IncludeFile
      <4> DEFINE file == Opened(NextLine.target, realFile(NextLine.target))
                 f == [Registered EXCEPT !.reading = Append(@, file)]
      <4>1. SetTop(f) /\ Registered \in Frames /\ Registered.pc = "read"
        BY <3>5, RegisteredFrame DEF IncludeFile
      <4>2. f.pc = "read"
        BY <4>1 DEF Frames
      <4> HIDE DEF f
      <4> QED
        BY <4>1, <4>2
    <3> QED
      BY <2>1, <3>2, <3>3, <3>4, <3>5
  <2>2. CASE Preprocess
    <3> DEFINE f == [Top EXCEPT !.pc = "read",
                        !.reading = <<Opened(InFile, InFile)>>]
    <3>1. SetTop(f) /\ Top \in Frames
      BY <2>2, Stages DEF Preprocess
    <3>2. f.pc = "read"
      BY <3>1 DEF Frames
    <3> HIDE DEF f
    <3> QED
      BY <3>1, <3>2
  <2>3. CASE EndOfFile
    <3> DEFINE f == [Top EXCEPT !.reading = Front(@),
                       !.registered = @ \ {Reader.source},
                       !.pc = IF Len(Top.reading) = 1 THEN "parse" ELSE @]
    <3>1. SetTop(f) /\ Top \in Frames /\ Top.pc = "read"
      BY <2>3, Stages DEF EndOfFile
    <3>2. f.pc \in {"read", "parse"}
      BY <3>1 DEF Frames
    <3> HIDE DEF f
    <3> QED
      BY <3>1, <3>2
  <2>4. CASE ParseMacros
    <3>1. SetTop([Top EXCEPT !.pc = "convert"]) /\ Top \in Frames
      BY <2>4, Stages DEF ParseMacros, Goto
    <3>2. [Top EXCEPT !.pc = "convert"].pc = "convert"
      BY <3>1 DEF Frames
    <3> QED
      BY <3>1, <3>2
  <2>5. CASE Warn
    <3>1. PICK k : SetTop([Top EXCEPT !.line = k])
      BY <2>5 DEF Warn
    <3>2. Top \in Frames /\ Top.pc = "convert"
      BY <2>5, Stages DEF Warn
    <3>3. [Top EXCEPT !.line = k].pc = "convert"
      BY <3>2 DEF Frames
    <3> QED
      BY <3>1, <3>3
  <2>6. CASE Convert
    <3>1. SetTop([Top EXCEPT !.pc = "report"]) /\ Top \in Frames
      BY <2>6, Stages DEF Convert, Goto
    <3>2. [Top EXCEPT !.pc = "report"].pc = "report"
      BY <3>1 DEF Frames
    <3> QED
      BY <3>1, <3>2
  <2> QED
    BY <2>1, <2>2, <2>3, <2>4, <2>5, <2>6 DEF Inner
<1>2. /\ status = "converting" /\ status' = "converting"
      /\ Top.pc \in {"preprocess", "read", "parse", "convert"}
      /\ UNCHANGED <<opt, outStream, logStream, shown>>
  BY DEF Inner, Preprocess, ReadLine, ReadInclude, IncludeFile,
     IncludeMissing, EndOfFile, ParseMacros, Warn, Convert, Registers,
     LinesLeft, At
<1>3. frames \in Seq(Frames) /\ frames # <<>>
  BY <1>2 DEF Inv, TypeOK
<1>4. Len(frames') = Len(frames) /\ Top' = f
  BY <1>1, <1>3, SetFrame
<1> QED
  BY <1>1, <1>2, <1>4

LEMMA FailSteps ==
  ASSUME Fails
  PROVE  /\ status = "converting" /\ status' \in {"thrown", "exited"}
         /\ UNCHANGED <<opt, frames>>
BY DEF Fails, BeginWriteFails, CheckFails, ReadDirective, IncludeAgain,
       IncludedTvfFails, MacroFails, ConvertFails, Raise, Registers,
       LinesLeft, At, commandLine

\* The steps that go to another stage and do nothing to the stack.
LEMMA OuterSteps ==
  ASSUME Inv, BeginWrite \/ Check \/ Report
  PROVE  /\ status = "converting"
         /\ BeginWrite => Top.pc = "begin" /\ Top'.pc = "check"
         /\ Check => Top.pc = "check" /\ Top'.pc = "preprocess"
         /\ Report => /\ Top.pc = "report"
                      /\ status' = "exited" \/ Top'.pc = "includes"
<1> DEFINE f(pc) == [Top EXCEPT !.pc = pc]
           g == [Top EXCEPT !.script = isTVFRule(Top.file),
                            !.pc = "preprocess"]
<1>1. status = "converting" /\ frames \in Seq(Frames) /\ frames # <<>>
      /\ Top \in Frames
  BY Stages DEF BeginWrite, Check, Report
<1>2. /\ BeginWrite => Top.pc = "begin" /\ SetTop(f("check"))
      /\ Check => Top.pc = "check" /\ SetTop(g)
      /\ Report => /\ Top.pc = "report"
                   /\ status' = "exited" \/ SetTop(f("includes"))
  BY DEF BeginWrite, Check, Report, Goto, At
<1>3. /\ f("check").pc = "check" /\ f("includes").pc = "includes"
      /\ g.pc = "preprocess"
  BY <1>1 DEF Frames
<1> HIDE DEF f, g
<1> QED
  BY <1>1, <1>2, <1>3, SetFrame

-----------------------------------------------------------------------------
(***************************************************************************)
(* A file of the user's that is not TVF is read by its own name.           *)
(***************************************************************************)
OwnName(d, file, name) ==
  file \in Names /\ d[file].state = "svrf" => name = file

ReadersNamed ==
  status = "converting" /\ Top.pc = "read" =>
    \A i \in DOMAIN Top.reading :
      OwnName(disk, Top.reading[i].source, Top.reading[i].name)

LEMMA SameDisk ==
  ASSUME [Next]_vars
  PROVE  disk' = disk
BY DEF Next, Step, Stage, Halted, vars, ParseArgument, Main, OnConvert,
       HandleThrow, BeginWrite, BeginWriteFails, NotTvf, CheckFails,
       ConvertToTrs, CompileFails, Check, Preprocess, ReadLine, ReadDirective,
       ReadInclude, IncludeAgain, IncludeMissing, IncludedTvfFails,
       IncludeFile, EndOfFile, MacroFails, ParseMacros, Warn, ConvertFails,
       Convert, Report, ProcessIncludeFile, StackOverflow, Return

LEMMA RealName ==
  ASSUME NEW name
  PROVE  OwnName(disk, name, realFile(name))
BY DEF OwnName, realFile, isTVFRule, StateOf

\* A step of the preprocessor.
LEMMA ReadNamed ==
  ASSUME Inv, ReadersNamed, disk' = disk,
         \/ Preprocess \/ ReadLine \/ ReadInclude \/ IncludeMissing
         \/ IncludeFile \/ EndOfFile
  PROVE  ReadersNamed'
<1> DEFINE Good(r) == \A i \in DOMAIN r : OwnName(disk, r[i].source, r[i].name)
<1>1. /\ status = "converting" /\ frames \in Seq(Frames) /\ frames # <<>>
      /\ Top \in Frames /\ Top.pc \in {"preprocess", "read"}
  BY Stages DEF Preprocess, ReadLine, ReadInclude, IncludeMissing, IncludeFile,
     EndOfFile, Registers, LinesLeft
<1>2. ASSUME NEW f, SetTop(f), Good(f.reading)
      PROVE  ReadersNamed'
  BY <1>1, <1>2, SetFrame DEF ReadersNamed
<1>3. CASE Preprocess
  <2> DEFINE r == <<Opened(InFile, InFile)>>
             f == [Top EXCEPT !.pc = "read", !.reading = r]
  <2>1. Good(r)
    BY DEF Opened, OwnName
  <2>2. SetTop(f) /\ f.reading = r
    BY <1>1, <1>3 DEF Preprocess, Frames
  <2> HIDE DEF f, r, Good
  <2> QED
    BY <1>2, <2>1, <2>2
<1>4. ASSUME LinesLeft
      PROVE  /\ Good(Copied.reading) /\ Copied \in Frames
             /\ Copied.reading \in Seq(Readers)
  <2>1. Good(Top.reading)
    BY <1>4 DEF LinesLeft, At, ReadersNamed
  <2> QED
    BY <1>4, <2>1, CopiedReaders, CopiedFrame
<1>5. CASE ReadLine
  BY <1>2, <1>4, <1>5 DEF ReadLine
<1>6. CASE ReadInclude
  <2> DEFINE f == [Copied EXCEPT !.includes =
                     Append(@, OutputName(NextLine.target))]
  <2>1. LinesLeft /\ SetTop(f)
    BY <1>6 DEF ReadInclude
  <2>2. f.reading = Copied.reading
    BY <1>4, <2>1 DEF Frames
  <2> HIDE DEF f, Good
  <2> QED
    BY <1>2, <1>4, <2>1, <2>2
<1>7. CASE IncludeMissing
  BY <1>2, <1>4, <1>7, RegisteredFrame DEF IncludeMissing, Registers
<1>8. CASE IncludeFile
  <2> DEFINE file == Opened(NextLine.target, realFile(NextLine.target))
             r == Append(Copied.reading, file)
             f == [Registered EXCEPT !.reading = Append(@, file)]
  <2>1. Registers /\ LinesLeft /\ SetTop(f)
    BY <1>8 DEF IncludeFile, Registers
  <2>2. Registered \in Frames /\ Registered.reading = Copied.reading
    BY <2>1, RegisteredFrame
  <2>3. OwnName(disk, file.source, file.name)
    BY RealName DEF Opened
  <2> HIDE DEF file
  <2>4. f.reading = r
    BY <2>2 DEF Frames
  <2>5. Good(r)
    <3>1. /\ Copied.reading \in Seq(Readers) /\ Good(Copied.reading)
      BY <1>4, <2>1
    <3>2. \A i \in DOMAIN r : \/ i \in DOMAIN Copied.reading /\ r[i] = Copied.reading[i]
                             \/ r[i] = file
      BY <3>1
    <3> HIDE DEF r
    <3> QED
      BY <2>3, <3>1, <3>2
  <2> HIDE DEF f, r, Good
  <2> QED
    BY <1>2, <2>1, <2>4, <2>5
<1>9. CASE EndOfFile
  <2> DEFINE f == [Top EXCEPT !.reading = Front(@),
                     !.registered = @ \ {Reader.source},
                     !.pc = IF Len(Top.reading) = 1 THEN "parse" ELSE @]
             r == Front(Top.reading)
  <2>1. At("read") /\ SetTop(f)
    BY <1>9 DEF EndOfFile
  <2>2. Good(Top.reading) /\ Top.reading \in Seq(Readers) /\ Top.reading # <<>>
    BY <2>1, ReaderType DEF At, ReadersNamed
  <2>3. f.reading = r
    BY <1>1 DEF Frames
  <2>4. Good(r)
    <3>1. /\ r \in Seq(Readers) /\ Len(r) = Len(Top.reading) - 1
          /\ \A i \in 1..(Len(Top.reading) - 1) : r[i] = Top.reading[i]
      BY <2>2, FrontOf
    <3>2. \A i \in DOMAIN r : i \in DOMAIN Top.reading /\ r[i] = Top.reading[i]
      BY <2>2, <3>1
    <3> HIDE DEF r
    <3> QED
      BY <2>2, <3>2
  <2> HIDE DEF f, r, Good
  <2> QED
    BY <1>2, <2>1, <2>3, <2>4
<1> QED
  BY <1>3, <1>5, <1>6, <1>7, <1>8, <1>9

LEMMA NamesKept ==
  ASSUME Inv, ReadersNamed, [Next]_vars
  PROVE  ReadersNamed'
<1>1. disk' = disk
  BY SameDisk
<1>2. CASE \/ Preprocess \/ ReadLine \/ ReadInclude \/ IncludeMissing
           \/ IncludeFile \/ EndOfFile
  BY <1>1, <1>2, ReadNamed
<1>3. CASE UNCHANGED vars
  BY <1>3 DEF vars, ReadersNamed, Top
<1>4. CASE ParseMacros \/ Warn \/ Convert
  <2>1. PICK f : SetTop(f) /\ f.pc # "read"
    <3>1. Top \in Frames /\ Top.pc # "read"
      BY <1>4, Stages DEF ParseMacros, Warn, Convert
    <3>2. CASE ParseMacros
      BY <3>1, <3>2 DEF ParseMacros, Goto, Frames
    <3>3. CASE Warn
      <4>1. PICK k : SetTop([Top EXCEPT !.line = k])
        BY <3>3 DEF Warn
      <4>2. [Top EXCEPT !.line = k].pc = Top.pc
        BY <3>1 DEF Frames
      <4> QED
        BY <3>1, <4>1, <4>2
    <3>4. CASE Convert
      BY <3>1, <3>4 DEF Convert, Goto, Frames
    <3> QED
      BY <1>4, <3>2, <3>3, <3>4
  <2>2. frames \in Seq(Frames) /\ frames # <<>>
    BY <1>4, Stages DEF ParseMacros, Warn, Convert
  <2> QED
    BY <2>1, <2>2, SetFrame DEF ReadersNamed
<1>5. CASE Fails
  BY <1>5, FailSteps DEF ReadersNamed
<1>6. CASE BeginWrite \/ Check \/ Report
  BY <1>6, OuterSteps DEF ReadersNamed
<1>7. CASE NotTvf \/ ConvertToTrs \/ CompileFails \/ Return
  BY <1>7, ToCaller DEF ReadersNamed, NotTvf, ConvertToTrs, CompileFails,
     Return, At
<1>8. CASE ProcessIncludeFile
  BY <1>8, Nested DEF ReadersNamed
<1>9. CASE StackOverflow \/ ParseArgument \/ HandleThrow
  BY <1>9 DEF ReadersNamed, StackOverflow, ParseArgument, HandleThrow
<1>10. CASE Main \/ OnConvert
  <2>1. status' # "converting" \/ Top'.pc = "begin"
    BY <1>10 DEF Main, OnConvert, Top, Last, Frame
  <2> QED
    BY <2>1 DEF ReadersNamed
<1> QED
  BY <1>2, <1>3, <1>4, <1>5, <1>6, <1>7, <1>8, <1>9, <1>10, Stages2
  DEF Next, Step, Halted, Inner

-----------------------------------------------------------------------------
(***************************************************************************)
(* ErrorPlace: the lines that have been copied are mapped at the global    *)
(* numbers that the stages compute for them.                               *)
(***************************************************************************)

\* What the user is told of a place.
AtPlace(d, at, place) ==
  IF place = NoPlace THEN at = NoPlace
  ELSE at = Told(place) /\ OwnName(d, place.file, place.name)

\* The line map has the place of the error, for good.
Located(d, error, index) ==
  /\ AtPlace(d, Lookup(error, index), error.place)
  /\ error.line = 0 \/ error.line \in DOMAIN index

ErrorsLocated ==
  status \in {"start", "converting", "thrown"} =>
    \A i \in DOMAIN errorList : Located(disk, errorList[i], lineIndex)

TokensMapped ==
  status = "converting" /\ Top.pc \in {"read", "parse", "convert"} =>
    \A k \in DOMAIN Top.tokens :
      /\ Top.shift + k \in DOMAIN lineIndex
      /\ AtPlace(disk, lineIndex[Top.shift + k], Top.tokens[k].place)

ShownPlaced ==
  \A i \in DOMAIN shown :
    (status = "exited" /\ shown[i].error.type = "MACRO" => Len(frames) <= 1) =>
      AtPlace(disk, shown[i].at, shown[i].error.place)

PlaceInv == ErrorsLocated /\ TokensMapped /\ ShownPlaced

LEMMA Placeless == NoPlace \notin Place
BY RunConstants DEF RunConstants, Place

\* A step that neither adds nor prints an error and maps no line.
LEMMA SilentPlace ==
  ASSUME Inv, PlaceInv, UNCHANGED <<disk, lineIndex, errorList, shown>>,
         status \in {"start", "converting"},
         status' \in {"start", "converting", "idle", "returned", "overflow"},
         \/ status' # "converting"
         \/ Top'.pc \notin {"read", "parse", "convert"}
         \/ Top'.tokens = <<>>
         \/ /\ status = "converting" /\ Top.pc \in {"read", "parse", "convert"}
            /\ Top'.tokens = Top.tokens /\ Top'.shift = Top.shift
  PROVE  PlaceInv'
<1>1. ErrorsLocated'
  BY DEF PlaceInv, ErrorsLocated, Located
<1>2. TokensMapped'
  BY DEF PlaceInv, TokensMapped
<1>3. ShownPlaced'
  BY DEF PlaceInv, ShownPlaced
<1> QED
  BY <1>1, <1>2, <1>3 DEF PlaceInv

\* The map grows by a line that no error is about.
LEMMA StillLocated ==
  ASSUME Inv, LinesLeft, Counted, NEW error, Located(disk, error, lineIndex)
  PROVE  Located(disk, error, lineIndex')
<1>1. /\ globalLineNo' \notin DOMAIN lineIndex
      /\ DOMAIN lineIndex \subseteq DOMAIN lineIndex'
      /\ \A n \in DOMAIN lineIndex : lineIndex'[n] = lineIndex[n]
      /\ DOMAIN lineIndex' = 1..globalLineNo' /\ globalLineNo' \in Nat
  BY CountedLine
<1>2. CASE error.line = 0
  <2>1. error.line \notin DOMAIN lineIndex /\ error.line \notin DOMAIN lineIndex'
    BY <1>1, <1>2
  <2> QED
    BY <1>2, <2>1 DEF Located, Lookup
<1>3. CASE error.line \in DOMAIN lineIndex
  BY <1>1, <1>3 DEF Located, Lookup
<1> QED
  BY <1>2, <1>3 DEF Located

LEMMA HereNamed ==
  ASSUME Inv, ReadersNamed, LinesLeft
  PROVE  /\ OwnName(disk, Here.file, Here.name)
         /\ Here # NoPlace
<1>1. /\ Top.reading \in Seq(Readers) /\ Top.reading # <<>>
      /\ Reader \in Readers /\ Here \in Place
  BY ReaderType DEF LinesLeft
<1>2. Len(Top.reading) \in DOMAIN Top.reading
      /\ Reader = Top.reading[Len(Top.reading)]
  BY <1>1 DEF Reader, Last
<1>3. OwnName(disk, Reader.source, Reader.name)
  BY <1>2 DEF ReadersNamed, LinesLeft, At
<1> QED
  BY <1>1, <1>3, Placeless DEF Here

LEMMA HereLocated ==
  ASSUME Inv, ReadersNamed, LinesLeft, Counted, NEW type
  PROVE  Located(disk, Error(type, globalLineNo', Here), lineIndex')
<1>1. /\ globalLineNo' \in DOMAIN lineIndex'
      /\ lineIndex'[globalLineNo'] = Told(Here)
  <2>1. /\ DOMAIN lineIndex' = 1..globalLineNo' /\ lineIndex'[globalLineNo'] = Told(Here)
        /\ globalLineNo' = globalLineNo + 1
    BY CountedLine
  <2>2. globalLineNo \in Nat
    BY DEF Inv, TypeOK
  <2> QED
    BY <2>1, <2>2
<1> DEFINE e == Error(type, globalLineNo', Here)
<1>3. e.line = globalLineNo' /\ e.place = Here
  BY DEF Error
<1>4. AtPlace(disk, Told(Here), Here)
  BY HereNamed DEF AtPlace
<1> HIDE DEF e
<1>5. Located(disk, e, lineIndex')
  BY <1>1, <1>3, <1>4 DEF Located, Lookup
<1> QED
  BY <1>5 DEF e

LEMMA ReportsPlaced ==
  ASSUME NEW errors \in Seq(Errors), NEW index, NEW log,
         index \in [DOMAIN index -> Position],
         NEW i \in DOMAIN (shown \o Reports(errors, index, log)),
         shown \in Seq(Messages)
  PROVE  LET all == shown \o Reports(errors, index, log) IN
         \/ i \in DOMAIN shown /\ all[i] = shown[i]
         \/ \E j \in DOMAIN errors :
              /\ all[i].error = errors[j]
              /\ all[i].at = Lookup(errors[j], index)
              /\ all[i].logged = (log = "open")
<1>1. Reports(errors, index, log) \in Seq(Messages)
  BY ReportsType
<1>2. DOMAIN Reports(errors, index, log) = DOMAIN errors
  BY DEF Reports
<1>3. \A j \in DOMAIN errors :
        Reports(errors, index, log)[j] =
          [error |-> errors[j], at |-> Lookup(errors[j], index),
           logged |-> log = "open"]
  BY DEF Reports
<1> DEFINE new == Reports(errors, index, log)
<1>4. new \in Seq(Messages)
  BY <1>1
<1> HIDE DEF new
<1>5. \/ i \in DOMAIN shown /\ (shown \o new)[i] = shown[i]
      \/ i - Len(shown) \in DOMAIN new /\ (shown \o new)[i] = new[i - Len(shown)]
  BY <1>4, Joined DEF new
<1>6. \A j \in DOMAIN new :
        /\ j \in DOMAIN errors
        /\ new[j] = [error |-> errors[j], at |-> Lookup(errors[j], index),
                     logged |-> log = "open"]
  BY <1>2, <1>3 DEF new
<1> QED
  BY <1>5, <1>6 DEF new

\* Every step that prints the errors there are by now, all of them located but
\* for errors of the macro parser in a later file.
LEMMA ReportPlace ==
  ASSUME Inv, PlaceInv, disk' = disk,
         lineIndex' \in [DOMAIN lineIndex' -> Position],
         NEW log, errorList' \in Seq(Errors),
         shown' = shown \o Reports(errorList', lineIndex', log),
         status # "exited", frames' = frames \/ status' # "exited",
         \A i \in DOMAIN errorList' :
           \/ Located(disk, errorList'[i], lineIndex')
           \/ /\ errorList'[i].type = "MACRO" /\ status' = "exited"
              /\ Len(frames) > 1
  PROVE  ShownPlaced'
<1> SUFFICES ASSUME NEW i \in DOMAIN shown',
                    status' = "exited" /\ shown'[i].error.type = "MACRO" =>
                      Len(frames') <= 1
             PROVE  AtPlace(disk, shown'[i].at, shown'[i].error.place)
  BY DEF ShownPlaced
<1>1. shown \in Seq(Messages) /\ Len(frames) \in Nat
  BY DEF Inv, TypeOK
<1>2. CASE i \in DOMAIN shown /\ shown'[i] = shown[i]
  BY <1>2 DEF PlaceInv, ShownPlaced
<1>3. ASSUME NEW j \in DOMAIN errorList',
             shown'[i].error = errorList'[j],
             shown'[i].at = Lookup(errorList'[j], lineIndex')
      PROVE  AtPlace(disk, shown'[i].at, shown'[i].error.place)
  <2>1. CASE Located(disk, errorList'[j], lineIndex')
    BY <1>3, <2>1 DEF Located
  <2>2. CASE /\ errorList'[j].type = "MACRO" /\ status' = "exited"
             /\ Len(frames) > 1
    <3>1. Len(frames) <= 1
      BY <1>3, <2>2
    <3> QED
      BY <1>1, <2>2, <3>1
  <2> QED
    BY <2>1, <2>2
<1> QED
  BY <1>1, <1>2, <1>3, ReportsPlaced

\* A step that adds an error and ends the conversion.
LEMMA RaisePlace ==
  ASSUME Inv, PlaceInv, status = "converting",
         UNCHANGED <<disk, frames, opt>>,
         NEW error \in Errors, NEW log \in {"unset", "open", "closed"},
         lineIndex' \in [DOMAIN lineIndex' -> Position],
         Raise(<<error>>, lineIndex', log),
         \A i \in DOMAIN errorList : Located(disk, errorList[i], lineIndex'),
         Located(disk, error, lineIndex') \/ (error.type = "MACRO" /\ Len(frames) > 1)
  PROVE  PlaceInv'
<1>1. /\ errorList \in Seq(Errors) /\ errorList' = errorList \o <<error>>
      /\ <<error>> \in Seq(Errors) /\ errorList' \in Seq(Errors)
  BY DEF Inv, TypeOK, Raise
<1>2. ASSUME NEW i \in DOMAIN errorList'
      PROVE  Located(disk, errorList'[i], lineIndex') \/ errorList'[i] = error
  <2>1. CASE i \in DOMAIN errorList /\ errorList'[i] = errorList[i]
    BY <2>1
  <2>2. CASE i - Len(errorList) \in DOMAIN <<error>>
             /\ errorList'[i] = <<error>>[i - Len(errorList)]
    BY <2>2
  <2> QED
    BY <1>1, <2>1, <2>2, Joined
<1>3. CASE opt.gui
  <2>1. status' = "thrown" /\ shown' = shown
    BY <1>3 DEF Raise
  <2>2. ~(Len(frames) > 1)
    <3>1. frames # <<>> /\ frames \in Seq(Frames)
      BY DEF Inv, TypeOK
    <3>2. Len(frames) = 1
      BY <1>3, <3>1 DEF Inv, ModeOK
    <3> QED
      BY <3>2
  <2>3. ErrorsLocated' /\ TokensMapped' /\ ShownPlaced'
    BY <1>2, <2>1, <2>2 DEF ErrorsLocated, TokensMapped, ShownPlaced, PlaceInv
  <2> QED
    BY <2>3 DEF PlaceInv
<1>4. CASE ~opt.gui
  <2>1. /\ status' = "exited"
        /\ shown' = shown \o Reports(errorList', lineIndex', log)
    BY <1>4 DEF Raise
  <2>2. ShownPlaced'
    BY <1>1, <1>2, <2>1, ReportPlace
  <2>3. ErrorsLocated' /\ TokensMapped'
    BY <2>1 DEF ErrorsLocated, TokensMapped
  <2> QED
    BY <2>2, <2>3 DEF PlaceInv
<1> QED
  BY <1>3, <1>4

\* The steps that have nothing to do with errors.
Silent == \/ ParseArgument \/ Main \/ BeginWrite \/ NotTvf \/ ConvertToTrs
          \/ Check \/ Preprocess \/ EndOfFile \/ ParseMacros \/ Convert
          \/ ProcessIncludeFile \/ StackOverflow \/ Return

LEMMA SilentSteps ==
  ASSUME Inv, Silent
  PROVE  /\ UNCHANGED <<disk, lineIndex, errorList, shown>>
         /\ status \in {"start", "converting"}
         /\ status' \in {"start", "converting", "idle", "returned", "overflow"}
         /\ \/ status' # "converting"
            \/ Top'.pc \notin {"read", "parse", "convert"}
            \/ Top'.tokens = <<>>
            \/ /\ status = "converting"
               /\ Top.pc \in {"read", "parse", "convert"}
               /\ Top'.tokens = Top.tokens /\ Top'.shift = Top.shift
<1> USE DEF lineVars, errorVars
<1>1. CASE ParseArgument
  BY <1>1 DEF ParseArgument
<1>2. CASE Main
  <2>1. CASE status' = "converting"
    <3>1. frames' = <<Frame(Deck, OutFile, opt.sf, 0)>>
      BY <1>2, <2>1 DEF Main
    <3>2. Top' = Frame(Deck, OutFile, opt.sf, 0)
      BY <3>1 DEF Top, Last
    <3>3. Top'.pc = "begin"
      BY <3>2 DEF Frame
    <3> QED
      BY <1>2, <3>3 DEF Main
  <2> QED
    BY <1>2, <2>1 DEF Main
<1>3. ASSUME status = "converting", status' = status,
             UNCHANGED <<disk, lineIndex, errorList, shown>>,
             NEW f, SetTop(f), Top \in Frames,
             \/ f.pc \notin {"read", "parse", "convert"}
             \/ /\ Top.pc \in {"read", "parse", "convert"}
                /\ f.tokens = Top.tokens /\ f.shift = Top.shift
      PROVE  /\ UNCHANGED <<disk, lineIndex, errorList, shown>>
             /\ status = "converting" /\ status' = "converting"
             /\ \/ Top'.pc \notin {"read", "parse", "convert"}
                \/ /\ Top.pc \in {"read", "parse", "convert"}
                   /\ Top'.tokens = Top.tokens /\ Top'.shift = Top.shift
  BY <1>3, SetFrame DEF Inv, TypeOK
<1>4. CASE BeginWrite
  <2> DEFINE f == [Top EXCEPT !.pc = "check"]
  <2>1. Top \in Frames /\ status = "converting" /\ SetTop(f)
    BY <1>4, Stages DEF BeginWrite, Goto
  <2>2. f.pc = "check"
    BY <2>1 DEF Frames
  <2> HIDE DEF f
  <2> QED
    BY <1>3, <1>4, <2>1, <2>2 DEF BeginWrite
<1>5. CASE NotTvf \/ ConvertToTrs \/ Return
  BY <1>5, ToCaller DEF NotTvf, ConvertToTrs, Return, At
<1>6. CASE Check
  <2> DEFINE f == [Top EXCEPT !.script = isTVFRule(Top.file),
                              !.pc = "preprocess"]
  <2>1. Top \in Frames /\ status = "converting" /\ SetTop(f)
    BY <1>6, Stages DEF Check
  <2>2. f.pc = "preprocess"
    BY <2>1 DEF Frames
  <2> HIDE DEF f
  <2> QED
    BY <1>3, <1>6, <2>1, <2>2 DEF Check
<1>7. CASE Preprocess
  <2> DEFINE f == [Top EXCEPT !.pc = "read",
                      !.reading = <<Opened(InFile, InFile)>>]
  <2>1. Top \in Frames /\ status = "converting" /\ SetTop(f)
        /\ frames \in Seq(Frames) /\ frames # <<>> /\ Top.tokens = <<>>
    BY <1>7, Stages DEF Preprocess, FrameOK
  <2>2. f.tokens = <<>>
    BY <2>1 DEF Frames
  <2> HIDE DEF f
  <2>3. Top' = f
    BY <2>1, SetFrame
  <2> QED
    BY <1>7, <2>1, <2>2, <2>3 DEF Preprocess
<1>8. CASE EndOfFile
  <2> DEFINE f == [Top EXCEPT !.reading = Front(@),
                     !.registered = @ \ {Reader.source},
                     !.pc = IF Len(Top.reading) = 1 THEN "parse" ELSE @]
  <2>1. Top \in Frames /\ status = "converting" /\ SetTop(f)
        /\ Top.pc = "read"
    BY <1>8, Stages DEF EndOfFile
  <2>2. f.tokens = Top.tokens /\ f.shift = Top.shift
    BY <2>1 DEF Frames
  <2> HIDE DEF f
  <2> QED
    BY <1>3, <1>8, <2>1, <2>2 DEF EndOfFile
<1>9. CASE ParseMacros
  <2> DEFINE f == [Top EXCEPT !.pc = "convert"]
  <2>1. Top \in Frames /\ status = "converting" /\ SetTop(f)
        /\ Top.pc = "parse"
    BY <1>9, Stages DEF ParseMacros, Goto
  <2>2. f.tokens = Top.tokens /\ f.shift = Top.shift
    BY <2>1 DEF Frames
  <2> HIDE DEF f
  <2> QED
    BY <1>3, <1>9, <2>1, <2>2 DEF ParseMacros
<1>10. CASE Convert
  <2> DEFINE f == [Top EXCEPT !.pc = "report"]
  <2>1. Top \in Frames /\ status = "converting" /\ SetTop(f)
    BY <1>10, Stages DEF Convert, Goto
  <2>2. f.pc = "report"
    BY <2>1 DEF Frames
  <2> HIDE DEF f
  <2> QED
    BY <1>3, <1>10, <2>1, <2>2 DEF Convert
<1>11. CASE ProcessIncludeFile
  BY <1>11, Nested DEF ProcessIncludeFile, At
<1>12. CASE StackOverflow
  BY <1>12 DEF StackOverflow, At
<1> QED
  BY <1>1, <1>2, <1>4, <1>5, <1>6, <1>7, <1>8, <1>9, <1>10, <1>11, <1>12
  DEF Silent

\* The steps that copy a line, and those that are one with them.
LEMMA CopyPlace ==
  ASSUME Inv, ReadersNamed, PlaceInv, disk' = disk,
         LinesLeft, Counted, NEW f \in Frames, SetTop(f),
         f.tokens = Copied.tokens, f.shift = Top.shift,
         status' = status, shown' = shown,
         \/ errorList' = errorList
         \/ errorList' = Append(errorList, Error("INCL1", globalLineNo', Here))
  PROVE  PlaceInv'
<1>1. /\ status = "converting" /\ frames \in Seq(Frames) /\ frames # <<>>
      /\ Top \in Frames /\ Top.pc = "read"
  BY Stages DEF LinesLeft
<1>2. /\ globalLineNo' = Top.shift + Len(Top.tokens) + 1
      /\ globalLineNo' \in Nat
      /\ DOMAIN lineIndex' = 1..globalLineNo'
      /\ DOMAIN lineIndex \subseteq DOMAIN lineIndex'
      /\ \A n \in DOMAIN lineIndex : lineIndex'[n] = lineIndex[n]
      /\ lineIndex'[globalLineNo'] = Told(Here)
  BY CountedLine
<1>3. Top' = f
  BY <1>1, SetFrame
<1>4. TokensMapped'
  <2> DEFINE token == [kind |-> NextLine.kind, place |-> Here]
  <2>1. f.tokens = Append(Top.tokens, token)
    BY CopiedFrame
  <2>2. Top.tokens \in Seq(Token) /\ Top.shift \in Nat
    BY <1>1 DEF Frames
  <2>3. token.place = Here
    OBVIOUS
  <2> HIDE DEF token
  <2>4. ASSUME NEW k \in DOMAIN f.tokens
        PROVE  /\ f.shift + k \in DOMAIN lineIndex'
               /\ AtPlace(disk, lineIndex'[f.shift + k], f.tokens[k].place)
    <3>1. CASE k \in DOMAIN Top.tokens
      <4>1. f.tokens[k] = Top.tokens[k]
        BY <2>1, <2>2, <3>1
      <4>2. /\ Top.shift + k \in DOMAIN lineIndex
            /\ AtPlace(disk, lineIndex[Top.shift + k], Top.tokens[k].place)
        BY <1>1, <3>1 DEF PlaceInv, TokensMapped
      <4> QED
        BY <1>2, <4>1, <4>2
    <3>2. CASE k = Len(Top.tokens) + 1
      <4>1. f.tokens[k] = token
        BY <2>1, <2>2, <3>2
      <4>2. f.shift + k = globalLineNo'
        BY <1>2, <2>2, <3>2
      <4>3. globalLineNo' \in DOMAIN lineIndex'
        BY <1>2, <2>2
      <4> QED
        BY <1>2, <2>3, <4>1, <4>2, <4>3, HereNamed DEF AtPlace
    <3> QED
      BY <2>1, <2>2, <3>1, <3>2
  <2> QED
    BY <1>3, <2>4 DEF TokensMapped
<1>5. ErrorsLocated'
  <2>1. \A i \in DOMAIN errorList : Located(disk, errorList[i], lineIndex')
    BY <1>1, StillLocated DEF PlaceInv, ErrorsLocated
  <2>2. CASE errorList' = errorList
    BY <2>1, <2>2 DEF ErrorsLocated
  <2>3. CASE errorList' =
               Append(errorList, Error("INCL1", globalLineNo', Here))
    <3> DEFINE e == Error("INCL1", globalLineNo', Here)
    <3>1. Located(disk, e, lineIndex')
      BY HereLocated
    <3>2. errorList \in Seq(Errors)
      BY DEF Inv, TypeOK
    <3> HIDE DEF e
    <3>3. errorList' = Append(errorList, e)
      BY <2>3 DEF e
    <3>4. \A i \in DOMAIN errorList' :
            \/ i \in DOMAIN errorList /\ errorList'[i] = errorList[i]
            \/ errorList'[i] = e
      BY <3>2, <3>3
    <3> QED
      BY <2>1, <3>1, <3>4 DEF ErrorsLocated
  <2> QED
    BY <2>2, <2>3
<1>6. ShownPlaced'
  BY <1>1 DEF PlaceInv, ShownPlaced
<1> QED
  BY <1>4, <1>5, <1>6 DEF PlaceInv

LEMMA ReadPlace ==
  ASSUME Inv, ReadersNamed, PlaceInv, disk' = disk,
         ReadLine \/ ReadInclude \/ IncludeFile \/ IncludeMissing
  PROVE  PlaceInv'
<1> USE DEF errorVars
<1>1. LinesLeft /\ Counted /\ status' = status /\ shown' = shown
  BY DEF ReadLine, ReadInclude, IncludeFile, IncludeMissing, Registers
<1>2. /\ Copied \in Frames /\ Copied.shift = Top.shift
      /\ Copied.includes = Top.includes
  BY <1>1, CopiedFrame
<1>3. CASE ReadLine
  BY <1>1, <1>2, <1>3, CopyPlace DEF ReadLine
<1>4. CASE IncludeMissing
  BY <1>1, <1>4, RegisteredFrame, CopyPlace DEF IncludeMissing
<1>5. CASE ReadInclude
  <2> DEFINE i == Append(Copied.includes, OutputName(NextLine.target))
             f == [Copied EXCEPT !.includes =
                     Append(@, OutputName(NextLine.target))]
  <2>1. i \in Seq(Path)
    <3>1. NextLine.target \in Sources
      BY <1>1, ReaderType DEF LinesLeft, Line
    <3>2. OutputName(NextLine.target) \in Path
      BY <3>1, Paths
    <3>3. Copied.includes \in Seq(Path)
      BY <1>2 DEF Frames
    <3> QED
      BY <3>2, <3>3
  <2>2. SetTop(f) /\ errorList' = errorList
    BY <1>5 DEF ReadInclude
  <2>3. f = [Copied EXCEPT !.includes = i]
    OBVIOUS
  <2> HIDE DEF i, f
  <2>4. f \in Frames /\ f.tokens = Copied.tokens /\ f.shift = Top.shift
    BY <1>2, <2>1, <2>3 DEF Frames
  <2> QED
    BY <1>1, <2>2, <2>4, CopyPlace
<1>6. CASE IncludeFile
  <2> DEFINE file == Opened(NextLine.target, realFile(NextLine.target))
             r == Append(Registered.reading, file)
             f == [Registered EXCEPT !.reading = Append(@, file)]
  <2>1. Registers
    BY <1>6 DEF IncludeFile
  <2>2. /\ NextLine.target \in Sources
        /\ Registered \in Frames /\ Registered.shift = Top.shift
        /\ Registered.tokens = Copied.tokens
    BY <2>1, RegisteredFrame
  <2>3. r \in Seq(Readers)
    <3>1. CompileIncluded(NextLine.target)
      BY <1>6 DEF IncludeFile
    <3>2. realFile(NextLine.target) \in Path
      BY <2>2, <3>1, CompiledType, Paths DEF Inv
    <3>3. file \in Readers
      BY <2>2, <3>2 DEF Opened, Readers
    <3> HIDE DEF file
    <3> QED
      BY <2>2, <3>3 DEF Frames
  <2>4. SetTop(f) /\ errorList' = errorList
    BY <1>6 DEF IncludeFile
  <2>5. f = [Registered EXCEPT !.reading = r]
    OBVIOUS
  <2> HIDE DEF r, f
  <2>6. f \in Frames /\ f.tokens = Copied.tokens /\ f.shift = Top.shift
    BY <2>2, <2>3, <2>5 DEF Frames
  <2> QED
    BY <1>1, <2>4, <2>6, CopyPlace
<1> QED
  BY <1>3, <1>4, <1>5, <1>6

LEMMA NotedLocated ==
  ASSUME Inv, PlaceInv, At("convert"), NEW k \in Noted, NEW type
  PROVE  Located(disk, SyntaxError(type, k), lineIndex)
<1>1. status = "converting" /\ Top.pc = "convert"
  BY Stages
<1>2. k \in DOMAIN Top.tokens
  BY DEF Noted, LinesWith
<1>3. /\ Top.shift + k \in DOMAIN lineIndex
      /\ AtPlace(disk, lineIndex[Top.shift + k], Top.tokens[k].place)
  BY <1>1, <1>2 DEF PlaceInv, TokensMapped
<1> QED
  BY <1>3 DEF Located, Lookup, SyntaxError, Error, GlobalLine

\* The steps that add an error and end the conversion.
LEMMA FailPlace ==
  ASSUME Inv, ReadersNamed, PlaceInv, disk' = disk,
         \/ BeginWriteFails \/ CheckFails \/ ReadDirective \/ IncludeAgain
         \/ MacroFails \/ ConvertFails
  PROVE  PlaceInv'
<1> USE DEF commandLine, lineVars
<1>1. status = "converting" /\ UNCHANGED <<disk, frames, opt>>
  BY DEF BeginWriteFails, CheckFails, ReadDirective, IncludeAgain, MacroFails,
         ConvertFails, LinesLeft, At
<1>2. \A i \in DOMAIN errorList : Located(disk, errorList[i], lineIndex)
  BY <1>1 DEF PlaceInv, ErrorsLocated
<1>3. /\ LogOpened \in {"unset", "open", "closed"}
      /\ logStream \in {"unset", "open", "closed"}
      /\ lineIndex \in [DOMAIN lineIndex -> Position]
      /\ DOMAIN lineIndex \in {{}, 1..globalLineNo} /\ globalLineNo \in Nat
  BY DEF LogOpened, Inv, TypeOK
<1>4. CASE BeginWriteFails \/ CheckFails
  <2>1. OpenError \in Errors /\ OpenError.line = 0
        /\ OpenError.place = NoPlace
    BY DEF OpenError, Error, Errors
  <2>2. 0 \notin DOMAIN lineIndex
    BY <1>3
  <2>3. Located(disk, OpenError, lineIndex)
    BY <2>1, <2>2 DEF Located, Lookup, AtPlace
  <2>4. lineIndex' = lineIndex
    BY <1>4 DEF BeginWriteFails, CheckFails
  <2>5. PICK log \in {"unset", "open", "closed"} :
          Raise(<<OpenError>>, lineIndex, log)
    BY <1>3, <1>4 DEF BeginWriteFails, CheckFails
  <2> QED
    BY <1>1, <1>2, <1>3, <2>1, <2>3, <2>4, <2>5, RaisePlace
<1>5. CASE ReadDirective \/ IncludeAgain
  <2>1. PICK type \in {"directive", "INCL2"} :
          /\ LinesLeft /\ Counted
          /\ Raise(<<Error(type, globalLineNo', Here)>>, lineIndex', logStream)
    BY <1>5 DEF ReadDirective, IncludeAgain
  <2> DEFINE e == Error(type, globalLineNo', Here)
  <2>2. /\ globalLineNo' \in Nat /\ lineIndex' \in [DOMAIN lineIndex' -> Position]
        /\ Here \in Place
    BY <2>1, CountedLine, ReaderType DEF LinesLeft
  <2>3. e \in Errors
    BY <2>2 DEF Error, Errors
  <2>4. Located(disk, e, lineIndex')
    BY <2>1, HereLocated
  <2>5. \A i \in DOMAIN errorList : Located(disk, errorList[i], lineIndex')
    BY <1>2, <2>1, StillLocated
  <2>6. Raise(<<e>>, lineIndex', logStream)
    BY <2>1
  <2> HIDE DEF e
  <2> QED
    BY <1>1, <1>3, <2>2, <2>3, <2>4, <2>5, <2>6, RaisePlace
<1>6. CASE MacroFails
  <2>1. PICK k \in LinesWith({"macro"}) :
          Raise(<<Error("MACRO", k, Top.tokens[k].place)>>, lineIndex,
                logStream)
    BY <1>6 DEF MacroFails
  <2> DEFINE e == Error("MACRO", k, Top.tokens[k].place)
  <2>2. At("parse") /\ k \in DOMAIN Top.tokens
    BY <1>6 DEF MacroFails, LinesWith
  <2>3. k \in Nat /\ Top.tokens[k].place \in Place
    BY <2>2, TokenType
  <2>4. e \in Errors /\ e.type = "MACRO"
    BY <2>3 DEF Error, Errors
  <2>5. Located(disk, e, lineIndex) \/ Len(frames) > 1
    <3>1. frames \in Seq(Frames) /\ frames # <<>> /\ Top = frames[Len(frames)]
          /\ Top.pc = "parse"
      BY <2>2, Stages
    <3>2. CASE Len(frames) = 1
      <4>1. Top.shift = 0
        BY <3>1, <3>2 DEF Inv, Nesting
      <4>2. /\ Top.shift + k \in DOMAIN lineIndex
            /\ AtPlace(disk, lineIndex[Top.shift + k], Top.tokens[k].place)
        BY <1>1, <2>2, <3>1 DEF PlaceInv, TokensMapped
      <4>3. Top.shift + k = k
        BY <2>3, <4>1
      <4> QED
        BY <4>2, <4>3 DEF Located, Lookup, Error
    <3>3. Len(frames) \in Nat \ {0} /\ DOMAIN frames = 1..Len(frames)
      BY <3>1
    <3> QED
      BY <3>2, <3>3
  <2>6. Raise(<<e>>, lineIndex, logStream) /\ lineIndex' = lineIndex
    BY <1>6, <2>1 DEF MacroFails
  <2> HIDE DEF e
  <2> QED
    BY <1>1, <1>2, <1>3, <2>4, <2>5, <2>6, RaisePlace
<1>7. CASE ConvertFails
  <2>1. PICK k \in Noted : Raise(<<SyntaxError("SYNTAX", k)>>, lineIndex,
                                 logStream)
    BY <1>7 DEF ConvertFails
  <2>2. At("convert") /\ lineIndex' = lineIndex
    BY <1>7 DEF ConvertFails
  <2>3. SyntaxError("SYNTAX", k) \in Errors
    BY <2>2, NotedType
  <2>4. Located(disk, SyntaxError("SYNTAX", k), lineIndex)
    BY <2>2, NotedLocated
  <2> QED
    BY <1>1, <1>2, <1>3, <2>1, <2>2, <2>3, <2>4, RaisePlace
<1> QED
  BY <1>4, <1>5, <1>6, <1>7

LEMMA WarnPlace ==
  ASSUME Inv, PlaceInv, disk' = disk, Warn
  PROVE  PlaceInv'
<1> USE DEF Warn, lineVars
<1>1. PICK k \in Noted :
        /\ errorList' = Append(errorList, SyntaxError("WARNING", k))
        /\ SetTop([Top EXCEPT !.line = k])
  OBVIOUS
<1> DEFINE f == [Top EXCEPT !.line = k]
           e == SyntaxError("WARNING", k)
<1>2. /\ status = "converting" /\ Top \in Frames /\ Top.pc = "convert"
      /\ frames \in Seq(Frames) /\ frames # <<>>
  BY Stages
<1>3. f.tokens = Top.tokens /\ f.shift = Top.shift /\ SetTop(f)
  BY <1>1, <1>2 DEF Frames
<1>4. Located(disk, e, lineIndex) /\ e \in Errors
  BY NotedLocated, NotedType
<1>5. errorList \in Seq(Errors) /\ errorList' = Append(errorList, e)
  BY <1>1 DEF Inv, TypeOK
<1> HIDE DEF e, f
<1>6. \A i \in DOMAIN errorList' :
        \/ i \in DOMAIN errorList /\ errorList'[i] = errorList[i]
        \/ errorList'[i] = e
  BY <1>4, <1>5
<1>7. ErrorsLocated'
  BY <1>2, <1>4, <1>6 DEF PlaceInv, ErrorsLocated
<1>8. Top' = f
  BY <1>2, <1>3, SetFrame
<1>9. TokensMapped'
  BY <1>2, <1>3, <1>8 DEF PlaceInv, TokensMapped
<1>10. ShownPlaced'
  BY <1>2 DEF PlaceInv, ShownPlaced
<1> QED
  BY <1>7, <1>9, <1>10 DEF PlaceInv

\* The steps that print the errors there are.
LEMMA PrintPlace ==
  ASSUME Inv, PlaceInv, disk' = disk,
         CompileFails \/ IncludedTvfFails \/ Report \/ HandleThrow
  PROVE  PlaceInv'
<1> USE DEF lineVars
<1>1. errorList' = errorList /\ status \in {"converting", "thrown"}
  BY DEF CompileFails, IncludedTvfFails, Report, HandleThrow, LinesLeft, At,
         Registers
<1>2. errorList' \in Seq(Errors)
  BY <1>1 DEF Inv, TypeOK
<1>3. shown' = shown \o Reports(errorList', lineIndex', logStream)
  BY <1>1 DEF CompileFails, IncludedTvfFails, Report, HandleThrow
<1>4. /\ lineIndex' \in [DOMAIN lineIndex' -> Position]
      /\ \A i \in DOMAIN errorList' : Located(disk, errorList'[i], lineIndex')
  <2>1. CASE lineIndex' = lineIndex
    BY <1>1, <2>1 DEF PlaceInv, ErrorsLocated, Inv, TypeOK
  <2>2. CASE IncludedTvfFails
    <3>1. LinesLeft /\ Counted
      BY <2>2 DEF IncludedTvfFails, Registers
    <3> QED
      BY <1>1, <3>1, CountedLine, StillLocated DEF PlaceInv, ErrorsLocated
  <2> QED
    BY <2>1, <2>2 DEF CompileFails, Report, HandleThrow
<1>5. frames' = frames \/ status' # "exited"
  <2>1. CASE CompileFails
    BY <1>1, <2>1, ToCaller DEF CompileFails, At
  <2> QED
    BY <1>1, <2>1 DEF IncludedTvfFails, Report, HandleThrow
<1>6. ShownPlaced'
  BY <1>1, <1>2, <1>3, <1>4, <1>5, ReportPlace
<1>7. ErrorsLocated'
  BY <1>4 DEF ErrorsLocated
<1>8. status' # "converting" \/ Top'.pc = "includes"
  <2>1. CASE CompileFails
    BY <2>1, ToCaller DEF CompileFails, At
  <2>2. CASE Report
    <3> DEFINE f == [Top EXCEPT !.pc = "includes"]
    <3>1. CASE status' = "exited"
      BY <3>1
    <3>2. CASE SetTop(f)
      <4>1. Top \in Frames /\ frames \in Seq(Frames) /\ frames # <<>>
        BY <2>2, Stages DEF Report
      <4>2. f.pc = "includes"
        BY <4>1 DEF Frames
      <4> HIDE DEF f
      <4> QED
        BY <3>2, <4>1, <4>2, SetFrame
    <3> QED
      BY <2>2, <3>1, <3>2 DEF Report, Goto
  <2> QED
    BY <2>1, <2>2 DEF IncludedTvfFails, HandleThrow
<1>9. TokensMapped'
  BY <1>8 DEF TokensMapped
<1> QED
  BY <1>6, <1>7, <1>9 DEF PlaceInv

LEMMA OnConvertPlace ==
  ASSUME Inv, PlaceInv, OnConvert
  PROVE  PlaceInv'
<1>1. Len(frames') = 1 /\ Top'.pc = "begin"
  BY DEF OnConvert, Top, Last, Frame
<1>2. ErrorsLocated' /\ TokensMapped' /\ ShownPlaced'
  BY <1>1 DEF OnConvert, Cleared, ErrorsLocated, TokensMapped, ShownPlaced
<1> QED
  BY <1>2 DEF PlaceInv

LEMMA StutterPlace ==
  ASSUME PlaceInv, UNCHANGED vars
  PROVE  PlaceInv'
BY DEF vars, lineVars, errorVars, PlaceInv, ErrorsLocated, TokensMapped,
       ShownPlaced, Top

\* Each error is printed at the place where it is, by the name that the
\* preprocessor read, which is the user's own for a file of SVRF.
THEOREM Placed == Spec => []ErrorPlace
<1>1. Init => ReadersNamed /\ PlaceInv
  BY DEF Init, ReadersNamed, PlaceInv, ErrorsLocated, TokensMapped, ShownPlaced
<1>2. Inv /\ ReadersNamed /\ PlaceInv /\ [Next]_vars => (ReadersNamed /\ PlaceInv)'
  <2> SUFFICES ASSUME Inv, ReadersNamed, PlaceInv, [Next]_vars
               PROVE  ReadersNamed' /\ PlaceInv'
    OBVIOUS
  <2>1. disk' = disk /\ ReadersNamed'
    BY SameDisk, NamesKept
  <2>2. CASE Silent
    BY <2>1, <2>2, SilentSteps, SilentPlace
  <2> QED
    BY <2>1, <2>2, ReadPlace, FailPlace, WarnPlace, PrintPlace, OnConvertPlace,
       StutterPlace DEF Next, Step, Stage, Silent, Halted
<1>3. PlaceInv => ErrorPlace
  BY DEF PlaceInv, ShownPlaced, ErrorPlace, AtPlace, OwnName, Written, Told
<1> QED
  BY <1>1, <1>2, <1>3, Invariant, PTL DEF Spec
-----------------------------------------------------------------------------
(***************************************************************************)
(* StreamsClosed and FatalEndsRun: what holds whenever an execute()        *)
(* begins, and when it comes to its include files.                         *)
(***************************************************************************)

\* Between two conversions.
Between == \/ status \in {"start", "idle"}
           \/ status = "returned" /\ ~opt.trs
           \/ status = "converting" /\ Top.pc \in {"begin", "includes"}

StreamInv == Between => ~outStream.open /\ logStream # "open"

NoFatal(errors) == \A i \in DOMAIN errors : ~IsFatal(errors[i])

\* The conversion goes on from here only if there was no fatal error.
FatalInv ==
  /\ status = "start" => errorList = <<>>
  /\ \/ status = "returned"
     \/ /\ ~opt.gui /\ status = "converting"
        /\ Top.pc \in {"begin", "check", "includes"}
     => NoFatal(errorList)

LEMMA EndWrite ==
  ASSUME TypeOK, endWrite
  PROVE  ~outStream'.open /\ logStream' # "open"
BY DEF endWrite, LogClosed, TypeOK

LEMMA StreamsOK == Spec => []StreamInv
<1>1. Init => StreamInv
  BY DEF Init, StreamInv
<1>2. Inv /\ StreamInv /\ [Next]_vars => StreamInv'
  <2> SUFFICES ASSUME Inv, StreamInv, [Next]_vars PROVE StreamInv'
    OBVIOUS
  <2> USE DEF streams
  <2>1. CASE Inner
    BY <2>1, InnerSteps DEF StreamInv, Between
  <2>2. CASE Fails
    BY <2>2, FailSteps DEF StreamInv, Between
  <2>3. CASE BeginWrite \/ Check
    <3>1. status' = status /\ Top'.pc \in {"check", "preprocess"}
          /\ status = "converting"
      BY <2>3, OuterSteps DEF BeginWrite, Check
    <3> QED
      BY <3>1 DEF StreamInv, Between
  <2>4. CASE ConvertToTrs \/ CompileFails \/ Report \/ HandleThrow
    <3>1. ~outStream'.open /\ logStream' # "open"
      BY <2>4, EndWrite DEF Inv, ConvertToTrs, CompileFails, Report,
         CloseStreams, HandleThrow
    <3> QED
      BY <3>1 DEF StreamInv
  <2>5. CASE NotTvf
    <3>1. status = "converting" /\ opt.trs /\ opt' = opt
      BY <2>5 DEF NotTvf, At, commandLine
    <3>2. frames \in Seq(Frames) /\ frames # <<>>
      BY <3>1 DEF Inv, TypeOK
    <3>3. Len(frames) = 1 /\ ~opt.gui
      BY <3>1, <3>2 DEF Inv, ModeOK
    <3>4. status' = "returned"
      BY <2>5, <3>3 DEF NotTvf, Leave
    <3> QED
      BY <3>1, <3>4 DEF StreamInv, Between
  <2>6. CASE ProcessIncludeFile \/ Return
    <3>1. Between /\ UNCHANGED <<outStream, logStream>>
      BY <2>6 DEF ProcessIncludeFile, Return, Between, At
    <3> QED
      BY <3>1 DEF StreamInv
  <2>7. CASE StackOverflow
    BY <2>7 DEF StackOverflow, StreamInv, Between
  <2>8. CASE ParseArgument \/ Main
    <3>1. Between /\ UNCHANGED <<outStream, logStream>>
      BY <2>8 DEF ParseArgument, Main, Between
    <3> QED
      BY <3>1 DEF StreamInv
  <2>9. CASE OnConvert
    <3>1. ~outStream'.open /\ logStream' # "open"
      BY <2>9 DEF OnConvert, Inv, TypeOK
    <3> QED
      BY <3>1 DEF StreamInv
  <2>10. CASE UNCHANGED vars
    BY <2>10 DEF vars, commandLine, StreamInv, Between, Top
  <2> QED
    BY <2>1, <2>2, <2>3, <2>4, <2>5, <2>6, <2>7, <2>8, <2>9, <2>10, Stages2
    DEF Next, Step, Halted
<1> QED
  BY <1>1, <1>2, Invariant, PTL DEF Spec

\* No stream stays open between two conversions.
THEOREM Closed == Spec => []StreamsClosed
<1>1. StreamInv => StreamsClosed
  BY DEF StreamInv, Between, StreamsClosed
<1> QED
  BY <1>1, StreamsOK, PTL

\* A process that returns has met no fatal error.
THEOREM NoFatalReturns == Spec => []FatalEndsRun
<1>1. Init => FatalInv
  BY DEF Init, FatalInv, NoFatal, NoOptions
<1>2. Inv /\ FatalInv /\ [Next]_vars => FatalInv'
  <2> SUFFICES ASSUME Inv, FatalInv, [Next]_vars PROVE FatalInv'
    OBVIOUS
  <2> USE DEF errorVars, commandLine
  <2>1. CASE Inner
    BY <2>1, InnerSteps DEF FatalInv
  <2>2. CASE Fails
    BY <2>2, FailSteps DEF FatalInv
  <2>3. CASE BeginWrite
    <3>1. status' = "converting" /\ status = "converting" /\ Top.pc = "begin"
          /\ UNCHANGED <<opt, errorList>>
      BY <2>3, OuterSteps DEF BeginWrite
    <3> QED
      BY <3>1 DEF FatalInv, NoFatal
  <2>4. CASE Check
    <3>1. status' = "converting" /\ Top'.pc = "preprocess"
      BY <2>4, OuterSteps DEF Check
    <3> QED
      BY <3>1 DEF FatalInv
  <2>5. CASE Report
    <3>1. /\ status = "converting" /\ status' \in {"converting", "exited"}
          /\ UNCHANGED <<opt, errorList>>
          /\ status' = "converting" => opt.gui \/ ~NeedExit(errorList)
      BY <2>5, OuterSteps DEF Report
    <3> QED
      BY <3>1 DEF FatalInv, NeedExit, NoFatal
  <2>6. CASE NotTvf \/ ConvertToTrs \/ CompileFails \/ Return
    <3>1. /\ status = "converting" /\ Top.pc \in {"check", "includes"}
          /\ UNCHANGED <<opt, errorList>>
      BY <2>6 DEF NotTvf, ConvertToTrs, CompileFails, Return, At
    <3>2. status' # "start" /\ (status' = "returned" => ~opt.gui)
          /\ (status' = "converting" => Top'.pc = "includes")
      BY <2>6, <3>1, ToCaller DEF NotTvf, ConvertToTrs, CompileFails, Return
    <3> QED
      BY <3>1, <3>2 DEF FatalInv, NoFatal
  <2>7. CASE ProcessIncludeFile
    <3>1. /\ status = "converting" /\ status' = "converting"
          /\ Top.pc = "includes" /\ UNCHANGED <<opt, errorList>>
      BY <2>7 DEF ProcessIncludeFile, At
    <3> QED
      BY <3>1 DEF FatalInv, NoFatal
  <2>8. CASE StackOverflow \/ HandleThrow
    BY <2>8 DEF StackOverflow, HandleThrow, FatalInv
  <2>9. CASE ParseArgument \/ Main
    <3>1. status = "start" /\ errorList' = <<>>
      BY <2>9 DEF ParseArgument, Main, FatalInv
    <3> QED
      BY <3>1 DEF FatalInv, NoFatal
  <2>10. CASE OnConvert
    <3>1. errorList' = <<>>
      BY <2>10 DEF OnConvert, Cleared
    <3> QED
      BY <3>1 DEF FatalInv, NoFatal
  <2>11. CASE UNCHANGED vars
    BY <2>11 DEF vars, FatalInv, NoFatal, Top
  <2> QED
    BY <2>1, <2>2, <2>3, <2>4, <2>5, <2>6, <2>7, <2>8, <2>9, <2>10, <2>11,
       Stages2 DEF Next, Step, Halted
<1>3. FatalInv => FatalEndsRun
  BY DEF FatalInv, NoFatal, FatalEndsRun
<1> QED
  BY <1>1, <1>2, <1>3, Invariant, PTL DEF Spec
-----------------------------------------------------------------------------
(***************************************************************************)
(* EveryErrorReported: the list is printed once, and under -oi again by    *)
(* each file that is converted.                                            *)
(***************************************************************************)
AllReported == /\ [i \in DOMAIN shown |-> shown[i].error] = errorList
               /\ \A i \in DOMAIN shown : shown[i].logged

NoneLost == \A i \in DOMAIN errorList :
              \E j \in DOMAIN shown : shown[j].error = errorList[i]

\* No conversion is going on, or the list has been printed.
Printed == \/ status \in {"idle", "returned", "exited"}
           \/ status = "converting" /\ Top.pc = "includes"

\* A conversion has begun and has printed nothing yet.
Unprinted == \/ status = "converting" /\ Top.pc # "includes"
             \/ status = "thrown"

ShownInv ==
  /\ status = "start" =>
       shown = <<>> /\ errorList = <<>> /\ logStream = "unset"
  /\ ~opt.oi =>
       /\ Printed => AllReported
       /\ Unprinted => shown = <<>>
       /\ status = "converting" /\ Top.pc = "begin" => logStream = "unset"
       /\ Unprinted /\ ~(status = "converting" /\ Top.pc = "begin") =>
            logStream = "open"
       /\ status = "converting" /\ Top.pc \in {"begin", "check"} =>
            errorList = <<>>
  /\ opt.oi =>
       (Printed \/ (status = "converting" /\ Top.pc \in {"begin", "check"})
          => NoneLost)

LEMMA NothingShown ==
  ASSUME shown = <<>>, errorList = <<>>
  PROVE  AllReported /\ NoneLost
BY DEF AllReported, NoneLost

\* A step that prints the list.
LEMMA PrintAll ==
  ASSUME Inv, errorList' \in Seq(Errors), NEW log,
         lineIndex' \in [DOMAIN lineIndex' -> Position],
         shown' = shown \o Reports(errorList', lineIndex', log)
  PROVE  /\ NoneLost'
         /\ shown = <<>> /\ log = "open" => AllReported'
<1> DEFINE r == Reports(errorList', lineIndex', log)
<1>1. shown \in Seq(Messages) /\ r \in Seq(Messages)
  BY ReportsType DEF Inv, TypeOK
<1>2. DOMAIN r = DOMAIN errorList'
  BY DEF Reports
<1>3. \A i \in DOMAIN r :
        r[i].error = errorList'[i] /\ r[i].logged = (log = "open")
  BY DEF Reports
<1>4. shown' = shown \o r
  OBVIOUS
<1> HIDE DEF r
<1>5. ASSUME NEW i \in DOMAIN errorList'
      PROVE  \E j \in DOMAIN shown' : shown'[j].error = errorList'[i]
  <2>1. Len(shown) + i \in DOMAIN shown' /\ shown'[Len(shown) + i] = r[i]
    BY <1>1, <1>2, <1>4
  <2> QED
    BY <1>2, <1>3, <2>1
<1>6. ASSUME shown = <<>>, log = "open"
      PROVE  AllReported'
  <2>1. shown' = r
    BY <1>1, <1>4, <1>6
  <2>2. [i \in DOMAIN r |-> r[i].error] = [i \in DOMAIN errorList' |-> errorList'[i]]
    BY <1>2, <1>3
  <2>3. [i \in DOMAIN errorList' |-> errorList'[i]] = errorList'
    OBVIOUS
  <2>4. \A i \in DOMAIN r : r[i].logged
    BY <1>3, <1>6
  <2> QED
    BY <2>1, <2>2, <2>3, <2>4 DEF AllReported
<1> QED
  BY <1>5, <1>6 DEF NoneLost

\* A failing step, by its log and whether it throws.
LEMMA FailShown ==
  ASSUME Inv, ShownInv, Fails
  PROVE  ShownInv'
<1> USE DEF lineVars
<1>1. /\ status = "converting" /\ status' \in {"thrown", "exited"}
      /\ UNCHANGED <<opt, frames>>
  BY FailSteps
<1>2. TypeOK' /\ ModeOK /\ TypeOK
  <2>1. Inv'
    BY StageInv DEF Fails, Stage
  <2> QED
    BY <2>1 DEF Inv
<1>3. errorList' \in Seq(Errors) /\ lineIndex' \in [DOMAIN lineIndex' -> Position]
  BY <1>2 DEF TypeOK
<1>4. PICK log :
        /\ log \in {logStream, LogOpened}
        /\ logStream = "open" => log = "open"
        /\ Top.pc = "begin" => log = LogOpened
        /\ Top.pc # "includes"
        /\ \/ /\ status' = "thrown" /\ shown' = shown /\ logStream' = log
              /\ opt.gui
           \/ /\ status' = "exited"
              /\ shown' = shown \o Reports(errorList', lineIndex', log)
  <2>1. CASE BeginWriteFails
    <3>1. Raise(<<OpenError>>, lineIndex, LogOpened) /\ Top.pc = "begin"
          /\ lineIndex' = lineIndex
      BY <2>1 DEF BeginWriteFails, At
    <3> QED
      BY <3>1 DEF Raise, LogOpened
  <2>2. CASE IncludedTvfFails
    BY <2>2 DEF IncludedTvfFails, Registers, LinesLeft, At
  <2>3. CASE CheckFails \/ ReadDirective \/ IncludeAgain \/ MacroFails
             \/ ConvertFails
    <3>1. Top.pc \in {"check", "read", "parse", "convert"}
      BY <2>3 DEF CheckFails, ReadDirective, IncludeAgain, MacroFails,
                  ConvertFails, LinesLeft, At
    <3>2. PICK errors : Raise(errors, lineIndex', logStream)
      BY <2>3 DEF CheckFails, ReadDirective, IncludeAgain, MacroFails,
                  ConvertFails
    <3> QED
      BY <3>1, <3>2 DEF Raise
  <2> QED
    BY <2>1, <2>2, <2>3 DEF Fails
<1>5. CASE opt.oi
  <2>1. status' = "exited"
    <3>1. frames # <<>>
      BY <1>1, <1>2 DEF TypeOK
    <3>2. ~opt.gui
      BY <1>2, <1>5, <3>1 DEF ModeOK
    <3> QED
      BY <1>4, <3>2
  <2>2. NoneLost'
    BY <1>3, <1>4, <2>1, PrintAll
  <2> QED
    BY <1>1, <1>5, <2>1, <2>2 DEF ShownInv
<1>6. CASE ~opt.oi
  <2>1. shown = <<>> /\ log = "open"
    BY <1>1, <1>4, <1>6 DEF ShownInv, Unprinted, LogOpened
  <2>2. CASE status' = "thrown"
    BY <1>1, <1>4, <1>6, <2>1, <2>2 DEF ShownInv, Printed, Unprinted
  <2>3. CASE status' = "exited"
    <3>1. AllReported'
      BY <1>3, <1>4, <2>1, <2>3, PrintAll
    <3> QED
      BY <1>1, <1>6, <2>3, <3>1 DEF ShownInv, Unprinted
  <2> QED
    BY <1>1, <2>2, <2>3
<1> QED
  BY <1>5, <1>6

\* A return from the check, and the one at the end.
LEMMA LeaveShown ==
  ASSUME Inv, ShownInv, NotTvf \/ ConvertToTrs \/ CompileFails \/ Return
  PROVE  ShownInv'
<1> USE DEF errorVars, lineVars, commandLine
<1>1. /\ status = "converting" /\ Top.pc \in {"check", "includes"}
      /\ UNCHANGED <<opt, errorList, lineIndex>>
      /\ Top.pc = "check" \/ shown' = shown
      /\ CompileFails \/ shown' = shown
  BY DEF NotTvf, ConvertToTrs, CompileFails, Return, At
<1>2. /\ status' \in {"converting", "idle", "returned"}
      /\ status' = "converting" => Len(frames) > 1 /\ Top'.pc = "includes"
  BY <1>1, ToCaller DEF NotTvf, ConvertToTrs, CompileFails, Return
<1>3. /\ errorList' \in Seq(Errors)
      /\ lineIndex' \in [DOMAIN lineIndex' -> Position]
      /\ frames \in Seq(Frames) /\ frames # <<>>
  BY <1>1 DEF Inv, TypeOK
<1>4. CompileFails =>
        /\ shown' = shown \o Reports(errorList', lineIndex', logStream)
        /\ Top.pc = "check"
  BY <1>1 DEF CompileFails, At
<1>5. CASE opt.oi
  <2>1. NoneLost
    BY <1>1, <1>5 DEF ShownInv, Printed
  <2>2. NoneLost'
    <3>1. CASE CompileFails
      BY <1>3, <1>4, <3>1, PrintAll
    <3>2. CASE shown' = shown
      BY <1>1, <2>1, <3>2 DEF NoneLost
    <3> QED
      BY <1>1, <3>1, <3>2
  <2> QED
    BY <1>1, <1>2, <1>5, <2>2 DEF ShownInv
<1>6. CASE ~opt.oi
  <2>1. status' # "converting"
    <3>1. Len(frames) = 1
      BY <1>3, <1>6 DEF Inv, ModeOK
    <3>2. ~(Len(frames) > 1)
      BY <3>1
    <3> QED
      BY <1>2, <3>2
  <2>2. AllReported'
    <3>1. CASE CompileFails
      <4>1. shown = <<>> /\ logStream = "open"
        BY <1>1, <1>4, <1>6, <3>1 DEF ShownInv, Unprinted
      <4> QED
        BY <1>3, <1>4, <3>1, <4>1, PrintAll
    <3>2. CASE shown' = shown
      <4>1. AllReported
        BY <1>1, <1>6, NothingShown DEF ShownInv, Printed, Unprinted
      <4> QED
        BY <1>1, <3>2, <4>1 DEF AllReported
    <3> QED
      BY <1>1, <3>1, <3>2
  <2> QED
    BY <1>1, <1>2, <1>6, <2>1, <2>2 DEF ShownInv, Unprinted
<1> QED
  BY <1>5, <1>6

\* Each error is reported, once and in order but under -oi.
THEOREM Reported == Spec => []EveryErrorReported
<1>1. Init => ShownInv
  BY DEF Init, ShownInv, Printed, Unprinted, NoOptions
<1>2. Inv /\ ShownInv /\ [Next]_vars => ShownInv'
  <2> SUFFICES ASSUME Inv, ShownInv, [Next]_vars PROVE ShownInv'
    OBVIOUS
  <2> USE DEF errorVars, streams, commandLine, lineVars
  <2>1. CASE Inner
    BY <2>1, InnerSteps DEF ShownInv, Printed, Unprinted
  <2>2. CASE Fails
    BY <2>2, FailShown
  <2>3. CASE BeginWrite
    <3>1. /\ status = "converting" /\ status' = "converting"
          /\ Top.pc = "begin" /\ Top'.pc = "check"
          /\ UNCHANGED <<opt, errorList, shown>> /\ logStream' = LogOpened
      BY <2>3, OuterSteps DEF BeginWrite
    <3> QED
      BY <3>1 DEF ShownInv, Printed, Unprinted, NoneLost, LogOpened
  <2>4. CASE Check
    <3>1. /\ status = "converting" /\ status' = "converting"
          /\ Top.pc = "check" /\ Top'.pc = "preprocess"
          /\ UNCHANGED <<opt, errorList, shown, logStream>>
      BY <2>4, OuterSteps DEF Check
    <3> QED
      BY <3>1 DEF ShownInv, Printed, Unprinted
  <2>5. CASE NotTvf \/ ConvertToTrs \/ CompileFails \/ Return
    BY <2>5, LeaveShown
  <2>6. CASE Report
    <3>1. /\ status = "converting" /\ Top.pc = "report"
          /\ UNCHANGED <<opt, errorList, lineIndex>>
          /\ shown' = shown \o Reports(errorList', lineIndex', logStream)
          /\ status' = "exited" \/ (status' = "converting"
                                    /\ Top'.pc = "includes")
      BY <2>6, OuterSteps DEF Report
    <3>2. /\ errorList' \in Seq(Errors)
          /\ lineIndex' \in [DOMAIN lineIndex' -> Position]
      BY <3>1 DEF Inv, TypeOK
    <3>3. NoneLost' /\ (shown = <<>> /\ logStream = "open" => AllReported')
      BY <3>1, <3>2, PrintAll
    <3>4. ~opt.oi => shown = <<>> /\ logStream = "open"
      BY <3>1 DEF ShownInv, Unprinted
    <3> QED
      BY <3>1, <3>3, <3>4 DEF ShownInv, Unprinted
  <2>7. CASE ProcessIncludeFile
    <3>1. /\ status = "converting" /\ status' = "converting"
          /\ Top.pc = "includes" /\ Top'.pc = "begin"
          /\ UNCHANGED <<opt, errorList, shown>>
      BY <2>7, Nested DEF ProcessIncludeFile, At
    <3>2. opt.oi
      BY <2>7, <3>1, Nested DEF Inv, TypeOK, ModeOK
    <3> QED
      BY <3>1, <3>2 DEF ShownInv, Printed, NoneLost
  <2>8. CASE StackOverflow
    BY <2>8 DEF StackOverflow, ShownInv, Printed, Unprinted
  <2>9. CASE ParseArgument \/ Main
    <3>1. /\ status = "start" /\ UNCHANGED <<errorList, shown, logStream>>
      BY <2>9 DEF ParseArgument, Main
    <3>2. /\ shown' = <<>> /\ errorList' = <<>> /\ logStream' = "unset"
      BY <3>1 DEF ShownInv
    <3>3. AllReported' /\ NoneLost'
      BY <3>2 DEF AllReported, NoneLost
    <3>4. \/ status' \in {"start", "returned", "idle"}
          \/ status' = "converting" /\ Top'.pc = "begin"
      BY <2>9 DEF ParseArgument, Main, Top, Last, Frame
    <3> QED
      BY <3>2, <3>3, <3>4 DEF ShownInv, Printed, Unprinted
  <2>10. CASE OnConvert
    <3>1. /\ status' = "converting" /\ Top'.pc = "begin"
          /\ shown' = <<>> /\ errorList' = <<>> /\ logStream' = "unset"
      BY <2>10 DEF OnConvert, Cleared, Top, Last, Frame
    <3>2. ~opt'.oi
      BY <2>10 DEF OnConvert, Inv, TypeOK, Options
    <3> QED
      BY <3>1, <3>2 DEF ShownInv, Printed, Unprinted
  <2>11. CASE HandleThrow
    <3>1. /\ status = "thrown" /\ status' = "idle"
          /\ UNCHANGED <<opt, errorList, lineIndex>>
          /\ shown' = shown \o Reports(errorList', lineIndex', logStream)
      BY <2>11 DEF HandleThrow
    <3>2. /\ errorList' \in Seq(Errors)
          /\ lineIndex' \in [DOMAIN lineIndex' -> Position]
      BY <3>1 DEF Inv, TypeOK
    <3>3. NoneLost' /\ (shown = <<>> /\ logStream = "open" => AllReported')
      BY <3>1, <3>2, PrintAll
    <3>4. ~opt.oi => shown = <<>> /\ logStream = "open"
      BY <3>1 DEF ShownInv, Unprinted
    <3> QED
      BY <3>1, <3>3, <3>4 DEF ShownInv, Unprinted
  <2>12. CASE UNCHANGED vars
    BY <2>12 DEF vars, ShownInv, Printed, Unprinted, AllReported, NoneLost, Top
  <2> QED
    BY <2>1, <2>2, <2>3, <2>4, <2>5, <2>6, <2>7, <2>8, <2>9, <2>10, <2>11,
       <2>12, Stages2 DEF Next, Step, Halted
<1>3. ShownInv => EveryErrorReported
  <2> SUFFICES ASSUME ShownInv,
                      (Ended /\ status # "overflow") \/ status = "idle"
               PROVE  LET reported == [i \in DOMAIN shown |-> shown[i].error] IN
                      IF opt.oi THEN ToSet(errorList) \subseteq ToSet(reported)
                                ELSE /\ reported = errorList
                                     /\ \A i \in DOMAIN shown : shown[i].logged
    BY DEF EveryErrorReported
  <2>1. Printed
    BY DEF Printed, Ended
  <2>2. CASE opt.oi
    BY <2>1, <2>2 DEF ShownInv, NoneLost, ToSet
  <2>3. CASE ~opt.oi
    BY <2>1, <2>3 DEF ShownInv, AllReported
  <2> QED
    BY <2>2, <2>3
<1> QED
  BY <1>1, <1>2, <1>3, Invariant, PTL DEF Spec
=============================================================================
