------------------------ MODULE ConversionOutputProofs ------------------------
EXTENDS ConversionErrorProofs

-----------------------------------------------------------------------------
(***************************************************************************)
(* OwnOutput, InputRecovered, TempRemoved and AllConverted: the files that *)
(* a process leaves.  First what no step changes, and what the stack of    *)
(* nested conversions looks like.                                          *)
(***************************************************************************)

\* A TVF file that does not compile.
Bad(file) == file \in Names /\ disk[file].state = "badTvf"

LEMMA TvfRule ==
  ASSUME NEW n
  PROVE  /\ isTVFRule(n) <=> n \in Names /\ disk[n].state \in {"tvf", "badTvf"}
         /\ StateOf(n) = "badTvf" <=> Bad(n)
<1>1. CASE n \in Names
  BY <1>1 DEF isTVFRule, StateOf, Bad
<1>2. CASE n \notin Names
  BY <1>2 DEF isTVFRule, StateOf, Bad
<1> QED
  BY <1>1, <1>2

LEMMA SameNames ==
  ASSUME disk' = disk, NEW n
  PROVE  /\ isTVFRule(n)' <=> isTVFRule(n)
         /\ OutputName(n)' = OutputName(n)
         /\ Bad(n)' <=> Bad(n)
         /\ (StateOf(n) = "badTvf")' <=> StateOf(n) = "badTvf"
<1>1. isTVFRule(n)' <=> isTVFRule(n)
  <2>1. CASE n \in Names
    BY <2>1 DEF isTVFRule, StateOf
  <2>2. CASE n \notin Names
    BY <2>2 DEF isTVFRule, StateOf
  <2> QED
    BY <2>1, <2>2
<1>2. OutputName(n)' = OutputName(n)
  BY <1>1 DEF OutputName
<1>3. (StateOf(n) = "badTvf")' <=> StateOf(n) = "badTvf"
  <2>1. CASE n \in Names
    BY <2>1 DEF StateOf
  <2>2. CASE n \notin Names
    BY <2>2 DEF StateOf
  <2> QED
    BY <2>1, <2>2
<1> QED
  BY <1>1, <1>2, <1>3 DEF Bad

\* A step that goes on in the innermost frame changes neither what it
\* converts nor how far it is with its include files.
LEMMA FrameKept ==
  ASSUME Inv, Inner \/ BeginWrite \/ Check \/ (Report /\ status' = "converting")
  PROVE  \E f \in Frames :
           /\ SetTop(f)
           /\ f.file = Top.file /\ f.out = Top.out /\ f.sf = Top.sf
           /\ f.next = Top.next
           /\ f.script = Top.script \/ Check
           /\ \/ f.includes = Top.includes
              \/ /\ ReadInclude
                 /\ f.includes = Append(Top.includes,
                                        OutputName(NextLine.target))
<1>1. ASSUME LinesLeft
      PROVE  /\ Copied \in Frames
             /\ Copied.file = Top.file /\ Copied.out = Top.out
             /\ Copied.sf = Top.sf /\ Copied.next = Top.next
             /\ Copied.script = Top.script /\ Copied.includes = Top.includes
  <2>1. Copied \in Frames /\ Top \in Frames
    BY <1>1, CopiedFrame, Stages DEF LinesLeft
  <2> QED
    BY <2>1 DEF Copied, Frames
<1>2. CASE ReadLine
  BY <1>1, <1>2 DEF ReadLine
<1>3. CASE ReadInclude
  <2> DEFINE i == Append(Copied.includes, OutputName(NextLine.target))
             f == [Copied EXCEPT !.includes = i]
  <2>1. SetTop(f) /\ LinesLeft
    BY <1>3 DEF ReadInclude
  <2>2. OutputName(NextLine.target) \in Path
    BY <2>1, ReaderType, Paths DEF LinesLeft, Line
  <2>3. i \in Seq(Path)
    BY <1>1, <2>1, <2>2 DEF Frames
  <2>4. i = Append(Top.includes, OutputName(NextLine.target))
    BY <1>1, <2>1
  <2> HIDE DEF i
  <2>5. /\ f \in Frames
        /\ f.file = Top.file /\ f.out = Top.out
        /\ f.sf = Top.sf /\ f.next = Top.next
        /\ f.script = Top.script
        /\ f.includes = i
    BY <1>1, <2>1, <2>3 DEF Frames
  <2> HIDE DEF f
  <2> QED
    BY <1>3, <2>1, <2>4, <2>5
<1>4. ASSUME Registers
      PROVE  /\ Registered \in Frames
             /\ Registered.file = Top.file /\ Registered.out = Top.out
             /\ Registered.sf = Top.sf /\ Registered.next = Top.next
             /\ Registered.script = Top.script
             /\ Registered.includes = Top.includes
  <2>1. Registered \in Frames /\ Copied \in Frames /\ LinesLeft
    BY <1>1, <1>4, RegisteredFrame DEF Registers
  <2> QED
    BY <1>1, <2>1 DEF Registered, Frames
<1>5. CASE IncludeMissing
  BY <1>4, <1>5 DEF IncludeMissing
<1>6. CASE IncludeFile
  <2> DEFINE file == Opened(NextLine.target, realFile(NextLine.target))
             r == Append(Registered.reading, file)
             f == [Registered EXCEPT !.reading = r]
  <2>1. SetTop(f) /\ Registers /\ LinesLeft
    BY <1>6 DEF IncludeFile, Registers
  <2>2. file \in Readers
    <3>1. NextLine.target \in Sources
      BY <2>1, ReaderType DEF LinesLeft, Line
    <3>2. realFile(NextLine.target) \in Path
      BY <1>6, <3>1, CompiledType, Paths DEF IncludeFile, Inv
    <3> QED
      BY <3>1, <3>2 DEF Opened, Readers
  <2> HIDE DEF file
  <2>3. r \in Seq(Readers)
    BY <1>4, <2>1, <2>2 DEF Frames
  <2> HIDE DEF r
  <2>4. /\ f \in Frames
        /\ f.file = Top.file /\ f.out = Top.out
        /\ f.sf = Top.sf /\ f.next = Top.next
        /\ f.script = Top.script /\ f.includes = Top.includes
    BY <1>4, <2>1, <2>3 DEF Frames
  <2> HIDE DEF f
  <2> QED
    BY <2>1, <2>4
<1>7. CASE Preprocess
  <2> DEFINE r == <<Opened(InFile, InFile)>>
             f == [Top EXCEPT !.pc = "read", !.reading = r]
  <2>1. SetTop(f) /\ Top \in Frames /\ Top.file \in Sources
    BY <1>7, Stages DEF Preprocess, FrameOK
  <2>2. r \in Seq(Readers)
    BY <2>1, Paths DEF InFile, Sources, Opened, Readers
  <2> HIDE DEF r
  <2>3. /\ f \in Frames
        /\ f.file = Top.file /\ f.out = Top.out
        /\ f.sf = Top.sf /\ f.next = Top.next
        /\ f.script = Top.script /\ f.includes = Top.includes
    BY <2>1, <2>2 DEF Frames
  <2> HIDE DEF f
  <2> QED
    BY <2>1, <2>3
<1>8. CASE EndOfFile
  <2> DEFINE r == Front(Top.reading)
             g == Top.registered \ {Reader.source}
             pc == IF Len(Top.reading) = 1 THEN "parse" ELSE Top.pc
             f == [Top EXCEPT !.reading = r, !.registered = g, !.pc = pc]
  <2>1. SetTop(f) /\ Top \in Frames /\ Top.pc = "read" /\ At("read")
    BY <1>8, Stages DEF EndOfFile
  <2>2. r \in Seq(Readers)
    BY <2>1, ReaderType, FrontOf
  <2>3. g \in SUBSET Sources /\ pc \in {"read", "parse"}
    BY <2>1 DEF Frames
  <2> HIDE DEF r, g, pc
  <2>4. /\ f \in Frames
        /\ f.file = Top.file /\ f.out = Top.out
        /\ f.sf = Top.sf /\ f.next = Top.next
        /\ f.script = Top.script /\ f.includes = Top.includes
    BY <2>1, <2>2, <2>3 DEF Frames
  <2> HIDE DEF f
  <2> QED
    BY <2>1, <2>4
<1>9. ASSUME NEW pc \in {"check", "convert", "report", "includes"}, Goto(pc),
             Top \in Frames
      PROVE  \E f \in Frames :
               /\ SetTop(f)
               /\ f.file = Top.file /\ f.out = Top.out /\ f.sf = Top.sf
               /\ f.next = Top.next /\ f.script = Top.script
               /\ f.includes = Top.includes
  <2> DEFINE f == [Top EXCEPT !.pc = pc]
  <2>1. SetTop(f)
    BY <1>9 DEF Goto
  <2>2. /\ f \in Frames
        /\ f.file = Top.file /\ f.out = Top.out
        /\ f.sf = Top.sf /\ f.next = Top.next
        /\ f.script = Top.script /\ f.includes = Top.includes
    BY <1>9 DEF Frames
  <2> HIDE DEF f
  <2> QED
    BY <2>1, <2>2
<1>10. CASE ParseMacros \/ Convert \/ BeginWrite
  BY <1>9, <1>10, Stages DEF ParseMacros, Convert, BeginWrite
<1>11. CASE Report /\ status' = "converting"
  BY <1>9, <1>11, Stages DEF Report
<1>12. CASE Warn
  <2>1. PICK k \in Noted : SetTop([Top EXCEPT !.line = k])
    BY <1>12 DEF Warn
  <2>2. Top \in Frames /\ k \in Nat
    BY <1>12, Stages, NotedType DEF Warn
  <2> DEFINE f == [Top EXCEPT !.line = k]
  <2>3. /\ f \in Frames
        /\ f.file = Top.file /\ f.out = Top.out
        /\ f.sf = Top.sf /\ f.next = Top.next
        /\ f.script = Top.script /\ f.includes = Top.includes
    BY <2>2 DEF Frames
  <2> HIDE DEF f
  <2> QED
    BY <2>1, <2>3 DEF f
<1>13. CASE Check
  <2> DEFINE script == isTVFRule(Top.file)
             f == [Top EXCEPT !.script = script, !.pc = "preprocess"]
  <2>1. SetTop(f) /\ Top \in Frames /\ script \in BOOLEAN
    BY <1>13, Stages DEF Check, isTVFRule
  <2> HIDE DEF script
  <2>2. /\ f \in Frames
        /\ f.file = Top.file /\ f.out = Top.out
        /\ f.sf = Top.sf /\ f.next = Top.next
        /\ f.includes = Top.includes
    BY <2>1 DEF Frames
  <2> HIDE DEF f
  <2> QED
    BY <1>13, <2>1, <2>2
<1> QED
  BY <1>2, <1>3, <1>5, <1>6, <1>7, <1>8, <1>10, <1>11, <1>12, <1>13 DEF Inner

\* What a frame of an include file is made of.
IncludeFrame(f) ==
  /\ f.file = InputName(f.out)
  /\ \E n \in Sources : f.out = OutputName(n)
  /\ ~f.sf

FrameNames(f) ==
  /\ \A k \in DOMAIN f.includes : \E n \in Sources : f.includes[k] = OutputName(n)
  /\ f.pc \notin {"begin", "check"} => ~Bad(f.file)
  /\ f.pc # "includes" => f.next = 1

\* The outermost frame is the deck's, the others are those of include files.
StackInv ==
  /\ status \in {"thrown", "idle"} => opt.gui
  /\ frames # <<>> /\ opt.oi =>
       /\ frames[1].out = OutFile
       /\ frames[1].file = Deck
       /\ frames[1].sf = opt.sf
  /\ \A i \in DOMAIN frames : FrameNames(frames[i])
  /\ \A i \in DOMAIN frames : i > 1 => IncludeFrame(frames[i])

LEMMA SameFrames ==
  ASSUME disk' = disk, NEW f
  PROVE  /\ IncludeFrame(f)' <=> IncludeFrame(f)
         /\ FrameNames(f)' <=> FrameNames(f)
<1>1. \A n : OutputName(n)' = OutputName(n) /\ (Bad(n)' <=> Bad(n))
  BY SameNames
<1> QED
  BY <1>1 DEF IncludeFrame, FrameNames

\* A step that leaves the frames alone, or all of them but the innermost.
LEMMA SameStack ==
  ASSUME StackInv, disk' = disk, opt' = opt, frames' = frames,
         status' \in {"thrown", "idle"} => opt.gui
  PROVE  StackInv'
<1>1. \A n : OutputName(n)' = OutputName(n) /\ (Bad(n)' <=> Bad(n))
  BY SameNames
<1>2. \A i \in DOMAIN frames' : FrameNames(frames[i])'
  BY <1>1 DEF StackInv, FrameNames
<1>3. \A i \in DOMAIN frames' : i > 1 => IncludeFrame(frames[i])'
  BY <1>1 DEF StackInv, IncludeFrame
<1> QED
  BY <1>2, <1>3 DEF StackInv

LEMMA KeptStack ==
  ASSUME Inv, StackInv, disk' = disk, opt' = opt,
         status = "converting", status' = "converting",
         NEW f \in Frames, SetTop(f),
         f.file = Top.file, f.out = Top.out, f.sf = Top.sf,
         FrameNames(f)
  PROVE  StackInv'
<1>1. frames \in Seq(Frames) /\ frames # <<>>
  BY DEF Inv, TypeOK
<1>2. /\ DOMAIN frames' = DOMAIN frames /\ Top = frames[Len(frames)]
      /\ frames'[Len(frames)] = f
      /\ \A i \in DOMAIN frames : i < Len(frames) => frames'[i] = frames[i]
      /\ Len(frames) \in Nat \ {0} /\ DOMAIN frames = 1..Len(frames)
      /\ Len(frames') = Len(frames)
  BY <1>1, TopFrame, TopSet DEF Top, Last
<1>3. \A n : OutputName(n)' = OutputName(n) /\ (Bad(n)' <=> Bad(n))
  BY SameNames
<1>4. ASSUME NEW i \in DOMAIN frames'
      PROVE  FrameNames(frames[i])'
  <2>1. FrameNames(frames'[i])
    <3>1. CASE i = Len(frames)
      BY <1>2, <3>1
    <3>2. CASE i # Len(frames)
      BY <1>2, <3>2 DEF StackInv
    <3> QED
      BY <3>1, <3>2
  <2> QED
    BY <1>3, <2>1 DEF FrameNames
<1>5. ASSUME NEW i \in DOMAIN frames', i > 1
      PROVE  IncludeFrame(frames[i])'
  <2>1. IncludeFrame(frames'[i])
    <3>1. CASE i = Len(frames)
      <4>1. IncludeFrame(Top)
        BY <1>2, <1>5, <3>1 DEF StackInv
      <4> QED
        BY <1>2, <3>1, <4>1 DEF IncludeFrame
    <3>2. CASE i # Len(frames)
      BY <1>2, <1>5, <3>2 DEF StackInv
    <3> QED
      BY <3>1, <3>2
  <2> QED
    BY <1>3, <2>1 DEF IncludeFrame
<1>6. /\ frames'[1].out = frames[1].out /\ frames'[1].file = frames[1].file
      /\ frames'[1].sf = frames[1].sf
  <2>1. CASE Len(frames) = 1
    BY <1>2, <2>1
  <2>2. CASE Len(frames) # 1
    BY <1>2, <2>2
  <2> QED
    BY <2>1, <2>2
<1> QED
  BY <1>1, <1>4, <1>5, <1>6 DEF StackInv

\* A frame on top of the stack, or none, over frames that stay.
LEMMA PoppedStack ==
  ASSUME Inv, StackInv, disk' = disk, opt' = opt, status = "converting",
         NEW files, Leave(files)
  PROVE  StackInv'
<1>1. frames \in Seq(Frames) /\ frames # <<>>
  BY DEF Inv, TypeOK
<1>2. /\ \A i \in DOMAIN frames' : i \in DOMAIN frames /\ frames'[i] = frames[i]
      /\ frames' # <<>> => 1 \in DOMAIN frames'
  BY <1>1, Popped DEF Leave
<1>3. \A n : OutputName(n)' = OutputName(n) /\ (Bad(n)' <=> Bad(n))
  BY SameNames
<1>4. ASSUME NEW i \in DOMAIN frames'
      PROVE  FrameNames(frames[i])'
  <2>1. FrameNames(frames'[i])
    BY <1>2 DEF StackInv
  <2> QED
    BY <1>3, <2>1 DEF FrameNames
<1>5. ASSUME NEW i \in DOMAIN frames', i > 1
      PROVE  IncludeFrame(frames[i])'
  <2>1. IncludeFrame(frames'[i])
    BY <1>2, <1>5 DEF StackInv
  <2> QED
    BY <1>3, <2>1 DEF IncludeFrame
<1>6. status' \in {"thrown", "idle"} => opt.gui
  BY ToCaller
<1> QED
  BY <1>1, <1>2, <1>4, <1>5, <1>6 DEF StackInv

LEMMA KeptNames ==
  ASSUME Inv, StackInv,
         Inner \/ BeginWrite \/ Check \/ (Report /\ status' = "converting")
  PROVE  \E f \in Frames :
           /\ SetTop(f)
           /\ f.file = Top.file /\ f.out = Top.out /\ f.sf = Top.sf
           /\ FrameNames(f)
<1>1. PICK f \in Frames :
        /\ SetTop(f)
        /\ f.file = Top.file /\ f.out = Top.out /\ f.sf = Top.sf
        /\ f.next = Top.next
        /\ \/ f.includes = Top.includes
           \/ /\ ReadInclude
              /\ f.includes = Append(Top.includes,
                                     OutputName(NextLine.target))
  BY FrameKept
<1>2. status = "converting" /\ status' = "converting"
  BY InnerSteps, OuterSteps DEF BeginWrite, Check
<1>3. /\ frames \in Seq(Frames) /\ frames # <<>> /\ Top \in Frames
      /\ Len(frames) \in DOMAIN frames /\ Top = frames[Len(frames)]
      /\ Top' = f
  BY <1>1, <1>2, TopFrame, SetFrame DEF Inv, TypeOK
<1>4. FrameNames(Top)
  BY <1>3 DEF StackInv
<1>5. ASSUME NEW k \in DOMAIN f.includes
      PROVE  \E n \in Sources : f.includes[k] = OutputName(n)
  <2>1. CASE f.includes = Top.includes
    BY <1>4, <2>1 DEF FrameNames
  <2>2. CASE /\ ReadInclude
             /\ f.includes = Append(Top.includes, OutputName(NextLine.target))
    <3>1. NextLine.target \in Sources
      BY <2>2, ReaderType DEF ReadInclude, LinesLeft, Line
    <3>2. OutputName(NextLine.target) \in Path /\ Top.includes \in Seq(Path)
      BY <1>3, <3>1, Paths DEF Frames
    <3>3. \/ k \in DOMAIN Top.includes /\ f.includes[k] = Top.includes[k]
          \/ f.includes[k] = OutputName(NextLine.target)
      BY <2>2, <3>2
    <3> QED
      BY <1>4, <3>1, <3>3 DEF FrameNames
  <2> QED
    BY <1>1, <2>1, <2>2
<1>6. f.pc \notin {"begin", "check"} => ~Bad(Top.file)
  <2>1. CASE Check
    BY <2>1, TvfRule DEF Check
  <2>2. CASE BeginWrite
    BY <1>3, <2>2, OuterSteps
  <2>3. CASE Inner \/ (Report /\ status' = "converting")
    BY <1>4, <2>3, InnerSteps, OuterSteps DEF FrameNames
  <2> QED
    BY <2>1, <2>2, <2>3
<1>7. f.pc # "includes" => f.next = 1
  <2>1. Inner \/ BeginWrite \/ Check => Top.pc # "includes"
    BY InnerSteps, OuterSteps
  <2>2. Report /\ status' = "converting" => f.pc = "includes"
    BY <1>2, <1>3, OuterSteps
  <2> QED
    BY <1>1, <1>4, <2>1, <2>2 DEF FrameNames
<1> QED
  BY <1>1, <1>5, <1>6, <1>7 DEF FrameNames

\* A nested execute() begins.
LEMMA NestedIncludes ==
  ASSUME Inv, ProcessIncludeFile
  PROVE  LET f == [Top EXCEPT !.next = @ + 1] IN
         /\ f.includes = Top.includes /\ f.next = Top.next + 1
         /\ f.sf = Top.sf /\ f.file = Top.file /\ f.out = Top.out
         /\ f.pc = "includes" /\ Top.pc = "includes"
         /\ Top.next \in DOMAIN Top.includes
<1>1. Top \in Frames /\ Top.pc = "includes"
  BY Stages DEF ProcessIncludeFile
<1>2. Top.next <= Len(Top.includes)
  BY DEF ProcessIncludeFile, MoreIncludes
<1> QED
  BY <1>1, <1>2 DEF Frames

LEMMA PushedStack ==
  ASSUME Inv, StackInv, disk' = disk, ProcessIncludeFile
  PROVE  StackInv'
<1> DEFINE path == Top.includes[Top.next]
           f == [Top EXCEPT !.next = @ + 1]
           g == Frame(InputName(path), path, FALSE, globalLineNo)
<1>1. /\ f.includes = Top.includes /\ f.sf = Top.sf
      /\ f.file = Top.file /\ f.out = Top.out
      /\ f.pc = "includes" /\ Top.pc = "includes"
      /\ Top.next \in DOMAIN Top.includes
  BY NestedIncludes
<1>2. /\ g.pc = "begin" /\ g.file = InputName(path) /\ g.out = path
      /\ ~g.sf /\ g.includes = <<>> /\ g.next = 1
  BY DEF Frame
<1>3. /\ DOMAIN frames' = 1..(Len(frames) + 1)
      /\ frames'[Len(frames) + 1] = g /\ frames'[Len(frames)] = f
      /\ \A i \in DOMAIN frames : i < Len(frames) => frames'[i] = frames[i]
  BY Nested
<1> HIDE DEF f, g
<1>4. /\ frames \in Seq(Frames) /\ frames # <<>> /\ Top = frames[Len(frames)]
      /\ Len(frames) \in Nat \ {0} /\ DOMAIN frames = 1..Len(frames)
      /\ status = "converting" /\ status' = "converting" /\ opt' = opt
  BY Stages DEF ProcessIncludeFile, commandLine
<1>5. FrameNames(Top)
  BY <1>4 DEF StackInv
<1>6. FrameNames(f) /\ FrameNames(g)
  BY <1>1, <1>2, <1>5 DEF FrameNames
<1>7. IncludeFrame(g)
  BY <1>1, <1>2, <1>5 DEF FrameNames, IncludeFrame
<1>8. \A n : OutputName(n)' = OutputName(n) /\ (Bad(n)' <=> Bad(n))
  BY SameNames
<1>9. ASSUME NEW i \in DOMAIN frames'
      PROVE  FrameNames(frames[i])'
  <2>1. FrameNames(frames'[i])
    <3>1. CASE i < Len(frames)
      BY <1>3, <1>4, <3>1 DEF StackInv
    <3>2. CASE i >= Len(frames)
      <4>1. i = Len(frames) \/ i = Len(frames) + 1
        BY <1>3, <1>4, <3>2
      <4> QED
        BY <1>3, <1>6, <4>1
    <3> QED
      BY <1>3, <1>4, <3>1, <3>2
  <2> QED
    BY <1>8, <2>1 DEF FrameNames
<1>10. ASSUME NEW i \in DOMAIN frames', i > 1
       PROVE  IncludeFrame(frames[i])'
  <2>1. IncludeFrame(frames'[i])
    <3>1. CASE i < Len(frames)
      BY <1>3, <1>4, <1>10, <3>1 DEF StackInv
    <3>2. CASE i = Len(frames)
      <4>1. IncludeFrame(Top)
        BY <1>4, <1>10, <3>2 DEF StackInv
      <4> QED
        BY <1>1, <1>3, <3>2, <4>1 DEF IncludeFrame
    <3>3. CASE i > Len(frames)
      <4>1. i = Len(frames) + 1
        BY <1>3, <1>4, <3>3
      <4> QED
        BY <1>3, <1>7, <4>1
    <3> QED
      BY <1>3, <1>4, <3>1, <3>2, <3>3
  <2> QED
    BY <1>8, <2>1 DEF IncludeFrame
<1>11. /\ frames'[1].out = frames[1].out /\ frames'[1].file = frames[1].file
       /\ frames'[1].sf = frames[1].sf
  <2>1. CASE Len(frames) = 1
    BY <1>1, <1>3, <1>4, <2>1
  <2>2. CASE Len(frames) # 1
    BY <1>3, <1>4, <2>2
  <2> QED
    BY <2>1, <2>2
<1> QED
  BY <1>4, <1>9, <1>10, <1>11 DEF StackInv

\* The outermost execute() begins, or has ended.
LEMMA NewStack ==
  ASSUME NEW file, NEW out, NEW sf,
         \/ frames' = <<>>
         \/ /\ frames' = <<Frame(file, out, sf, 0)>>
            /\ opt'.oi => out = OutFile /\ file = Deck /\ sf = opt'.sf,
         status' \in {"thrown", "idle"} => opt'.gui
  PROVE  StackInv'
<1>1. CASE frames' = <<>>
  BY <1>1 DEF StackInv
<1>2. CASE /\ frames' = <<Frame(file, out, sf, 0)>>
           /\ opt'.oi => out = OutFile /\ file = Deck /\ sf = opt'.sf
  <2> DEFINE g == Frame(file, out, sf, 0)
  <2>1. /\ DOMAIN frames' = {1} /\ frames'[1] = g
    BY <1>2
  <2>2. /\ g.pc = "begin" /\ g.includes = <<>> /\ g.next = 1
        /\ g.file = file /\ g.out = out /\ g.sf = sf
    BY DEF Frame
  <2> HIDE DEF g
  <2>3. FrameNames(frames[1])'
    BY <2>1, <2>2 DEF FrameNames
  <2> QED
    BY <1>2, <2>1, <2>2, <2>3 DEF StackInv
<1> QED
  BY <1>1, <1>2

LEMMA StackStep ==
  ASSUME Inv, StackInv, [Next]_vars
  PROVE  StackInv'
<1>0. disk' = disk
  BY SameDisk
<1> USE DEF commandLine
<1>1. CASE Inner \/ BeginWrite \/ Check \/ (Report /\ status' = "converting")
  <2>1. PICK f \in Frames :
          /\ SetTop(f)
          /\ f.file = Top.file /\ f.out = Top.out /\ f.sf = Top.sf
          /\ FrameNames(f)
    BY <1>1, KeptNames
  <2>2. status = "converting" /\ status' = "converting" /\ opt' = opt
    BY <1>1, InnerSteps, OuterSteps DEF BeginWrite, Check, Report
  <2> QED
    BY <1>0, <2>1, <2>2, KeptStack
<1>2. CASE Fails \/ ParseArgument \/ StackOverflow \/ UNCHANGED vars
           \/ (Report /\ status' # "converting")
  <2>1. CASE ParseArgument
    BY <2>1 DEF ParseArgument, StackInv, Inv, Nesting
  <2>2. CASE Fails
    <3>1. frames' = frames /\ opt' = opt
      BY <2>2, FailSteps
    <3>2. status' \in {"thrown", "idle"} => opt.gui
      BY <2>2, FailSteps DEF Fails, BeginWriteFails, CheckFails,
         ReadDirective, IncludeAgain, IncludedTvfFails, MacroFails,
         ConvertFails, Raise
    <3> QED
      BY <1>0, <3>1, <3>2, SameStack
  <2>3. CASE StackOverflow
    BY <1>0, <2>3, SameStack DEF StackOverflow
  <2>4. CASE UNCHANGED vars
    BY <1>0, <2>4, SameStack DEF vars, StackInv
  <2>5. CASE Report /\ status' # "converting"
    <3>1. frames' = frames /\ opt' = opt /\ status' = "exited"
      BY <2>5 DEF Report, At
    <3> QED
      BY <1>0, <3>1, SameStack
  <2> QED
    BY <1>2, <2>1, <2>2, <2>3, <2>4, <2>5
<1>3. CASE Main
  BY <1>3, NewStack DEF Main, Inv, Nesting
<1>4. CASE OnConvert
  <2>1. PICK file, out, sf : frames' = <<Frame(file, out, sf, 0)>>
    BY <1>4 DEF OnConvert
  <2>2. ~opt'.oi /\ status' = "converting"
    BY <1>4 DEF OnConvert, Inv, TypeOK, Options
  <2> QED
    BY <2>1, <2>2, NewStack
<1>5. CASE NotTvf \/ ConvertToTrs \/ CompileFails \/ Return
  <2>1. PICK files : Leave(files)
    BY <1>5 DEF NotTvf, ConvertToTrs, CompileFails, Return
  <2>2. status = "converting" /\ opt' = opt
    BY <1>5 DEF NotTvf, ConvertToTrs, CompileFails, Return, At
  <2> QED
    BY <1>0, <2>1, <2>2, PoppedStack
<1>6. CASE ProcessIncludeFile
  BY <1>0, <1>6, PushedStack
<1>7. CASE HandleThrow
  BY <1>7, NewStack DEF HandleThrow, StackInv
<1> QED
  BY <1>1, <1>2, <1>3, <1>4, <1>5, <1>6, <1>7, Stages2
  DEF Next, Step, Halted

LEMMA StackOK == Spec => []StackInv
<1>1. Init => StackInv
  BY DEF Init, StackInv
<1>2. Inv /\ StackInv /\ [Next]_vars => StackInv'
  BY StackStep
<1> QED
  BY <1>1, <1>2, Invariant, PTL DEF Spec

LEMMA Removal ==
  ASSUME NEW t, NEW m
  PROVE  RemoveAt(t, m) = SubSeq(t, 1, m - 1) \o SubSeq(t, m + 1, Len(t))
BY DEF RemoveAt

\* The ending that OutputName has put on a name is the one that InputName
\* takes off, if the name has no such ending itself.
LEMMA EndingRemoved ==
  ASSUME NEW S, NEW s \in Seq(S), NEW e \in S, ~Contains(s, e)
  PROVE  RemoveFirst(Append(s, e), e) = s
<1> DEFINE t == Append(s, e)
           I == {i \in 1..Len(t) : t[i] = e}
<1>1. /\ t \in Seq(S) /\ Len(t) = Len(s) + 1 /\ t[Len(s) + 1] = e
      /\ \A i \in 1..Len(s) : t[i] = s[i]
      /\ Len(s) \in Nat
  OBVIOUS
<1> HIDE DEF t
<1>2. I = {Len(s) + 1}
  BY <1>1 DEF Contains
<1>3. Min(I) = Len(s) + 1
  <2>1. I \subseteq Nat /\ I # {}
    BY <1>1, <1>2
  <2>2. Min(I) \in I
    BY <2>1, MinIn
  <2> QED
    BY <1>2, <2>2
<1>4. SelectInSeq(t, LAMBDA v : v = e) = Len(s) + 1
  BY <1>2, <1>3 DEF SelectInSeq
<1>5. RemoveAt(t, Len(s) + 1) = s
  <2> DEFINE u == SubSeq(t, 1, Len(s))
             v == SubSeq(t, Len(s) + 2, Len(s) + 1)
  <2>1. u = s
    <3>1. /\ u \in Seq(S) /\ Len(u) = IF 1 <= Len(s) THEN Len(s) - 1 + 1 ELSE 0
          /\ \A i \in 1..(Len(s) - 1 + 1) : u[i] = t[1 + i - 1]
      <4>1. \A i \in 1..Len(s) : t[i] \in S
        BY <1>1
      <4> QED
        BY <1>1, <4>1, SubSeqProperties
    <3>2. Len(u) = Len(s)
      BY <1>1, <3>1
    <3>3. \A i \in 1..Len(s) : u[i] = s[i]
      BY <1>1, <3>1
    <3> HIDE DEF u
    <3> QED
      BY <3>1, <3>2, <3>3
  <2>2. v \in Seq(S) /\ Len(v) = 0
    BY <1>1, SMTT(30)
  <2> HIDE DEF u, v
  <2>3. v = <<>>
    BY <2>2
  <2>4. u \o v = s
    BY <2>1, <2>3
  <2>5. Len(s) + 1 - 1 = Len(s) /\ Len(s) + 1 + 1 = Len(s) + 2
    BY <1>1
  <2>6. SubSeq(t, 1, Len(s) + 1 - 1) = u
    BY <2>5 DEF u
  <2>7. SubSeq(t, Len(s) + 1 + 1, Len(t)) = v
    BY <1>1, <2>5 DEF v
  <2> QED
    <3> DEFINE m == Len(s) + 1
    <3>1. SubSeq(t, 1, m - 1) = u /\ SubSeq(t, m + 1, Len(t)) = v
      BY <2>6, <2>7
    <3> HIDE DEF m, u, v
    <3>2. RemoveAt(t, m) = SubSeq(t, 1, m - 1) \o SubSeq(t, m + 1, Len(t))
      BY Removal
    <3>3. RemoveAt(t, m) = u \o v
      BY <3>1, <3>2
    <3> QED
      BY <2>4, <3>3 DEF m
<1>6. \E i \in 1..Len(t) : t[i] = e
  BY <1>1
<1> QED
  BY <1>4, <1>5, <1>6 DEF RemoveFirst, t

LEMMA PlainSources ==
  ASSUME PlainNames, NEW n \in Sources
  PROVE  n \in Path /\ ~Contains(n, "trs") /\ ~Contains(n, "pvrs")
<1>1. CASE n \in Names
  BY <1>1, RunConstants DEF PlainNames, RunConstants
<1>2. CASE n = SwitchTmp
  BY <1>2, Paths DEF SwitchTmp, Contains
<1>3. CASE n = ScriptTmp
  BY <1>3, Paths DEF ScriptTmp, Contains
<1> QED
  BY <1>1, <1>2, <1>3 DEF Sources

LEMMA NameRecovered ==
  ASSUME PlainNames, NEW n \in Sources
  PROVE  InputName(OutputName(n)) = n
<1>1. n \in Seq(Words) /\ ~Contains(n, "trs") /\ ~Contains(n, "pvrs")
  BY PlainSources DEF Path
<1>2. "trs" \in Words /\ "pvrs" \in Words
  BY RunConstants DEF RunConstants
<1>3. CASE isTVFRule(n)
  <2>1. OutputName(n) = Append(n, "trs")
    BY <1>3 DEF OutputName
  <2>2. Contains(Append(n, "trs"), "trs")
    BY <1>1, <1>2 DEF Contains
  <2>3. RemoveFirst(Append(n, "trs"), "trs") = n
    BY <1>1, <1>2, EndingRemoved
  <2> QED
    BY <2>1, <2>2, <2>3 DEF InputName
<1>4. CASE ~isTVFRule(n)
  <2>1. OutputName(n) = Append(n, "pvrs")
    BY <1>4 DEF OutputName
  <2>2. ~Contains(Append(n, "pvrs"), "trs")
    BY <1>1, <1>2 DEF Contains
  <2>3. RemoveFirst(Append(n, "pvrs"), "pvrs") = n
    BY <1>1, <1>2, EndingRemoved
  <2> QED
    BY <2>1, <2>2, <2>3 DEF InputName
<1> QED
  BY <1>3, <1>4

\* The input of a nested conversion is the file that the INCLUDE names.
THEOREM NamesRecovered == Spec => []InputRecovered
<1>1. Inv /\ StackInv => InputRecovered
  <2> SUFFICES ASSUME Inv, StackInv, PlainNames, NEW i \in 2..Len(frames)
               PROVE  OutputName(frames[i].file) = frames[i].out
    BY DEF InputRecovered
  <2>1. i \in DOMAIN frames /\ i > 1
    BY DEF Inv, TypeOK
  <2>2. IncludeFrame(frames[i])
    BY <2>1 DEF StackInv
  <2> QED
    BY <2>2, NameRecovered DEF IncludeFrame
<1> QED
  BY <1>1, Invariant, StackOK, PTL

-----------------------------------------------------------------------------
(***************************************************************************)
(* OwnOutput.  Two nested conversions that write to the same path have the *)
(* same input, by the names; the outermost one writes elsewhere.           *)
(***************************************************************************)

\* The stages at which the output stream is open.
Writing ==
  /\ status = "converting"
  /\ Top.pc \in {"check", "preprocess", "read", "parse", "convert"}

OutputInv ==
  /\ Writing => /\ outStream.open /\ outStream.path = Top.out
                /\ Top.out \in DOMAIN output
                /\ output[Top.out] = Partial
  /\ \A i \in DOMAIN frames :
       frames[i].pc \in {"report", "includes"} => frames[i].out \in DOMAIN output
  /\ OwnOutput

LEMMA SameApart ==
  ASSUME disk' = disk
  PROVE  OutFileApart' <=> OutFileApart
<1>1. \A n : OutputName(n)' = OutputName(n)
  BY SameNames
<1> QED
  BY <1>1 DEF OutFileApart

\* A step that goes on in the innermost frame and writes to its path at most.
LEMMA KeptOutput ==
  ASSUME Inv, OutputInv, disk' = disk,
         status = "converting", status' = "converting",
         NEW f \in Frames, SetTop(f), f.file = Top.file, f.out = Top.out,
         DOMAIN output \subseteq DOMAIN output',
         \A p \in DOMAIN output : p # Top.out => output'[p] = output[p],
         f.pc \in {"report", "includes"} =>
           /\ f.out \in DOMAIN output'
           /\ OutFileApart => output'[f.out] = f.file,
         f.pc \in {"check", "preprocess", "read", "parse", "convert"} =>
           /\ outStream'.open /\ outStream'.path = f.out
           /\ f.out \in DOMAIN output'
           /\ output'[f.out] = Partial
  PROVE  OutputInv'
<1>1. frames \in Seq(Frames) /\ frames # <<>>
  BY DEF Inv, TypeOK
<1>2. /\ DOMAIN frames' = DOMAIN frames /\ Top = frames[Len(frames)]
      /\ frames'[Len(frames)] = f /\ Top' = f
      /\ \A i \in DOMAIN frames : i < Len(frames) => frames'[i] = frames[i]
      /\ Len(frames) \in Nat \ {0} /\ DOMAIN frames = 1..Len(frames)
  BY <1>1, TopFrame, TopSet DEF Top, Last
<1>3. Writing' => /\ outStream'.open /\ outStream'.path = Top'.out
                  /\ Top'.out \in DOMAIN output'
                  /\ output'[Top'.out] = Partial
  BY <1>2 DEF Writing
<1>4. ASSUME NEW i \in DOMAIN frames',
             frames'[i].pc \in {"report", "includes"}
      PROVE  frames'[i].out \in DOMAIN output'
  <2>1. CASE i = Len(frames)
    BY <1>2, <1>4, <2>1
  <2>2. CASE i # Len(frames)
    BY <1>2, <1>4, <2>2 DEF OutputInv
  <2> QED
    BY <2>1, <2>2
<1>5. ASSUME OutFileApart', NEW i \in DOMAIN frames',
             frames'[i].pc \in {"report", "includes"}
      PROVE  \/ output'[frames'[i].out] = frames'[i].file
             \/ \E j \in DOMAIN frames' :
                  j > i /\ frames'[j].out = frames'[i].out
  <2>1. CASE i = Len(frames)
    BY <1>2, <1>5, <2>1, SameApart
  <2>2. CASE i # Len(frames)
    <3>1. /\ i \in DOMAIN frames /\ frames'[i] = frames[i] /\ i < Len(frames)
          /\ frames[i].pc \in {"report", "includes"}
      BY <1>2, <1>5, <2>2
    <3>2. /\ frames[i].out \in DOMAIN output
          /\ \/ output[frames[i].out] = frames[i].file
             \/ \E j \in DOMAIN frames : j > i /\ frames[j].out = frames[i].out
      BY <1>5, <3>1, SameApart DEF OutputInv, OwnOutput
    <3>3. CASE frames[i].out = Top.out
      BY <1>2, <3>1, <3>3
    <3>4. CASE frames[i].out # Top.out /\ output[frames[i].out] = frames[i].file
      BY <3>1, <3>2, <3>4
    <3>5. ASSUME frames[i].out # Top.out,
                 NEW j \in DOMAIN frames, j > i, frames[j].out = frames[i].out
          PROVE  \E k \in DOMAIN frames' :
                   k > i /\ frames'[k].out = frames'[i].out
      <4>1. j # Len(frames)
        BY <1>2, <3>5
      <4>2. frames'[j] = frames[j]
        BY <1>2, <4>1
      <4> QED
        BY <1>2, <3>1, <3>5, <4>2
    <3> QED
      BY <3>2, <3>3, <3>4, <3>5
  <2> QED
    BY <2>1, <2>2
<1> QED
  BY <1>3, <1>4, <1>5 DEF OutputInv, OwnOutput

\* The frames stay, and the stages are over.
LEMMA SameOutput ==
  ASSUME OutputInv, disk' = disk, frames' = frames, output' = output,
         status' # "converting" \/ UNCHANGED <<status, outStream>>
  PROVE  OutputInv'
<1>1. OutFileApart' <=> OutFileApart
  BY SameApart
<1>2. OwnOutput'
  BY <1>1 DEF OutputInv, OwnOutput
<1>3. Writing' => Writing /\ UNCHANGED <<outStream, Top>>
  BY DEF Writing, Top
<1> QED
  BY <1>2, <1>3 DEF OutputInv

\* A conversion begins, or all have ended.
LEMMA NewOutput ==
  ASSUME \/ frames' = <<>> /\ status' # "converting"
         \/ \E file, out, sf : frames' = <<Frame(file, out, sf, 0)>>
  PROVE  OutputInv'
<1>1. CASE frames' = <<>> /\ status' # "converting"
  BY <1>1 DEF OutputInv, OwnOutput, Writing
<1>2. ASSUME NEW file, NEW out, NEW sf, frames' = <<Frame(file, out, sf, 0)>>
      PROVE  OutputInv'
  <2> DEFINE g == Frame(file, out, sf, 0)
  <2>1. DOMAIN frames' = {1} /\ frames'[1] = g /\ Top' = g
    BY <1>2 DEF Top, Last
  <2>2. g.pc = "begin"
    BY DEF Frame
  <2> HIDE DEF g
  <2> QED
    BY <2>1, <2>2 DEF OutputInv, OwnOutput, Writing
<1> QED
  BY <1>1, <1>2

\* From which stage to which one the steps within a conversion go.
LEMMA StagesPassed ==
  ASSUME Inv, Inner
  PROVE  /\ Preprocess => Top.pc = "preprocess" /\ Top'.pc = "read"
         /\ ReadLine \/ ReadInclude \/ IncludeMissing \/ IncludeFile =>
              Top.pc = "read" /\ Top'.pc = "read"
         /\ EndOfFile => /\ Top.pc = "read"
                         /\ Top'.pc = IF Len(Top.reading) = 1 THEN "parse"
                                                              ELSE "read"
         /\ ParseMacros => Top.pc = "parse" /\ Top'.pc = "convert"
         /\ Warn => Top.pc = "convert" /\ Top'.pc = "convert"
         /\ Convert => Top.pc = "convert" /\ Top'.pc = "report"
<1>1. /\ status = "converting" /\ frames \in Seq(Frames) /\ frames # <<>>
      /\ Top \in Frames
  BY InnerSteps, TopFrame DEF Inv, TypeOK
<1>2. ASSUME NEW f, SetTop(f)
      PROVE  Top' = f
  BY <1>1, <1>2, SetFrame
<1>3. ASSUME ReadLine
      PROVE  Top'.pc = "read"
  BY <1>2, <1>3, CopiedFrame, Stages DEF ReadLine, LinesLeft
<1>4. ASSUME ReadInclude
      PROVE  Top'.pc = "read"
  <2>1. Top' = [Copied EXCEPT !.includes = Append(@, OutputName(NextLine.target))]
    BY <1>2, <1>4 DEF ReadInclude
  <2>2. Copied \in Frames /\ Copied.pc = "read" /\ Top.pc = "read"
    BY <1>4, CopiedFrame, Stages DEF ReadInclude, LinesLeft
  <2> QED
    BY <1>4, <2>1, <2>2 DEF ReadInclude, Frames
<1>5. ASSUME IncludeMissing
      PROVE  Top'.pc = "read"
  BY <1>2, <1>5, RegisteredFrame, Stages DEF IncludeMissing, Registers, LinesLeft
<1>6. ASSUME IncludeFile
      PROVE  Top'.pc = "read"
  <2> DEFINE file == Opened(NextLine.target, realFile(NextLine.target))
  <2>1. Top' = [Registered EXCEPT !.reading = Append(@, file)]
    BY <1>2, <1>6 DEF IncludeFile
  <2>2. Registered \in Frames /\ Registered.pc = "read" /\ Top.pc = "read"
    BY <1>6, RegisteredFrame, Stages DEF IncludeFile, Registers, LinesLeft
  <2> QED
    BY <2>1, <2>2 DEF Frames
<1>7. ASSUME Preprocess
      PROVE  Top'.pc = "read"
  <2>1. Top' = [Top EXCEPT !.pc = "read",
                           !.reading = <<Opened(InFile, InFile)>>]
    BY <1>2, <1>7 DEF Preprocess
  <2> QED
    BY <1>1, <1>7, <2>1 DEF Preprocess, At, Frames
<1>8. ASSUME EndOfFile
      PROVE  Top'.pc = IF Len(Top.reading) = 1 THEN "parse" ELSE "read"
  <2> DEFINE pc == IF Len(Top.reading) = 1 THEN "parse" ELSE Top.pc
             r  == Front(Top.reading)
             g  == Top.registered \ {Reader.source}
  <2>1. Top' = [Top EXCEPT !.reading = r, !.registered = g, !.pc = pc]
    BY <1>2, <1>8 DEF EndOfFile
  <2> HIDE DEF r, g
  <2>2. Top.pc = "read"
    BY <1>8 DEF EndOfFile, At
  <2> HIDE DEF pc
  <2>3. Top'.pc = pc
    BY <1>1, <2>1 DEF Frames
  <2> QED
    BY <2>2, <2>3 DEF pc
<1>9. /\ ParseMacros => Top'.pc = "convert"
      /\ Convert => Top'.pc = "report"
  <2>1. ASSUME NEW pc, Goto(pc)
        PROVE  Top'.pc = pc
    BY <1>1, <1>2, <2>1 DEF Goto, Frames
  <2> QED
    BY <2>1 DEF ParseMacros, Convert
<1>10. ASSUME Warn
       PROVE  Top'.pc = "convert"
  <2>1. PICK k : Top' = [Top EXCEPT !.line = k]
    BY <1>2, <1>10 DEF Warn
  <2> QED
    BY <1>1, <1>10, <2>1 DEF Warn, At, Frames
<1>11. /\ Preprocess => At("preprocess")
       /\ ReadLine \/ ReadInclude \/ IncludeMissing \/ IncludeFile => At("read")
       /\ EndOfFile => At("read")
       /\ ParseMacros => At("parse")
       /\ Warn => At("convert")
       /\ Convert => At("convert")
  BY DEF Preprocess, ReadLine, ReadInclude, IncludeMissing, IncludeFile,
     Registers, LinesLeft, EndOfFile, ParseMacros, Warn, Convert
<1>12. ReadLine \/ ReadInclude \/ IncludeMissing \/ IncludeFile => Top'.pc = "read"
  BY <1>3, <1>4, <1>5, <1>6
<1> QED
  BY <1>7, <1>8, <1>9, <1>10, <1>11, <1>12 DEF At

\* Back in the caller: what the include file's conversion has written over is
\* a conversion of the same file.
LEMMA PoppedOutput ==
  ASSUME Inv, StackInv, OutputInv, disk' = disk, status = "converting",
         NEW files, Leave(files), output' = output,
         Top.pc = "includes" \/ Bad(Top.file)
  PROVE  OutputInv'
<1>1. /\ frames \in Seq(Frames) /\ frames # <<>>
      /\ Top = frames[Len(frames)] /\ Len(frames) \in DOMAIN frames
      /\ Len(frames) \in Nat \ {0} /\ DOMAIN frames = 1..Len(frames)
  BY TopFrame DEF Inv, TypeOK
<1>2. /\ DOMAIN frames' = 1..(Len(frames) - 1)
      /\ \A i \in DOMAIN frames' : i \in DOMAIN frames /\ frames'[i] = frames[i]
  BY <1>1, Popped DEF Leave
<1>3. Writing' => FALSE
  BY ToCaller DEF Writing
<1>4. \A i \in DOMAIN frames' :
        frames'[i].pc \in {"report", "includes"} => frames'[i].out \in DOMAIN output'
  BY <1>2 DEF OutputInv
<1>5. ASSUME OutFileApart', NEW i \in DOMAIN frames',
             frames'[i].pc \in {"report", "includes"}
      PROVE  \/ output'[frames'[i].out] = frames'[i].file
             \/ \E j \in DOMAIN frames' :
                  j > i /\ frames'[j].out = frames'[i].out
  <2>1. /\ i \in DOMAIN frames /\ i < Len(frames) /\ frames'[i] = frames[i]
        /\ OutFileApart
    BY <1>1, <1>2, <1>5, SameApart
  <2>2. \/ output[frames[i].out] = frames[i].file
        \/ \E j \in DOMAIN frames : j > i /\ frames[j].out = frames[i].out
    BY <1>5, <2>1 DEF OutputInv, OwnOutput
  <2>3. CASE output[frames[i].out] = frames[i].file
    BY <2>1, <2>3
  <2>4. ASSUME NEW j \in DOMAIN frames, j > i, j # Len(frames),
               frames[j].out = frames[i].out
        PROVE  \E k \in DOMAIN frames' :
                 k > i /\ frames'[k].out = frames'[i].out
    <3>1. j \in DOMAIN frames' /\ frames'[j] = frames[j]
      BY <1>1, <1>2, <2>4
    <3> QED
      BY <2>1, <2>4, <3>1
  <2>5. CASE Top.out = frames[i].out
    <3>1. IncludeFrame(Top)
      BY <1>1, <2>1 DEF StackInv
    <3>2. i # 1
      <4>1. opt.oi
        BY <1>1, <2>1 DEF Inv, ModeOK
      <4>2. frames[1].out = OutFile
        BY <1>1, <4>1 DEF StackInv
      <4>3. Top.out # OutFile
        BY <2>1, <3>1 DEF OutFileApart, IncludeFrame
      <4> QED
        BY <2>5, <4>2, <4>3
    <3>3. IncludeFrame(frames[i])
      BY <1>1, <2>1, <3>2 DEF StackInv
    <3>4. frames[i].file = Top.file
      BY <2>5, <3>1, <3>3 DEF IncludeFrame
    <3>5. ~Bad(Top.file)
      <4>1. FrameNames(frames[i]) /\ frames[i].pc = "includes"
        BY <2>1 DEF StackInv, Inv, Nesting
      <4> QED
        BY <3>4, <4>1 DEF FrameNames
    <3>6. output[Top.out] = Top.file
      <4>1. Top.pc = "includes" /\ ~\E j \in DOMAIN frames : j > Len(frames)
        BY <1>1, <3>5
      <4> QED
        BY <1>1, <2>1, <4>1 DEF OutputInv, OwnOutput
    <3> QED
      BY <2>1, <2>5, <3>4, <3>6
  <2> QED
    BY <1>1, <2>2, <2>3, <2>4, <2>5
<1> QED
  BY <1>3, <1>4, <1>5 DEF OutputInv, OwnOutput

LEMMA PushedOutput ==
  ASSUME Inv, OutputInv, disk' = disk, ProcessIncludeFile
  PROVE  OutputInv'
<1> DEFINE path == Top.includes[Top.next]
           f == [Top EXCEPT !.next = @ + 1]
           g == Frame(InputName(path), path, FALSE, globalLineNo)
<1>1. f.file = Top.file /\ f.out = Top.out /\ f.pc = Top.pc
  BY NestedIncludes
<1>2. g.pc = "begin"
  BY DEF Frame
<1>3. /\ DOMAIN frames' = 1..(Len(frames) + 1) /\ Top' = g
      /\ frames'[Len(frames) + 1] = g /\ frames'[Len(frames)] = f
      /\ \A i \in DOMAIN frames : i < Len(frames) => frames'[i] = frames[i]
  BY Nested
<1> HIDE DEF f, g
<1>4. /\ frames \in Seq(Frames) /\ frames # <<>> /\ Top = frames[Len(frames)]
      /\ Len(frames) \in Nat \ {0} /\ DOMAIN frames = 1..Len(frames)
      /\ output' = output
  BY Stages DEF ProcessIncludeFile
<1>5. \A i \in DOMAIN frames :
        /\ i \in DOMAIN frames' /\ frames'[i].file = frames[i].file
        /\ frames'[i].out = frames[i].out /\ frames'[i].pc = frames[i].pc
  <2> SUFFICES ASSUME NEW i \in DOMAIN frames
               PROVE  /\ i \in DOMAIN frames'
                      /\ frames'[i].file = frames[i].file
                      /\ frames'[i].out = frames[i].out
                      /\ frames'[i].pc = frames[i].pc
    OBVIOUS
  <2>1. CASE i = Len(frames)
    BY <1>1, <1>3, <1>4, <2>1
  <2>2. CASE i # Len(frames)
    BY <1>3, <1>4, <2>2
  <2> QED
    BY <2>1, <2>2
<1>6. \A i \in DOMAIN frames' :
        frames'[i].pc \in {"report", "includes"} => i \in DOMAIN frames
  BY <1>2, <1>3, <1>4
<1>7. Writing' => FALSE
  BY <1>2, <1>3 DEF Writing
<1>8. OutFileApart' <=> OutFileApart
  BY SameApart
<1>9. OwnOutput'
  <2> SUFFICES ASSUME OutFileApart, NEW i \in DOMAIN frames',
                      frames'[i].pc \in {"report", "includes"}
               PROVE  \/ output'[frames'[i].out] = frames'[i].file
                      \/ \E j \in DOMAIN frames' :
                           j > i /\ frames'[j].out = frames'[i].out
    BY <1>8 DEF OwnOutput
  <2>1. i \in DOMAIN frames /\ frames[i].pc \in {"report", "includes"}
    BY <1>5, <1>6
  <2>2. \/ output[frames[i].out] = frames[i].file
        \/ \E j \in DOMAIN frames : j > i /\ frames[j].out = frames[i].out
    BY <2>1 DEF OutputInv, OwnOutput
  <2> QED
    BY <1>4, <1>5, <2>1, <2>2
<1>10. \A i \in DOMAIN frames' :
         frames'[i].pc \in {"report", "includes"} => frames'[i].out \in DOMAIN output'
  BY <1>4, <1>5, <1>6 DEF OutputInv
<1> QED
  BY <1>7, <1>9, <1>10 DEF OutputInv

LEMMA OutputStep ==
  ASSUME Inv, StackInv, StreamInv, OutputInv, [Next]_vars
  PROVE  OutputInv'
<1>0. disk' = disk
  BY SameDisk
<1> USE DEF commandLine, streams
<1>1. CASE Inner \/ BeginWrite \/ Check \/ (Report /\ status' = "converting")
  <2>1. PICK f \in Frames :
          SetTop(f) /\ f.file = Top.file /\ f.out = Top.out
    BY <1>1, FrameKept
  <2>2. status = "converting" /\ status' = "converting"
    BY <1>1, InnerSteps, OuterSteps DEF BeginWrite, Check
  <2>3. /\ frames \in Seq(Frames) /\ frames # <<>> /\ Top' = f
        /\ Top = frames[Len(frames)] /\ Len(frames) \in DOMAIN frames
        /\ Len(frames) \in Nat \ {0} /\ DOMAIN frames = 1..Len(frames)
    BY <2>1, <2>2, TopFrame, SetFrame DEF Inv, TypeOK
  <2>4. CASE BeginWrite
    <3>1. Top.pc = "begin" /\ f.pc = "check" /\ ~outStream.open
      <4>1. Top.pc = "begin" /\ f.pc = "check"
        BY <2>3, <2>4, OuterSteps
      <4> QED
        BY <2>2, <4>1 DEF StreamInv, Between
    <3>2. /\ outStream' = [open |-> TRUE, path |-> Top.out]
          /\ output' = Emptied(Top.out)
      BY <2>4, <3>1 DEF BeginWrite
    <3>3. /\ DOMAIN output \subseteq DOMAIN output'
          /\ \A p \in DOMAIN output : p # Top.out => output'[p] = output[p]
          /\ Top.out \in DOMAIN output' /\ output'[Top.out] = Partial
      BY <3>2 DEF Emptied
    <3>4. outStream'.open /\ outStream'.path = Top.out
      BY <3>2
    <3> QED
      BY <1>0, <2>1, <2>2, <3>1, <3>3, <3>4, KeptOutput
  <2>5. CASE Convert
    <3>1. Top.pc = "convert" /\ f.pc = "report"
      BY <2>3, <2>5, StagesPassed DEF Inner
    <3>2. /\ outStream.open /\ outStream.path = Top.out
          /\ Top.out \in DOMAIN output
      BY <2>2, <3>1 DEF OutputInv, Writing
    <3>3. output' = [output EXCEPT ![Top.out] = Top.file]
      BY <2>5, <3>2 DEF Convert
    <3>4. /\ DOMAIN output \subseteq DOMAIN output'
          /\ \A p \in DOMAIN output : p # Top.out => output'[p] = output[p]
          /\ Top.out \in DOMAIN output' /\ output'[Top.out] = Top.file
      BY <3>2, <3>3
    <3> QED
      BY <1>0, <2>1, <2>2, <3>1, <3>4, KeptOutput
  <2>6. CASE Check \/ (Inner /\ ~Convert)
    <3>1. output' = output /\ outStream' = outStream
      BY <2>6, InnerSteps DEF Check, Inner, Preprocess, ReadLine, ReadInclude,
         IncludeMissing, Registers, IncludeFile, EndOfFile, ParseMacros, Warn
    <3>2. Writing
      BY <2>2, <2>6, InnerSteps, OuterSteps DEF Writing
    <3>3. f.pc \notin {"report", "includes"}
      <4>1. CASE Check
        BY <2>3, <4>1, OuterSteps
      <4>2. CASE Inner /\ ~Convert
        <5>1. Top'.pc \in {"read", "parse", "convert"}
          BY <4>2, StagesPassed DEF Inner
        <5> QED
          BY <2>3, <5>1
      <4> QED
        BY <2>6, <4>1, <4>2
    <3>4. /\ outStream'.open /\ outStream'.path = f.out
          /\ f.out \in DOMAIN output' /\ output'[f.out] = Partial
      BY <2>1, <3>1, <3>2 DEF OutputInv
    <3> QED
      BY <1>0, <2>1, <2>2, <3>1, <3>3, <3>4, KeptOutput
  <2>7. CASE Report /\ status' = "converting"
    <3>1. Top.pc = "report" /\ f.pc = "includes" /\ output' = output
      BY <2>3, <2>7, OuterSteps DEF Report
    <3>2. Top.out \in DOMAIN output
      BY <2>3, <3>1 DEF OutputInv
    <3>3. OutFileApart => output[Top.out] = Top.file
      BY <2>3, <3>1 DEF OutputInv, OwnOutput
    <3> QED
      BY <1>0, <2>1, <2>2, <3>1, <3>2, <3>3, KeptOutput
  <2> QED
    BY <1>1, <2>4, <2>5, <2>6, <2>7
<1>2. CASE Fails \/ StackOverflow \/ (Report /\ status' # "converting")
  <2>1. frames' = frames /\ status' # "converting"
    BY <1>2, FailSteps DEF StackOverflow, Report, At
  <2>2. output' = output
    BY <1>2 DEF Fails, BeginWriteFails, CheckFails, ReadDirective,
       IncludeAgain, IncludedTvfFails, MacroFails, ConvertFails,
       StackOverflow, Report
  <2> QED
    BY <1>0, <2>1, <2>2, SameOutput
<1>3. CASE ParseArgument
  BY <1>0, <1>3, SameOutput DEF ParseArgument
<1>4. CASE UNCHANGED vars
  BY <1>0, <1>4, SameOutput DEF vars
<1>5. CASE Main
  <2>1. \/ frames' = <<>> /\ status' # "converting"
        \/ frames' = <<Frame(Deck, OutFile, opt.sf, 0)>>
    BY <1>5 DEF Main, Inv, Nesting
  <2> QED
    BY <2>1, NewOutput
<1>6. CASE OnConvert
  BY <1>6, NewOutput DEF OnConvert
<1>7. CASE HandleThrow
  BY <1>7, NewOutput DEF HandleThrow
<1>8. CASE NotTvf \/ ConvertToTrs
  <2>1. /\ status = "converting" /\ opt.trs
        /\ frames \in Seq(Frames) /\ frames # <<>>
    BY <1>8, Stages DEF NotTvf, ConvertToTrs
  <2>2. Len(frames) = 1
    BY <2>1 DEF Inv, ModeOK
  <2>3. PICK files : Leave(files)
    BY <1>8 DEF NotTvf, ConvertToTrs
  <2>4. frames' = <<>>
    BY <2>1, <2>2, <2>3, Popped DEF Leave
  <2>5. status' # "converting"
    BY <2>1, <2>2, <2>3, ToCaller
  <2> QED
    BY <2>4, <2>5, NewOutput
<1>9. CASE CompileFails \/ Return
  <2>1. PICK files : Leave(files)
    BY <1>9 DEF CompileFails, Return
  <2>2. /\ status = "converting" /\ output' = output
        /\ Top.pc = "includes" \/ Bad(Top.file)
    BY <1>9, TvfRule DEF CompileFails, Return, At
  <2> QED
    BY <1>0, <2>1, <2>2, PoppedOutput
<1>10. CASE ProcessIncludeFile
  BY <1>0, <1>10, PushedOutput
<1> QED
  BY <1>1, <1>2, <1>3, <1>4, <1>5, <1>6, <1>7, <1>8, <1>9, <1>10, Stages2
  DEF Next, Step, Halted

LEMMA OutputOK == Spec => []OutputInv
<1>1. Init => OutputInv
  BY DEF Init, OutputInv, Writing, OwnOutput
<1>2. Inv /\ StackInv /\ StreamInv /\ OutputInv /\ [Next]_vars => OutputInv'
  BY OutputStep
<1> QED
  BY <1>1, <1>2, Invariant, StackOK, StreamsOK, PTL DEF Spec

\* Conversions keep what they have written.
THEOREM OutputsKept == Spec => []OwnOutput
<1>1. OutputInv => OwnOutput
  BY DEF OutputInv
<1> QED
  BY <1>1, OutputOK, PTL

-----------------------------------------------------------------------------
(***************************************************************************)
(* TempRemoved.  The script of a TVF file that the run has not removed is  *)
(* that of a conversion that is going on, or of one that has failed and    *)
(* whose output nobody has written since.                                  *)
(***************************************************************************)

\* A conversion to the path has failed, and so will each that comes.
Failed(p) == output[p] = Partial /\ Bad(InputName(p))

ScriptLeft ==
  \/ Writing /\ Top.pc # "check" /\ Top.script
  \/ status = "returned" /\ \E p \in DOMAIN output : output[p] = Partial
  \/ /\ status = "converting"
     /\ Len(frames) > 1 \/ Top.pc = "includes"
     /\ \E p \in DOMAIN output : Failed(p)

TempInv ==
  /\ status = "start" => temps = {}
  /\ /\ ~opt.gui /\ status \in {"converting", "returned"}
     /\ svrfFileName = ScriptTmp /\ ScriptTmp \in temps
     => ScriptLeft

LEMMA TempNames ==
  /\ Tmp # ScriptTmp /\ SwitchTmp # ScriptTmp
  /\ \A n \in Nat : Generated(n) # ScriptTmp
<1>1. Len(Tmp) = 3 /\ Tmp[2] = "svrf2pvrs"
  BY DEF Tmp
<1>2. Len(ScriptTmp) = 3 /\ ScriptTmp[2] = "tvf2svrf"
  BY DEF ScriptTmp
<1>3. Len(SwitchTmp) = 4 /\ \A n \in Nat : Generated(n)[2] = "included"
  BY DEF SwitchTmp, Generated
<1> QED
  BY <1>1, <1>2, <1>3

LEMMA StillFailed ==
  ASSUME disk' = disk, NEW p \in DOMAIN output, Failed(p),
         p \in DOMAIN output', output'[p] = Partial
  PROVE  Failed(p)'
<1>1. \A n : Bad(n)' <=> Bad(n)
  BY SameNames
<1> QED
  BY <1>1 DEF Failed

\* A step in the middle of the conversion that makes no script and leaves what
\* has failed.
LEMMA KeptTemps ==
  ASSUME Inv, TempInv, disk' = disk, opt' = opt,
         status = "converting", status' = "converting",
         Len(frames') \in Nat, Len(frames') >= Len(frames),
         ScriptTmp \in temps' => ScriptTmp \in temps,
         svrfFileName' = ScriptTmp => svrfFileName = ScriptTmp,
         Writing /\ Top.pc # "check" /\ Top.script
           => \/ Writing' /\ Top'.pc # "check" /\ Top'.script
              \/ ScriptTmp \notin temps' \/ svrfFileName' # ScriptTmp,
         Top.pc = "includes" => Top'.pc = "includes" \/ Len(frames') > 1,
         \A p \in DOMAIN output :
           Failed(p) /\ (Len(frames) > 1 \/ Top.pc = "includes") =>
             p \in DOMAIN output' /\ output'[p] = Partial
  PROVE  TempInv'
<1> SUFFICES ASSUME ~opt.gui, svrfFileName' = ScriptTmp, ScriptTmp \in temps'
             PROVE  ScriptLeft'
  BY DEF TempInv
<1>1. Len(frames) \in Nat /\ Len(frames') \in Nat
  <2>1. frames \in Seq(Frames) /\ frames # <<>>
    BY DEF Inv, TypeOK
  <2> QED
    BY <2>1
<1>2. ScriptLeft
  BY DEF TempInv
<1>3. CASE Writing /\ Top.pc # "check" /\ Top.script
  BY <1>3 DEF ScriptLeft
<1>4. ASSUME Len(frames) > 1 \/ Top.pc = "includes",
             NEW p \in DOMAIN output, Failed(p)
      PROVE  ScriptLeft'
  <2>1. p \in DOMAIN output' /\ output'[p] = Partial
    BY <1>4
  <2>2. Failed(p)'
    BY <1>4, <2>1, StillFailed
  <2>3. Len(frames') > 1 \/ Top'.pc = "includes"
    BY <1>1, <1>4
  <2> QED
    BY <2>1, <2>2, <2>3 DEF ScriptLeft
<1> QED
  BY <1>2, <1>3, <1>4 DEF ScriptLeft

LEMMA TempStep ==
  ASSUME Inv, StackInv, OutputInv, StreamInv, TempInv, [Next]_vars
  PROVE  TempInv'
<1>0. disk' = disk
  BY SameDisk
<1> USE DEF commandLine, tempVars, scriptVars
<1>1. CASE Inner \/ BeginWrite \/ Check \/ (Report /\ status' = "converting")
  <2>1. PICK f \in Frames :
          /\ SetTop(f)
          /\ f.file = Top.file /\ f.out = Top.out
          /\ f.script = Top.script \/ Check
    BY <1>1, FrameKept
  <2>2. /\ status = "converting" /\ status' = "converting" /\ opt' = opt
    BY <1>1, InnerSteps, OuterSteps DEF BeginWrite, Check, Report
  <2>3. /\ frames \in Seq(Frames) /\ frames # <<>> /\ Top' = f
        /\ Top = frames[Len(frames)] /\ Len(frames) \in DOMAIN frames
        /\ Len(frames) \in Nat /\ Len(frames') = Len(frames)
    BY <2>1, <2>2, TopFrame, SetFrame DEF Inv, TypeOK
  <2>4. CASE BeginWrite
    <3>1. Top.pc = "begin" /\ ~outStream.open
      <4>1. Top.pc = "begin"
        BY <2>4, OuterSteps
      <4> QED
        BY <2>2, <4>1 DEF StreamInv, Between
    <3>2. output' = Emptied(Top.out)
      BY <2>4, <3>1 DEF BeginWrite
    <3>3. \A p \in DOMAIN output :
            Failed(p) => p \in DOMAIN output' /\ output'[p] = Partial
      BY <3>2 DEF Emptied, Failed
    <3>4. UNCHANGED <<temps, svrfFileName>>
      BY <2>4 DEF BeginWrite
    <3> QED
      BY <1>0, <2>2, <2>3, <3>1, <3>3, <3>4, KeptTemps DEF Writing
  <2>5. CASE Check /\ isTVFRule(Top.file)
    <3>1. Top'.script /\ Top'.pc = "preprocess"
      <4>1. Top' = [Top EXCEPT !.script = isTVFRule(Top.file),
                               !.pc = "preprocess"]
        BY <2>3, <2>5, SetFrame DEF Check
      <4>2. isTVFRule(Top.file) \in BOOLEAN /\ Top \in Frames
        BY <2>3, TopFrame DEF isTVFRule
      <4> QED
        BY <2>5, <4>1, <4>2 DEF Frames
    <3> QED
      BY <2>2, <3>1 DEF TempInv, ScriptLeft, Writing
  <2>6. CASE Check /\ ~isTVFRule(Top.file)
    <3>1. Top.pc = "check" /\ UNCHANGED <<temps, svrfFileName, output>>
      BY <2>6, OuterSteps DEF Check
    <3> QED
      BY <1>0, <2>2, <2>3, <3>1, KeptTemps DEF Failed
  <2>7. CASE Convert
    <3>1. Top.pc = "convert" /\ FrameNames(Top)
      BY <2>3, <2>7, StagesPassed DEF Inner, StackInv
    <3>2. outStream.open /\ outStream.path = Top.out
      BY <2>2, <3>1 DEF OutputInv, Writing
    <3>3. output' = [output EXCEPT ![Top.out] = Top.file]
      BY <2>7, <3>2 DEF Convert
    <3>4. ASSUME NEW p \in DOMAIN output, Failed(p),
                 Len(frames) > 1 \/ Top.pc = "includes"
          PROVE  p \in DOMAIN output' /\ output'[p] = Partial
      <4>1. IncludeFrame(Top)
        BY <2>3, <3>1, <3>4 DEF StackInv
      <4>2. p # Top.out
        BY <3>1, <3>4, <4>1 DEF FrameNames, IncludeFrame, Failed
      <4> QED
        BY <3>3, <3>4, <4>2 DEF Failed
    <3>5. /\ svrfFileName' = svrfFileName /\ temps' \subseteq temps
          /\ Top.script => svrfFileName \notin temps'
      BY <2>7 DEF Convert
    <3> QED
      BY <1>0, <2>2, <2>3, <3>1, <3>4, <3>5, KeptTemps
  <2>8. CASE (Inner /\ ~Convert) \/ (Report /\ status' = "converting")
    <3>1. output' = output
      BY <2>8 DEF Report, Inner, Preprocess, ReadLine, ReadInclude,
         IncludeMissing, Registers, IncludeFile, EndOfFile, ParseMacros, Warn
    <3>7. ASSUME IncludeFile
          PROVE  /\ ScriptTmp \in temps' => ScriptTmp \in temps
                 /\ svrfFileName' = ScriptTmp => svrfFileName = ScriptTmp
      <4>1. tmpIndex \in Nat
        BY DEF Inv, TypeOK
      <4>2. Generated(tmpIndex) # ScriptTmp
        BY <4>1, TempNames
      <4> QED
        BY <3>7, <4>2 DEF IncludeFile, CompileIncluded
    <3>2. ScriptTmp \in temps' => ScriptTmp \in temps
      BY <2>8, <3>7, TempNames
         DEF Report, Inner, Preprocess, ReadLine, ReadInclude, IncludeMissing,
             Registers, EndOfFile, ParseMacros, Warn
    <3>3. svrfFileName' = ScriptTmp => svrfFileName = ScriptTmp
      BY <2>8, <3>7 DEF Report, Inner, Preprocess, ReadLine, ReadInclude,
         IncludeMissing, Registers, EndOfFile, ParseMacros, Warn
    <3>4. Top'.script = Top.script
      <4>1. ~Check
        BY <2>8, InnerSteps, OuterSteps
      <4> QED
        BY <2>1, <2>3, <4>1
    <3>5. CASE Inner /\ ~Convert
      <4>1. Top'.pc \in {"read", "parse", "convert"}
        BY <3>5, StagesPassed DEF Inner
      <4>2. Top.pc # "includes"
        BY <3>5, InnerSteps
      <4> QED
        BY <1>0, <2>2, <2>3, <3>1, <3>2, <3>3, <3>4, <4>1, <4>2, KeptTemps
        DEF Writing, Failed
    <3>6. CASE Report /\ status' = "converting"
      <4>1. Top.pc = "report" /\ Top'.pc = "includes"
        BY <3>6, OuterSteps
      <4> QED
        BY <1>0, <2>2, <2>3, <3>1, <3>2, <3>3, <4>1, KeptTemps
        DEF Writing, Failed
    <3> QED
      BY <2>8, <3>5, <3>6
  <2> QED
    BY <1>1, <2>4, <2>5, <2>6, <2>7, <2>8
<1>2. CASE Fails \/ StackOverflow \/ (Report /\ status' # "converting")
           \/ HandleThrow
  <2>1. status' \notin {"start", "converting", "returned"}
    BY <1>2, FailSteps DEF StackOverflow, Report, At, HandleThrow
  <2> QED
    BY <2>1 DEF TempInv
<1>3. CASE ParseArgument
  BY <1>3 DEF ParseArgument, TempInv
<1>4. CASE UNCHANGED vars
  <2>1. ScriptLeft' <=> ScriptLeft
    <3>1. \A p : Failed(p)' <=> Failed(p)
      <4>1. \A n : Bad(n)' <=> Bad(n)
        BY <1>0, SameNames
      <4> QED
        BY <1>4, <4>1 DEF vars, Failed
    <3> QED
      BY <1>4, <3>1 DEF vars, ScriptLeft, Writing, Top
  <2> QED
    BY <1>4, <2>1 DEF vars, TempInv
<1>5. CASE Main
  BY <1>5 DEF Main, TempInv
<1>6. CASE OnConvert
  <2>1. opt'.gui
    BY <1>6 DEF OnConvert, StackInv, Inv, TypeOK, Options
  <2> QED
    BY <1>6, <2>1 DEF OnConvert, TempInv
<1>7. CASE NotTvf \/ ConvertToTrs
  <2>1. /\ status = "converting" /\ opt.trs /\ Top.pc = "check"
        /\ frames \in Seq(Frames) /\ frames # <<>> /\ opt' = opt
        /\ svrfFileName' = svrfFileName
    BY <1>7, Stages DEF NotTvf, ConvertToTrs
  <2>2. Len(frames) = 1 /\ ~opt.gui
    BY <2>1 DEF Inv, ModeOK
  <2>3. Leave(temps)
    BY <1>7 DEF NotTvf, ConvertToTrs
  <2>4. status' = "returned" /\ temps' \subseteq temps
    BY <2>2, <2>3 DEF Leave
  <2>5. svrfFileName = ScriptTmp => ScriptTmp \notin temps
    BY <2>1, <2>2 DEF TempInv, ScriptLeft, Writing
  <2> QED
    BY <2>1, <2>4, <2>5 DEF TempInv
<1>8. CASE CompileFails
  <2>1. /\ status = "converting" /\ Top.pc = "check" /\ opt' = opt
        /\ output' = output /\ Leave(temps \cup {ScriptTmp})
        /\ Bad(Top.file)
    BY <1>8, TvfRule DEF CompileFails, At
  <2>2. Top.out \in DOMAIN output /\ output[Top.out] = Partial
    BY <2>1 DEF OutputInv, Writing
  <2>3. CASE status' = "converting"
    <3>1. Len(frames) > 1 /\ Top'.pc = "includes"
      BY <2>1, <2>3, ToCaller
    <3>2. IncludeFrame(Top)
      <4>1. frames \in Seq(Frames) /\ frames # <<>>
        BY <2>1 DEF Inv, TypeOK
      <4> QED
        BY <3>1, <4>1, TopFrame DEF StackInv
    <3>3. Failed(Top.out)
      BY <2>1, <2>2, <3>2 DEF Failed, IncludeFrame
    <3>4. \E p \in DOMAIN output' : Failed(p)'
      BY <1>0, <2>1, <2>2, <3>3, StillFailed
    <3> QED
      BY <2>1, <2>2, <2>3, <3>1, <3>4 DEF TempInv, ScriptLeft
  <2>4. CASE status' # "converting"
    <3>1. status' \in {"idle", "returned"}
      BY <2>1, <2>4, ToCaller
    <3> QED
      BY <2>1, <2>2, <3>1 DEF TempInv, ScriptLeft
  <2> QED
    BY <2>3, <2>4
<1>9. CASE Return
  <2>1. /\ status = "converting" /\ Top.pc = "includes" /\ opt' = opt
        /\ UNCHANGED <<output, svrfFileName>> /\ Leave(temps)
    BY <1>9 DEF Return, At
  <2>2. temps' \subseteq temps
    BY <2>1 DEF Leave
  <2>3. /\ status' \in {"converting", "idle", "returned"}
        /\ status' = "converting" => Top'.pc = "includes"
    BY <2>1, ToCaller
  <2> SUFFICES ASSUME ~opt.gui, svrfFileName = ScriptTmp, ScriptTmp \in temps,
                      status' \in {"converting", "returned"}
               PROVE  ScriptLeft'
    BY <2>1, <2>2, <2>3 DEF TempInv
  <2>4. PICK p \in DOMAIN output : Failed(p)
    BY <2>1 DEF TempInv, ScriptLeft, Writing
  <2>5. Failed(p)'
    BY <1>0, <2>1, <2>4, StillFailed DEF Failed
  <2> QED
    BY <2>1, <2>3, <2>4, <2>5 DEF ScriptLeft, Failed
<1>10. CASE ProcessIncludeFile
  <2>1. /\ status = "converting" /\ Top.pc = "includes" /\ opt' = opt
        /\ status' = "converting"
        /\ UNCHANGED <<output, svrfFileName, temps>>
    BY <1>10 DEF ProcessIncludeFile, At
  <2>2. /\ Len(frames') = Len(frames) + 1 /\ Len(frames) \in Nat \ {0}
        /\ Len(frames') \in Nat
    <3>1. Len(frames) \in Nat \ {0} /\ Len(frames') = Len(frames) + 1
      BY <1>10, Nested, Stages DEF ProcessIncludeFile
    <3> QED
      BY <3>1
  <2>3. Len(frames') > 1 /\ Len(frames') >= Len(frames)
    BY <2>2
  <2> QED
    BY <1>0, <2>1, <2>2, <2>3, KeptTemps DEF Failed, Writing
<1> QED
  BY <1>1, <1>2, <1>3, <1>4, <1>5, <1>6, <1>7, <1>8, <1>9, <1>10, Stages2
  DEF Next, Step, Halted

\* Nothing but the script of a TVF file that did not compile stays.
THEOREM TempsRemoved == Spec => []TempRemoved
<1>1. Init => TempInv
  BY DEF Init, TempInv
<1>2. Inv /\ StackInv /\ StreamInv /\ OutputInv /\ TempInv /\ [Next]_vars
        => TempInv'
  BY TempStep
<1>3. Inv /\ StackInv /\ TempInv => TempRemoved
  <2> SUFFICES ASSUME Inv, StackInv, TempInv, status \in {"idle", "returned"}
               PROVE  temps \subseteq {ScriptTmp} /\ (Clean => temps = {})
    BY DEF TempRemoved
  <2>1. temps \subseteq {ScriptTmp}
    BY DEF Inv, TempsOK
  <2>2. ASSUME Clean, ScriptTmp \in temps
        PROVE  FALSE
    <3>1. status = "returned" /\ ~opt.gui
      BY <2>2 DEF Clean, StackInv
    <3>2. ScriptLeft
      BY <2>2, <3>1 DEF Clean, TempInv
    <3> QED
      BY <2>2, <3>1, <3>2 DEF Clean, ScriptLeft, Writing
  <2> QED
    BY <2>1, <2>2
<1> QED
  BY <1>1, <1>2, <1>3, Invariant, StackOK, StreamsOK, OutputOK, PTL DEF Spec

-----------------------------------------------------------------------------
(***************************************************************************)
(* AllConverted.  An INCLUDE of a file whose conversion was written is     *)
(* either waiting in the list of some frame, being converted, or written;  *)
(* and nobody writes to the path of an include file but its conversion.    *)
(***************************************************************************)
Listed(n) == \E j \in DOMAIN Top.includes : Top.includes[j] = OutputName(n)

\* Of the lines that the preprocessor has read under -oi the INCLUDEs are in
\* the list.  While nothing has been converted, nothing is written.
ReadInv ==
  /\ status = "start" => DOMAIN output = {}
  /\ opt.oi /\ status = "converting" =>
       /\ Top.pc = "begin" /\ Len(frames) = 1 => DOMAIN output = {}
       /\ Writing /\ Len(frames) = 1 => DOMAIN output = {Top.out}
       /\ Top.pc \in {"begin", "check", "preprocess"} => Top.includes = <<>>
       /\ Top.pc \in {"preprocess", "read", "parse", "convert"} =>
            /\ Top.script <=> isTVFRule(Top.file)
            /\ Top.script => compiled = Top.file
       /\ Top.pc = "read" =>
            /\ Len(Top.reading) = 1
            /\ Reader.source = InFile
            /\ \A k \in DOMAIN LinesOf(InFile) :
                 k < Reader.line /\ LinesOf(InFile)[k].kind = "include" =>
                   Listed(LinesOf(InFile)[k].target)
       /\ Top.pc \in {"parse", "convert"} =>
            \A k \in DOMAIN LinesOf(InFile) :
              LinesOf(InFile)[k].kind = "include" =>
                Listed(LinesOf(InFile)[k].target)

Active == {"begin", "check", "preprocess", "read", "parse", "convert"}

\* A path that an execute() will convert to, or is converting to.
Queued(q) ==
  \E i \in DOMAIN frames : \E k \in DOMAIN frames[i].includes :
    k >= frames[i].next /\ frames[i].includes[k] = q

Current(q) == /\ status = "converting" /\ Len(frames) > 1
              /\ Top.out = q /\ Top.pc \in Active

Settled(n) ==
  /\ OutputName(n) \in DOMAIN output
  /\ output[OutputName(n)] = IF StateOf(n) = "badTvf" THEN Partial ELSE n

Due(n) == Queued(OutputName(n)) \/ Current(OutputName(n)) \/ Settled(n)

IncludesDue(file) ==
  \A i \in DOMAIN disk[file].lines :
    disk[file].lines[i].kind = "include" => Due(disk[file].lines[i].target)

Kept(file) == \/ Queued(OutputName(file)) \/ Current(OutputName(file))
              \/ IncludesDue(file)

\* The runs that AllConverted is about.
Ordinary == /\ opt.oi /\ ~opt.trs /\ PlainNames
            /\ ~(opt.sf /\ isTVFRule(Deck))

PromiseInv ==
  status \in {"converting", "returned"} /\ Ordinary =>
    \A p \in DOMAIN output :
      output[p] \in Names => ~Bad(output[p]) /\ Kept(output[p])

LEMMA SameSource ==
  ASSUME disk' = disk, compiled' = compiled, Top'.file = Top.file,
         Top'.sf = Top.sf, Top'.script = Top.script
  PROVE  InFile' = InFile /\ LinesOf(InFile)' = LinesOf(InFile)
<1>1. InFile' = InFile
  BY DEF InFile
<1>2. \A s : LinesOf(s)' = LinesOf(s)
  BY DEF LinesOf
<1> QED
  BY <1>1, <1>2

\* The reader after a line has been copied, if no file is included.
LEMMA CopiedReader ==
  ASSUME Inv, LinesLeft, Len(Top.reading) = 1,
         Top'.reading = Copied.reading
  PROVE  /\ Len(Top'.reading) = 1
         /\ Reader'.source = Reader.source
         /\ Reader'.line = Reader.line + 1
<1> DEFINE r == [Reader EXCEPT !.line = @ + 1]
<1>1. /\ Top.reading \in Seq(Readers)
      /\ Reader \in Readers
      /\ Top \in Frames
  BY ReaderType, Stages DEF LinesLeft
<1>2. r.source = Reader.source /\ r.line = Reader.line + 1
  BY <1>1
<1>3. Copied.reading = ReplaceAt(Top.reading, Len(Top.reading), r)
  <2> DEFINE t == Append(Top.tokens, [kind |-> NextLine.kind, place |-> Here])
             s == ReplaceAt(Top.reading, Len(Top.reading), r)
  <2>1. Copied = [Top EXCEPT !.reading = s, !.tokens = t]
    BY DEF Copied
  <2> HIDE DEF r, s, t
  <2>2. Copied.reading = s
    BY <1>1, <2>1 DEF Frames
  <2> QED
    BY <2>2 DEF s
<1> HIDE DEF r
<1>4. Len(Copied.reading) = 1 /\ Copied.reading[1] = r
  BY <1>1, <1>3 DEF ReplaceAt
<1>5. Reader' = r
  BY <1>4 DEF Reader, Last
<1> QED
  BY <1>2, <1>4, <1>5

LEMMA InFileLines ==
  ASSUME Inv, status = "converting",
         Top.pc \in {"preprocess", "read", "parse", "convert"}
  PROVE  /\ InFile \in Sources
         /\ LinesOf(InFile) = CASE InFile = SwitchTmp ->
                                    <<Include(SwitchFile), Include(
                                        IF Top.script THEN ScriptTmp
                                                      ELSE Top.file)>>
                               [] InFile = ScriptTmp -> disk[compiled].lines
                               [] OTHER -> disk[InFile].lines
         /\ Len(LinesOf(InFile)) \in Nat
         /\ DOMAIN LinesOf(InFile) = 1..Len(LinesOf(InFile))
<1>1. frames \in Seq(Frames) /\ frames # <<>>
  BY DEF Inv, TypeOK
<1>2. FrameOK(Top)
  BY <1>1, TopFrame DEF Inv, Nesting
<1>3. Top.file \in Sources
  BY <1>2 DEF FrameOK
<1>4. InFile \in Sources
  BY <1>3 DEF InFile, Sources
<1>5. \A n \in Names : disk[n].lines \in Seq(Line)
  BY DEF Inv, TypeOK, File
<1>6. compiled \in Names
  BY DEF Inv, TypeOK
<1>7. SwitchTmp # ScriptTmp
  BY DEF SwitchTmp, ScriptTmp
<1>8. CASE InFile = SwitchTmp
  <2>1. LinesOf(InFile) = <<Include(SwitchFile), Include(
                              IF Top.script THEN ScriptTmp ELSE Top.file)>>
    BY <1>8, <1>7 DEF LinesOf
  <2> QED
    BY <1>4, <1>7, <1>8, <2>1
<1>9. CASE InFile = ScriptTmp
  <2>1. LinesOf(InFile) = disk[compiled].lines
    BY <1>9, <1>7 DEF LinesOf
  <2> QED
    BY <1>4, <1>5, <1>6, <1>7, <1>9, <2>1
<1>10. CASE InFile \notin {SwitchTmp, ScriptTmp}
  <2>1. LinesOf(InFile) = disk[InFile].lines /\ InFile \in Names
    BY <1>4, <1>10 DEF LinesOf, Sources
  <2> QED
    BY <1>4, <1>5, <1>10, <2>1
<1> QED
  BY <1>8, <1>9, <1>10

LEMMA ReadStep ==
  ASSUME Inv, StackInv, OutputInv, StreamInv, ReadInv, [Next]_vars
  PROVE  ReadInv'
<1>0. disk' = disk /\ \A n : OutputName(n)' = OutputName(n)
  BY SameDisk, SameNames
<1> USE DEF commandLine, tempVars, scriptVars
<1>1. CASE status' # "converting"
  <2>1. status' = "start" => ParseArgument \/ UNCHANGED vars
    <3>1. Stage => status = "converting"
      BY DEF Stage, BeginWrite, BeginWriteFails, NotTvf, CheckFails,
         ConvertToTrs, CompileFails, Check, Preprocess, ReadLine,
         ReadDirective, ReadInclude, IncludeAgain, IncludeMissing,
         IncludedTvfFails, IncludeFile, EndOfFile, MacroFails, ParseMacros,
         Warn, ConvertFails, Convert, Report, ProcessIncludeFile,
         StackOverflow, Return, Registers, LinesLeft, At
    <3>2. Inner \/ BeginWrite \/ Check => status' = "converting"
      BY InnerSteps, OuterSteps DEF BeginWrite, Check
    <3>3. Fails => status' # "start"
      BY FailSteps
    <3>4. NotTvf \/ ConvertToTrs \/ CompileFails \/ Return => status' # "start"
      BY <3>1, Stages2, ToCaller DEF NotTvf, ConvertToTrs, CompileFails, Return
    <3>5. Report \/ ProcessIncludeFile \/ StackOverflow => status' # "start"
      BY DEF Report, ProcessIncludeFile, StackOverflow, At
    <3>6. Main \/ OnConvert \/ HandleThrow => status' # "start"
      BY DEF Main, OnConvert, HandleThrow
    <3> QED
      BY <3>2, <3>3, <3>4, <3>5, <3>6, Stages2 DEF Next, Step, Halted
  <2> QED
    BY <1>1, <2>1 DEF ParseArgument, vars, ReadInv
<1>2. CASE status' = "converting" /\ ~opt'.oi
  BY <1>2 DEF ReadInv
<1> SUFFICES ASSUME status' = "converting", opt'.oi
             PROVE  ReadInv'
  BY <1>1, <1>2
<1>3. CASE UNCHANGED vars
  <2>1. UNCHANGED <<disk, opt, status, frames, output, compiled>>
    BY <1>3 DEF vars
  <2>2. Top' = Top
    BY <2>1 DEF Top
  <2>3. LinesOf(InFile)' = LinesOf(InFile) /\ InFile' = InFile
    BY <2>1, <2>2, SameSource
  <2>4. \A n : (Listed(n)' <=> Listed(n)) /\ (isTVFRule(n)' <=> isTVFRule(n))
    BY <1>0, <2>2, SameNames DEF Listed
  <2> QED
    BY <2>1, <2>2, <2>3, <2>4 DEF ReadInv, Writing, Reader
<1>4. CASE Main
  <2>1. frames' = <<Frame(Deck, OutFile, opt.sf, 0)>> /\ output' = output
        /\ status = "start"
    BY <1>4 DEF Main
  <2>2. Top' = Frame(Deck, OutFile, opt.sf, 0)
    BY <2>1 DEF Top, Last
  <2>3. Top'.pc = "begin" /\ Top'.includes = <<>>
    BY <2>2 DEF Frame
  <2> QED
    BY <2>1, <2>3 DEF ReadInv, Writing
<1>5. CASE ProcessIncludeFile
  <2>1. Top' = Frame(InputName(Top.includes[Top.next]),
                     Top.includes[Top.next], FALSE, globalLineNo)
        /\ Len(frames') = Len(frames) + 1
        /\ Len(frames) \in Nat \ {0}
    BY <1>5, Nested, Stages DEF ProcessIncludeFile
  <2>2. Top'.pc = "begin" /\ Top'.includes = <<>> /\ Len(frames') # 1
    BY <2>1 DEF Frame
  <2> QED
    BY <2>2 DEF ReadInv, Writing
<1>6. CASE NotTvf \/ ConvertToTrs \/ CompileFails \/ Return
  <2>1. status = "converting" /\ \E files : Leave(files)
    BY <1>6 DEF NotTvf, ConvertToTrs, CompileFails, Return, At
  <2>2. Top'.pc = "includes"
    BY <2>1, ToCaller
  <2> QED
    BY <2>2 DEF ReadInv, Writing
<1>7. CASE Report
  <2>1. Top'.pc = "includes"
    BY <1>7, OuterSteps
  <2> QED
    BY <2>1 DEF ReadInv, Writing
<1>8. CASE Inner \/ BeginWrite \/ Check
  <2>1. PICK f \in Frames :
          /\ SetTop(f)
          /\ f.file = Top.file /\ f.out = Top.out /\ f.sf = Top.sf
          /\ f.script = Top.script \/ Check
          /\ f.includes = Top.includes \/ ReadInclude
    BY <1>8, FrameKept
  <2>2. status = "converting" /\ opt' = opt
    BY <1>8, InnerSteps DEF BeginWrite, Check, At
  <2>3. /\ frames \in Seq(Frames) /\ frames # <<>> /\ Top' = f
        /\ Len(frames') = Len(frames)
    BY <2>1, <2>2, SetFrame DEF Inv, TypeOK
  <2>4. CASE BeginWrite
    <3>1. Top.pc = "begin" /\ Top'.pc = "check" /\ ~outStream.open
      <4>1. Top.pc = "begin" /\ Top'.pc = "check"
        BY <2>4, OuterSteps
      <4> QED
        BY <2>2, <4>1 DEF StreamInv, Between
    <3>2. DOMAIN output' = DOMAIN output \cup {Top.out}
      BY <2>4, <3>1 DEF BeginWrite, Emptied
    <3>3. Top'.includes = <<>> /\ Top'.out = Top.out
      BY <2>1, <2>2, <2>3, <2>4, <3>1 DEF ReadInv, BeginWrite, ReadInclude,
         LinesLeft, At
    <3> QED
      BY <2>2, <2>3, <3>1, <3>2, <3>3 DEF ReadInv, Writing
  <2>5. CASE Check
    <3>1. Top.pc = "check" /\ Top'.pc = "preprocess" /\ output' = output
      BY <2>5, OuterSteps DEF Check
    <3>2. Top'.includes = <<>> /\ Top'.out = Top.out /\ Top'.file = Top.file
      BY <2>1, <2>2, <2>3, <3>1 DEF ReadInv, ReadInclude, LinesLeft, At
    <3>3. Top'.script <=> isTVFRule(Top.file)
      <4>1. Top' = [Top EXCEPT !.script = isTVFRule(Top.file),
                               !.pc = "preprocess"]
        BY <2>3, <2>5, SetFrame DEF Check
      <4>2. isTVFRule(Top.file) \in BOOLEAN /\ Top \in Frames
        BY <2>3, TopFrame DEF isTVFRule
      <4> QED
        BY <4>1, <4>2 DEF Frames
    <3>4. isTVFRule(Top.file) => compiled' = Top.file
      BY <2>5 DEF Check
    <3>5. \A n : isTVFRule(n)' <=> isTVFRule(n)
      BY <1>0, SameNames
    <3> QED
      BY <2>2, <2>3, <3>1, <3>2, <3>3, <3>4, <3>5 DEF ReadInv, Writing
  <2>6. CASE Inner
    <3>1. (~Check /\ output' = output) \/ Convert
      BY <2>6, InnerSteps, OuterSteps DEF Inner, Preprocess, ReadLine,
         ReadInclude, IncludeMissing, Registers, IncludeFile, EndOfFile,
         ParseMacros, Warn
    <3>2. CASE Convert
      <4>1. Top'.pc = "report"
        BY <2>6, <3>2, StagesPassed
      <4> QED
        BY <4>1 DEF ReadInv, Writing
    <3>3. /\ ~Check /\ compiled' = compiled /\ ~IncludeFile /\ ~IncludeMissing
      <4>1. ~Check
        BY <2>6, InnerSteps, OuterSteps
      <4> QED
        BY <2>2, <2>6, <4>1 DEF Inner, Preprocess, ReadLine, ReadInclude,
           IncludeMissing, Registers, IncludeFile, EndOfFile, ParseMacros,
           Warn, Convert
    <3>4. /\ Top'.file = Top.file /\ Top'.sf = Top.sf
          /\ Top'.out = Top.out /\ Top'.script = Top.script
          /\ InFile' = InFile /\ LinesOf(InFile)' = LinesOf(InFile)
          /\ \A n : isTVFRule(n)' <=> isTVFRule(n)
      BY <1>0, <2>1, <2>3, <3>3, SameSource, SameNames
    <3>5. /\ Top'.script <=> isTVFRule(Top.file)
          /\ Top'.script => compiled' = Top.file
      <4>1. Top.pc \in {"preprocess", "read", "parse", "convert"}
        BY <2>6, InnerSteps
      <4> QED
        BY <2>2, <3>3, <3>4, <4>1 DEF ReadInv
    <3>6. CASE ~Convert
      <4>1. Writing
        BY <2>2, <2>6, InnerSteps DEF Writing
      <4>2. Len(frames) = 1 => DOMAIN output' = {Top'.out}
        BY <2>2, <3>1, <3>4, <3>6, <4>1 DEF ReadInv
      <4>3. CASE Preprocess
        <5>1. Top'.pc = "read"
          BY <2>6, <4>3, StagesPassed
        <5>2. Top'.reading = <<Opened(InFile, InFile)>>
          <6>1. Top' = [Top EXCEPT !.pc = "read",
                            !.reading = <<Opened(InFile, InFile)>>]
            BY <2>3, <4>3, SetFrame DEF Preprocess
          <6>2. Top \in Frames
            BY <2>3, TopFrame
          <6> QED
            BY <6>1, <6>2 DEF Frames
        <5>3. /\ Len(Top'.reading) = 1 /\ Reader'.source = InFile
              /\ Reader'.line = 1
          BY <5>2 DEF Reader, Last, Opened
        <5>4. \A k \in DOMAIN LinesOf(InFile) : ~(k < 1)
          <6>1. Top.pc = "preprocess"
            BY <2>6, <4>3, StagesPassed
          <6>2. DOMAIN LinesOf(InFile) = 1..Len(LinesOf(InFile))
            BY <2>2, <6>1, InFileLines
          <6> QED
            BY <6>2
        <5> QED
          BY <2>3, <3>4, <3>5, <4>2, <5>1, <5>3, <5>4 DEF ReadInv, Writing
      <4>4. CASE ReadLine \/ ReadInclude
        <5>1. Top.pc = "read" /\ Top'.pc = "read" /\ LinesLeft
          BY <2>6, <4>4, StagesPassed DEF ReadLine, ReadInclude
        <5>2. /\ Len(Top.reading) = 1 /\ Reader.source = InFile
              /\ \A k \in DOMAIN LinesOf(InFile) :
                   k < Reader.line /\ LinesOf(InFile)[k].kind = "include" =>
                     Listed(LinesOf(InFile)[k].target)
          BY <2>2, <5>1 DEF ReadInv
        <5>3. Top'.reading = Copied.reading
          <6>1. Copied \in Frames
            BY <5>1, CopiedFrame
          <6>2. CASE ReadLine
            BY <2>3, <6>2, SetFrame DEF ReadLine
          <6>3. CASE ReadInclude
            <7>1. Top' = [Copied EXCEPT !.includes =
                            Append(@, OutputName(NextLine.target))]
              BY <2>3, <6>3, SetFrame DEF ReadInclude
            <7> QED
              BY <6>1, <7>1 DEF Frames
          <6> QED
            BY <4>4, <6>2, <6>3
        <5>4. /\ Len(Top'.reading) = 1
              /\ Reader'.source = InFile
              /\ Reader'.line = Reader.line + 1
          BY <5>1, <5>2, <5>3, CopiedReader
        <5>5. NextLine = LinesOf(InFile)[Reader.line]
          BY <5>2 DEF NextLine
        <5>6. /\ \A n : Listed(n) => Listed(n)'
              /\ \A m : NextLine.kind = "include" /\ m = NextLine.target
                     => Listed(m)'
          <6>1. CASE ReadLine
            <7>1. Top'.includes = Top.includes
              BY <2>1, <2>3, <6>1 DEF ReadLine, ReadInclude
            <7>2. NextLine.kind # "include"
              BY <6>1 DEF ReadLine
            <7> QED
              BY <1>0, <7>1, <7>2 DEF Listed
          <6>2. CASE ReadInclude
            <7>1. Copied \in Frames /\ Copied.includes = Top.includes
              BY <5>1, CopiedFrame
            <7>2. Top' = [Copied EXCEPT !.includes =
                            Append(@, OutputName(NextLine.target))]
              BY <2>3, <6>2, SetFrame DEF ReadInclude
            <7> DEFINE q == OutputName(NextLine.target)
            <7>3. Top'.includes = Append(Top.includes, q)
              BY <7>1, <7>2 DEF Frames
            <7>4. Top.includes \in Seq(Path)
              BY <7>1 DEF Frames
            <7>5. q \in Path
              <8>1. NextLine \in Line
                BY <2>2, <5>1, ReaderType DEF At, LinesLeft
              <8> QED
                BY <8>1, Paths DEF Line
            <7> HIDE DEF q
            <7>6. /\ Top'.includes[Len(Top.includes) + 1] = q
                  /\ Len(Top.includes) + 1 \in DOMAIN Top'.includes
                  /\ \A j \in DOMAIN Top.includes :
                       /\ j \in DOMAIN Top'.includes
                       /\ Top'.includes[j] = Top.includes[j]
              BY <7>3, <7>4, <7>5
            <7>7. \A n : Listed(n) => Listed(n)'
              BY <1>0, <7>6 DEF Listed
            <7>8. \A n : OutputName(n) = q => Listed(n)'
              BY <1>0, <7>6 DEF Listed
            <7> QED
              BY <7>7, <7>8 DEF q
          <6> QED
            BY <4>4, <6>1, <6>2
        <5>7. ASSUME NEW k \in DOMAIN LinesOf(InFile), k < Reader.line + 1,
                     LinesOf(InFile)[k].kind = "include",
                     NEW m, m = LinesOf(InFile)[k].target
              PROVE  Listed(m)'
          <6>1. k \in Nat /\ Reader.line \in Nat
            <7>1. DOMAIN LinesOf(InFile) = 1..Len(LinesOf(InFile))
              BY <2>2, <5>1, InFileLines
            <7>2. Reader.line \in Nat \ {0}
              BY <5>1, ReaderType DEF LinesLeft, Readers
            <7> QED
              BY <7>1, <7>2
          <6>2. CASE k < Reader.line
            BY <5>2, <5>6, <5>7, <6>2
          <6>3. CASE k = Reader.line
            BY <5>5, <5>6, <5>7, <6>3
          <6> QED
            BY <5>7, <6>1, <6>2, <6>3
        <5> QED
          BY <2>3, <3>4, <3>5, <4>2, <5>1, <5>4, <5>7 DEF ReadInv, Writing
      <4>5. CASE EndOfFile
        <5>1. Top.pc = "read" /\ Top'.pc = IF Len(Top.reading) = 1 THEN "parse"
                                                                  ELSE "read"
          BY <2>6, <4>5, StagesPassed
        <5>2. /\ Len(Top.reading) = 1 /\ Reader.source = InFile
              /\ \A k \in DOMAIN LinesOf(InFile) :
                   k < Reader.line /\ LinesOf(InFile)[k].kind = "include" =>
                     Listed(LinesOf(InFile)[k].target)
          BY <2>2, <5>1 DEF ReadInv
        <5>3. /\ DOMAIN LinesOf(InFile) = 1..Len(LinesOf(InFile))
              /\ Len(LinesOf(InFile)) \in Nat
          BY <2>2, <5>1, InFileLines
        <5>4. Reader.line \in Nat
          BY <2>2, <5>1, ReaderType DEF At, Readers
        <5>5. ~(Reader.line <= Len(LinesOf(InFile)))
          BY <2>2, <4>5, <5>1, <5>2 DEF EndOfFile, LinesLeft, At
        <5>6. \A k \in DOMAIN LinesOf(InFile) : k < Reader.line
          BY <5>3, <5>4, <5>5
        <5>7. Top'.includes = Top.includes
          BY <2>1, <2>3, <3>3, <4>5, <5>5, <5>2 DEF ReadInclude, LinesLeft
        <5>8. \A n : Listed(n) => Listed(n)'
          BY <1>0, <5>7 DEF Listed
        <5>9. \A k \in DOMAIN LinesOf(InFile) : \A m :
                LinesOf(InFile)[k].kind = "include"
                  /\ m = LinesOf(InFile)[k].target => Listed(m)'
          BY <5>2, <5>6, <5>8
        <5> QED
          BY <2>3, <3>4, <3>5, <4>2, <5>1, <5>2, <5>9 DEF ReadInv, Writing
      <4>6. CASE ParseMacros \/ Warn
        <5>1. Top.pc \in {"parse", "convert"} /\ Top'.pc = "convert"
          BY <2>6, <4>6, StagesPassed
        <5>2. Top'.includes = Top.includes
          BY <2>1, <2>3, <5>1 DEF ReadInclude, LinesLeft, At
        <5>3. \A n : Listed(n) => Listed(n)'
          BY <1>0, <5>2 DEF Listed
        <5>4. \A k \in DOMAIN LinesOf(InFile) :
                LinesOf(InFile)[k].kind = "include" =>
                  Listed(LinesOf(InFile)[k].target)
          BY <2>2, <5>1 DEF ReadInv
        <5> QED
          BY <2>3, <3>4, <3>5, <4>2, <5>1, <5>3, <5>4 DEF ReadInv, Writing
      <4> QED
        BY <2>6, <3>3, <3>6, <4>3, <4>4, <4>5, <4>6 DEF Inner
    <3> QED
      BY <3>2, <3>6
  <2> QED
    BY <1>8, <2>4, <2>5, <2>6
<1> QED
  BY <1>3, <1>4, <1>5, <1>6, <1>7, <1>8, Stages2, FailSteps
  DEF Next, Step, Halted, ParseArgument, HandleThrow, StackOverflow, OnConvert,
      Inv, TypeOK, Options

LEMMA ReadOK == Spec => []ReadInv
<1>1. Init => ReadInv
  BY DEF Init, ReadInv
<1>2. Inv /\ StackInv /\ OutputInv /\ StreamInv /\ ReadInv /\ [Next]_vars
      => ReadInv'
  BY ReadStep
<1> QED
  BY <1>1, <1>2, Invariant, StackOK, OutputOK, StreamsOK, PTL DEF Spec

\* What is queued stays so while the innermost execute() goes on.
LEMMA KeptQueue ==
  ASSUME Inv, status = "converting", NEW f \in Frames, SetTop(f),
         f.next = Top.next,
         \/ f.includes = Top.includes
         \/ \E q \in Path : f.includes = Append(Top.includes, q),
         NEW p, Queued(p)
  PROVE  Queued(p)'
<1>1. frames \in Seq(Frames) /\ frames # <<>>
  BY DEF Inv, TypeOK
<1>0. PICK i \in DOMAIN frames : \E k \in DOMAIN frames[i].includes :
        k >= frames[i].next /\ frames[i].includes[k] = p
  BY DEF Queued
<1>2. PICK k \in DOMAIN frames[i].includes :
        k >= frames[i].next /\ frames[i].includes[k] = p
  BY <1>0
<1>3. /\ DOMAIN frames' = DOMAIN frames /\ Top' = f
      /\ \A j \in DOMAIN frames : j < Len(frames) => frames'[j] = frames[j]
      /\ frames' \in Seq(Frames) /\ Len(frames') = Len(frames)
  BY <1>1, TopSet
<1>4. CASE i < Len(frames)
  BY <1>2, <1>3, <1>4 DEF Queued
<1>5. CASE i = Len(frames)
  <2>1. frames[i] = Top /\ frames'[i] = f /\ i \in DOMAIN frames'
    BY <1>1, <1>3, <1>5 DEF Top, Last
  <2>2. Top \in Frames /\ Top.includes \in Seq(Path)
    BY <1>1, TopFrame DEF Frames
  <2>3. k \in DOMAIN f.includes /\ f.includes[k] = Top.includes[k]
    BY <1>2, <2>1, <2>2
  <2> QED
    BY <1>2, <2>1, <2>3 DEF Queued
<1> QED
  BY <1>1, <1>2, <1>4, <1>5

\* The claims about a name, before and after a step.
LEMMA NextDue ==
  ASSUME disk' = disk, NEW n, NEW q, q = OutputName(n)
  PROVE  /\ Due(n) <=> Queued(q) \/ Current(q) \/ Settled(n)
         /\ Due(n)' <=> Queued(q)' \/ Current(q)' \/ Settled(n)'
         /\ Settled(n) <=> /\ q \in DOMAIN output
                           /\ output[q] = IF Bad(n) THEN Partial ELSE n
         /\ Settled(n)' <=> /\ q \in DOMAIN output'
                            /\ output'[q] = IF Bad(n) THEN Partial ELSE n
         /\ Kept(n)  <=> Queued(q) \/ Current(q) \/ IncludesDue(n)
         /\ Kept(n)' <=> Queued(q)' \/ Current(q)' \/ IncludesDue(n)'
<1>1. OutputName(n)' = q /\ ((StateOf(n) = "badTvf")' <=> Bad(n))
  BY SameNames, TvfRule
<1>2. StateOf(n) = "badTvf" <=> Bad(n)
  BY TvfRule
<1> QED
  BY <1>1, <1>2 DEF Due, Settled, Kept, Queued, Current

LEMMA NextIncludes ==
  ASSUME disk' = disk, NEW file,
         ASSUME NEW i \in DOMAIN disk[file].lines, NEW n,
                disk[file].lines[i].kind = "include",
                n = disk[file].lines[i].target
         PROVE  Due(n)'
  PROVE  IncludesDue(file)'
<1> DEFINE line(i) == disk[file].lines[i]
<1>1. \A i \in DOMAIN disk[file].lines : \A n :
        line(i).kind = "include" /\ n = line(i).target => Due(n)'
  OBVIOUS
<1> QED
  BY <1>1 DEF IncludesDue

\* A step that keeps what is promised.
LEMMA PromiseKept ==
  ASSUME Inv, PromiseInv, disk' = disk, opt' = opt, status = "converting",
         \A n \in Sources : Due(n) => Due(n)',
         \A n \in Names : ~Bad(n) => \A q : q = OutputName(n)
           /\ (Queued(q) \/ Current(q)) => Kept(n)',
         \A p \in DOMAIN output' : \A n \in Names : output'[p] = n =>
           \/ p \in DOMAIN output /\ output[p] = n
           \/ ~Bad(n) /\ Kept(n)'
  PROVE  PromiseInv'
<1> SUFFICES ASSUME Ordinary', NEW p \in DOMAIN output', NEW n \in Names,
                    output'[p] = n
             PROVE  ~Bad(n)' /\ Kept(n)'
  BY DEF PromiseInv
<1>1. Ordinary /\ (Bad(n)' <=> Bad(n))
  BY SameNames DEF Ordinary
<1>2. CASE p \in DOMAIN output /\ output[p] = n
  <2>1. ~Bad(n) /\ Kept(n)
    BY <1>1, <1>2 DEF PromiseInv
  <2>2. CASE IncludesDue(n)
    <3>1. \A i \in DOMAIN disk[n].lines : disk[n].lines[i] \in Line
      BY DEF Inv, TypeOK, File
    <3>2. ASSUME NEW i \in DOMAIN disk[n].lines, NEW m,
                 disk[n].lines[i].kind = "include",
                 m = disk[n].lines[i].target
          PROVE  Due(m)'
      BY <2>2, <3>1, <3>2 DEF IncludesDue, Line
    <3>3. IncludesDue(n)'
      BY <3>2, NextIncludes
    <3> QED
      BY <1>1, <2>1, <3>3 DEF Kept
  <2> QED
    BY <1>1, <2>1, <2>2 DEF Kept
<1> QED
  BY <1>1, <1>2

LEMMA Deeper ==
  \A n \in Nat \ {0} : n > 1 \/ n = 1
OBVIOUS

\* While the innermost execute() goes on and nothing is written.
LEMMA KeptPromise ==
  ASSUME Inv, PromiseInv, disk' = disk, opt' = opt, output' = output,
         status = "converting", status' = "converting",
         NEW f \in Frames, SetTop(f), f.out = Top.out, f.next = Top.next,
         \/ f.includes = Top.includes
         \/ \E q \in Path : f.includes = Append(Top.includes, q),
         Top.pc \in Active => f.pc \in Active
  PROVE  PromiseInv'
<1>1. \A q : Queued(q) => Queued(q)'
  BY KeptQueue
<1>2. frames \in Seq(Frames) /\ frames # <<>>
  BY DEF Inv, TypeOK
<1>3. \A q : Current(q) => Current(q)'
  BY <1>2, SetFrame DEF Current
<1>4. ASSUME NEW n \in Sources, NEW q, q = OutputName(n)
      PROVE  /\ Due(n) => Due(n)'
             /\ Queued(q) \/ Current(q) => Kept(n)'
  BY <1>1, <1>3, <1>4, NextDue
<1>5. \A n \in Sources : Due(n) => Due(n)'
  BY <1>4
<1>6. \A n \in Names : \A q : q = OutputName(n)
        /\ (Queued(q) \/ Current(q)) => Kept(n)'
  BY <1>4 DEF Sources
<1> QED
  BY <1>5, <1>6, PromiseKept

\* The conversion of a file, or of the deck, is written: each of its includes
\* is in the list.
LEMMA ConvertedIncludes ==
  ASSUME Inv, ReadInv, opt.oi, At("convert"), Top.next = 1,
         Top.file \in Names, ~Top.sf
  PROVE  \A i \in DOMAIN disk[Top.file].lines :
           disk[Top.file].lines[i].kind = "include" =>
             Queued(OutputName(disk[Top.file].lines[i].target))
<1>1. /\ Top.script <=> isTVFRule(Top.file)
      /\ Top.script => compiled = Top.file
      /\ \A k \in DOMAIN LinesOf(InFile) :
           LinesOf(InFile)[k].kind = "include" =>
             Listed(LinesOf(InFile)[k].target)
  BY DEF ReadInv, At
<1>2. LinesOf(InFile) = disk[Top.file].lines
  <2>1. Top.file # SwitchTmp /\ Top.file # ScriptTmp /\ SwitchTmp # ScriptTmp
    BY RunConstants DEF RunConstants, SwitchTmp, ScriptTmp
  <2> QED
    BY <1>1, <2>1 DEF InFile, LinesOf
<1>3. /\ frames \in Seq(Frames) /\ Len(frames) \in DOMAIN frames
      /\ Top = frames[Len(frames)] /\ Top \in Frames
  BY Stages, TopFrame
<1>4. \A q : (\E j \in DOMAIN Top.includes : Top.includes[j] = q) => Queued(q)
  <2>1. \A j \in DOMAIN Top.includes : j >= 1
    <3>1. Top.includes \in Seq(Path)
      BY <1>3 DEF Frames
    <3> QED
      BY <3>1
  <2> QED
    BY <1>3, <2>1 DEF Queued
<1> QED
  BY <1>1, <1>2, <1>4 DEF Listed

LEMMA ConvertPromise ==
  ASSUME Inv, StackInv, OutputInv, ReadInv, PromiseInv, Convert
  PROVE  PromiseInv'
<1> SUFFICES ASSUME Ordinary' PROVE PromiseInv'
  BY DEF PromiseInv
<1> USE DEF commandLine
<1>1. /\ status = "converting" /\ Top.pc = "convert" /\ At("convert")
      /\ disk' = disk /\ opt' = opt /\ status' = "converting"
  BY DEF Convert, At
<1>2. Ordinary
  BY <1>1, SameNames DEF Ordinary
<1>3. /\ frames \in Seq(Frames) /\ frames # <<>> /\ Top \in Frames
      /\ Len(frames) \in Nat \ {0} /\ Len(frames) \in DOMAIN frames
      /\ Top = frames[Len(frames)] /\ Top.file \in Sources
  BY <1>1, Stages, TopFrame DEF FrameOK
<1>4. Top'.pc = "report" /\ \A q : Queued(q) => Queued(q)'
  <2> DEFINE f == [Top EXCEPT !.pc = "report"]
  <2>1. /\ f \in Frames /\ f.next = Top.next /\ f.includes = Top.includes
        /\ f.pc = "report"
    BY <1>3 DEF Frames
  <2>2. SetTop(f)
    BY DEF Convert, Goto
  <2> HIDE DEF f
  <2> QED
    BY <1>1, <1>3, <2>1, <2>2, KeptQueue, SetFrame
<1>5. /\ Top.out \in DOMAIN output
      /\ DOMAIN output' = DOMAIN output
      /\ output'[Top.out] = Top.file
      /\ \A p \in DOMAIN output : p # Top.out => output'[p] = output[p]
  <2>1. outStream.open /\ outStream.path = Top.out /\ Top.out \in DOMAIN output
    BY <1>1 DEF OutputInv, Writing
  <2> QED
    BY <2>1 DEF Convert
<1>6. FrameNames(Top) /\ (Len(frames) > 1 => IncludeFrame(Top))
  BY <1>3 DEF StackInv
<1>7. Top.next = 1 /\ ~Bad(Top.file)
  BY <1>1, <1>6 DEF FrameNames
<1>8. ASSUME NEW n \in Names, n = Top.file, ~Top.sf
      PROVE  IncludesDue(n)'
  <2>1. \A i \in DOMAIN disk[Top.file].lines :
          disk[Top.file].lines[i].kind = "include" =>
            Queued(OutputName(disk[Top.file].lines[i].target))
    BY <1>1, <1>2, <1>7, <1>8, ConvertedIncludes DEF Ordinary
  <2>2. ASSUME NEW i \in DOMAIN disk[n].lines, NEW m,
               disk[n].lines[i].kind = "include", m = disk[n].lines[i].target
        PROVE  Due(m)'
    <3>1. PICK q : q = OutputName(m)
      OBVIOUS
    <3>2. Queued(q)
      BY <1>8, <2>1, <2>2, <3>1
    <3> QED
      BY <1>1, <1>4, <3>1, <3>2, NextDue
  <2> QED
    BY <1>1, <2>2, NextIncludes
<1>9. CASE Len(frames) > 1
  <2>1. ~Top.sf /\ Top.file = InputName(Top.out)
    BY <1>6, <1>9 DEF IncludeFrame
  <2>2. \A n \in Sources : OutputName(n) = Top.out => n = Top.file
    BY <1>2, <2>1, NameRecovered DEF Ordinary
  <2>3. ASSUME NEW n \in Sources, NEW q, q = OutputName(n)
        PROVE  Due(n) => Due(n)'
    <3>1. CASE q = Top.out
      <4>1. n = Top.file
        BY <2>2, <2>3, <3>1
      <4>2. Settled(n)'
        BY <1>1, <1>5, <1>7, <2>3, <3>1, <4>1, NextDue
      <4> QED
        BY <1>1, <2>3, <4>2, NextDue
    <3>2. CASE q # Top.out
      <4>1. ~Current(q)
        BY <3>2 DEF Current
      <4> QED
        BY <1>1, <1>4, <1>5, <2>3, <3>2, <4>1, NextDue
    <3> QED
      BY <3>1, <3>2
  <2>4. ASSUME NEW n \in Names, NEW q, q = OutputName(n),
               Queued(q) \/ Current(q)
        PROVE  Kept(n)'
    <3>1. CASE Queued(q)
      BY <1>1, <1>4, <2>4, <3>1, NextDue
    <3>2. CASE Current(q)
      <4>1. n = Top.file
        BY <2>2, <2>4, <3>2 DEF Current, Sources
      <4> QED
        BY <1>1, <1>8, <2>1, <2>4, <4>1, NextDue
    <3> QED
      BY <2>4, <3>1, <3>2
  <2>5. ASSUME NEW p \in DOMAIN output', NEW n \in Names, output'[p] = n
        PROVE  \/ p \in DOMAIN output /\ output[p] = n
               \/ ~Bad(n) /\ Kept(n)'
    <3>1. CASE p = Top.out
      <4>1. n = Top.file
        BY <1>5, <2>5, <3>1
      <4>2. PICK q : q = OutputName(n)
        OBVIOUS
      <4> QED
        BY <1>1, <1>7, <1>8, <2>1, <4>1, <4>2, NextDue
    <3> QED
      BY <1>5, <2>5, <3>1
  <2>6. \A n \in Sources : Due(n) => Due(n)'
    BY <2>3
  <2>7. \A n \in Names : \A q : q = OutputName(n)
          /\ (Queued(q) \/ Current(q)) => Kept(n)'
    BY <2>4
  <2> QED
    BY <1>1, <2>5, <2>6, <2>7, PromiseKept
<1>10. CASE Len(frames) = 1
  <2>1. DOMAIN output = {Top.out}
    BY <1>1, <1>2, <1>10 DEF ReadInv, Writing, Ordinary
  <2>2. Top.file = Deck /\ Top.sf = opt.sf
    BY <1>2, <1>3, <1>10 DEF StackInv, Ordinary
  <2>3. Deck \in Names
    BY RunConstants DEF RunConstants
  <2>4. Kept(Deck)'
    <3>1. PICK q : q = OutputName(Deck)
      OBVIOUS
    <3>2. CASE ~Top.sf
      <4>1. IncludesDue(Deck)'
        BY <1>8, <2>2, <2>3, <3>2
      <4> QED
        BY <1>1, <3>1, <4>1, NextDue
    <3>3. CASE Top.sf
      <4>1. ~Top.script
        BY <1>1, <1>2, <2>2, <3>3 DEF ReadInv, Ordinary
      <4>2. LinesOf(InFile) = <<Include(SwitchFile), Include(Deck)>>
        BY <2>2, <3>3, <4>1 DEF LinesOf, InFile, SwitchTmp, ScriptTmp
      <4>3. /\ 2 \in DOMAIN LinesOf(InFile)
            /\ LinesOf(InFile)[2] = Include(Deck)
        BY <4>2
      <4>4. Listed(Deck)
        BY <1>1, <1>2, <4>3 DEF ReadInv, Ordinary, Include
      <4>5. Queued(q)
        <5>1. \A j \in DOMAIN Top.includes : j >= 1
          <6>1. Top.includes \in Seq(Path)
            BY <1>3 DEF Frames
          <6> QED
            BY <6>1
        <5> QED
          BY <1>3, <1>7, <3>1, <4>4, <5>1 DEF Listed, Queued
      <4> QED
        BY <1>1, <1>4, <3>1, <4>5, NextDue
    <3> QED
      BY <3>2, <3>3
  <2>5. ASSUME NEW p \in DOMAIN output'
        PROVE  output'[p] = Deck
    BY <1>5, <2>1, <2>2, <2>5
  <2>6. ~Bad(Deck)'
    BY <1>1, <1>7, <2>2, SameNames
  <2>7. ASSUME NEW n, n = Deck
        PROVE  ~Bad(n)' /\ Kept(n)'
    BY <2>4, <2>6, <2>7
  <2> QED
    BY <2>5, <2>7 DEF PromiseInv
<1>11. Len(frames) > 1 \/ Len(frames) = 1
  BY <1>3, Deeper
<1> QED
  BY <1>9, <1>10, <1>11

\* The file is opened, and what was in it is lost; but its conversion has
\* begun.
LEMMA BeginPromise ==
  ASSUME Inv, StreamInv, ReadInv, PromiseInv, BeginWrite
  PROVE  PromiseInv'
<1> SUFFICES ASSUME Ordinary' PROVE PromiseInv'
  BY DEF PromiseInv
<1> USE DEF commandLine
<1>1. /\ status = "converting" /\ Top.pc = "begin" /\ At("begin")
      /\ disk' = disk /\ opt' = opt /\ status' = "converting"
  BY DEF BeginWrite, At
<1>2. Ordinary
  BY <1>1, SameNames DEF Ordinary
<1>3. /\ frames \in Seq(Frames) /\ frames # <<>> /\ Top \in Frames
      /\ Len(frames) \in Nat \ {0}
  BY <1>1, Stages
<1>4. /\ Top'.pc = "check" /\ Top'.out = Top.out
      /\ Len(frames') = Len(frames)
      /\ \A q : Queued(q) => Queued(q)'
  <2> DEFINE f == [Top EXCEPT !.pc = "check"]
  <2>1. /\ f \in Frames /\ f.next = Top.next /\ f.includes = Top.includes
        /\ f.pc = "check" /\ f.out = Top.out
    BY <1>3 DEF Frames
  <2>2. SetTop(f)
    BY DEF BeginWrite, Goto
  <2> HIDE DEF f
  <2> QED
    BY <1>1, <1>3, <2>1, <2>2, KeptQueue, SetFrame
<1>5. output' = Emptied(Top.out)
  BY <1>1 DEF BeginWrite, StreamInv, Between
<1>6. \A n \in Names : n # Partial
  BY RunConstants DEF RunConstants, Partial
<1>7. CASE Len(frames) = 1
  <2>1. DOMAIN output = {}
    BY <1>1, <1>2, <1>7 DEF ReadInv, Ordinary
  <2> QED
    BY <1>5, <1>6, <2>1 DEF PromiseInv, Emptied
<1>8. CASE Len(frames) > 1
  <2>1. Current(Top.out)' /\ \A q : Current(q) => Current(q)'
    BY <1>1, <1>4, <1>8 DEF Current, Active
  <2>2. ASSUME NEW n \in Sources, NEW q, q = OutputName(n)
        PROVE  Due(n) => Due(n)'
    <3>1. CASE q = Top.out
      BY <1>1, <1>4, <1>8, <2>2, <3>1, NextDue DEF Current, Active
    <3>2. CASE q # Top.out
      <4>1. Settled(n) => Settled(n)'
        BY <1>1, <1>5, <2>2, <3>2, NextDue DEF Emptied
      <4> QED
        BY <1>1, <1>4, <2>1, <2>2, <4>1, NextDue
    <3> QED
      BY <3>1, <3>2
  <2>3. \A n \in Sources : Due(n) => Due(n)'
    BY <2>2
  <2>4. \A n \in Names : \A q : q = OutputName(n)
          /\ (Queued(q) \/ Current(q)) => Kept(n)'
    BY <1>1, <1>4, <2>1, NextDue
  <2>5. ASSUME NEW p \in DOMAIN output', NEW n \in Names, output'[p] = n
        PROVE  p \in DOMAIN output /\ output[p] = n
    BY <1>5, <1>6, <2>5 DEF Emptied
  <2> QED
    BY <1>1, <2>3, <2>4, <2>5, PromiseKept
<1>9. Len(frames) > 1 \/ Len(frames) = 1
  BY <1>3, Deeper
<1> QED
  BY <1>7, <1>8, <1>9

\* What a frame that is left had in its list is converted, unless its own
\* conversion has failed, and then it has listed nothing.
LEMMA LeavePromise ==
  ASSUME Inv, StackInv, OutputInv, ReadInv, PromiseInv, CompileFails \/ Return
  PROVE  PromiseInv'
<1> SUFFICES ASSUME Ordinary' PROVE PromiseInv'
  BY DEF PromiseInv
<1> USE DEF commandLine
<1>1. /\ status = "converting" /\ disk' = disk /\ opt' = opt
      /\ output' = output /\ frames' = Front(frames)
      /\ Return => Top.pc = "includes"
      /\ CompileFails => Top.pc = "check" /\ Bad(Top.file)
  BY TvfRule DEF CompileFails, Return, Leave, At
<1>2. Ordinary
  BY <1>1, SameNames DEF Ordinary
<1>3. /\ frames \in Seq(Frames) /\ frames # <<>> /\ Top \in Frames
      /\ Len(frames) \in Nat \ {0} /\ Len(frames) \in DOMAIN frames
      /\ Top = frames[Len(frames)]
  BY <1>1, TopFrame DEF Inv, TypeOK
<1>4. ~\E k \in DOMAIN Top.includes : k >= Top.next
  <2>1. CASE Return
    <3>1. /\ Top.includes \in Seq(Path) /\ Top.next \in Nat
      BY <1>3 DEF Frames
    <3>2. ~(Top.next <= Len(Top.includes))
      BY <2>1 DEF Return, MoreIncludes
    <3> QED
      BY <3>1, <3>2
  <2>2. CASE CompileFails
    BY <1>1, <1>2, <2>2 DEF ReadInv, Ordinary
  <2> QED
    BY <2>1, <2>2
<1>5. ASSUME NEW q, Queued(q)
      PROVE  Queued(q)'
  <2>1. PICK i \in DOMAIN frames : \E k \in DOMAIN frames[i].includes :
          k >= frames[i].next /\ frames[i].includes[k] = q
    BY <1>5 DEF Queued
  <2>2. i # Len(frames)
    BY <1>3, <1>4, <2>1
  <2>3. i \in DOMAIN frames' /\ frames'[i] = frames[i]
    BY <1>1, <1>3, <2>1, <2>2, Popped
  <2> QED
    BY <2>1, <2>3 DEF Queued
<1>6. CASE Len(frames) = 1 /\ CompileFails
  <2>1. DOMAIN output = {Top.out} /\ output[Top.out] = Partial
    BY <1>1, <1>2, <1>6 DEF ReadInv, Writing, OutputInv, Ordinary
  <2>2. \A n \in Names : n # Partial
    BY RunConstants DEF RunConstants, Partial
  <2> QED
    BY <1>1, <2>1, <2>2 DEF PromiseInv
<1>7. CASE Len(frames) > 1 \/ Return
  <2>1. ASSUME NEW n \in Sources, NEW q, q = OutputName(n), Current(q)
        PROVE  Bad(n) /\ Settled(n)'
    <3>1. CompileFails /\ Len(frames) > 1 /\ Top.out = q
      BY <1>1, <2>1 DEF Current, Active
    <3>2. Top.file = InputName(Top.out)
      BY <1>3, <3>1 DEF StackInv, IncludeFrame
    <3>3. n = Top.file
      BY <1>2, <2>1, <3>1, <3>2, NameRecovered DEF Ordinary
    <3>4. q \in DOMAIN output /\ output[q] = Partial
      BY <1>1, <3>1 DEF OutputInv, Writing
    <3> QED
      BY <1>1, <2>1, <3>1, <3>3, <3>4, NextDue
  <2>2. ASSUME NEW n \in Sources, NEW q, q = OutputName(n)
        PROVE  Due(n) => Due(n)'
    BY <1>1, <1>5, <2>1, <2>2, NextDue
  <2>3. \A n \in Sources : Due(n) => Due(n)'
    BY <2>2
  <2>4. \A n \in Names : ~Bad(n) => \A q : q = OutputName(n)
          /\ (Queued(q) \/ Current(q)) => Kept(n)'
    BY <1>1, <1>5, <2>1, NextDue DEF Sources
  <2> QED
    BY <1>1, <2>3, <2>4, PromiseKept
<1>8. Len(frames) > 1 \/ Len(frames) = 1
  BY <1>3, Deeper
<1> QED
  BY <1>6, <1>7, <1>8

\* The next file of the list is taken up.
LEMMA PushPromise ==
  ASSUME Inv, PromiseInv, ProcessIncludeFile
  PROVE  PromiseInv'
<1> USE DEF commandLine
<1> DEFINE q0 == Top.includes[Top.next]
           f  == [Top EXCEPT !.next = @ + 1]
<1>1. /\ status = "converting" /\ Top.pc = "includes" /\ status' = "converting"
      /\ disk' = disk /\ opt' = opt /\ output' = output
  BY DEF ProcessIncludeFile, At
<1>2. /\ frames \in Seq(Frames) /\ frames # <<>> /\ Top \in Frames
      /\ Len(frames) \in Nat \ {0} /\ Len(frames) \in DOMAIN frames
      /\ Top = frames[Len(frames)]
  BY <1>1, TopFrame DEF Inv, TypeOK
<1>3. f.includes = Top.includes /\ f.next = Top.next + 1
  BY NestedIncludes
<1>4. /\ Top'.out = q0 /\ Top'.pc = "begin"
      /\ Len(frames') = Len(frames) + 1
      /\ DOMAIN frames' = 1..(Len(frames) + 1)
      /\ frames'[Len(frames)] = f
      /\ \A i \in DOMAIN frames : i < Len(frames) => frames'[i] = frames[i]
  BY Nested
<1> HIDE DEF f
<1>5. ASSUME NEW q
      PROVE  /\ ~Current(q)
             /\ Queued(q) => Queued(q)' \/ Current(q)'
  <2>1. ~Current(q)
    BY <1>1 DEF Current, Active
  <2>2. ASSUME Queued(q) PROVE Queued(q)' \/ Current(q)'
    <3>1. PICK i \in DOMAIN frames : \E k \in DOMAIN frames[i].includes :
            k >= frames[i].next /\ frames[i].includes[k] = q
      BY <2>2 DEF Queued
    <3>2. PICK k \in DOMAIN frames[i].includes :
            k >= frames[i].next /\ frames[i].includes[k] = q
      BY <3>1
    <3>3. i \in DOMAIN frames'
      BY <1>2, <1>4
    <3>4. CASE i < Len(frames)
      BY <1>4, <3>2, <3>3, <3>4 DEF Queued
    <3>5. CASE i = Len(frames) /\ k = Top.next
      BY <1>1, <1>2, <1>4, <3>2, <3>5 DEF Current, Active
    <3>6. CASE i = Len(frames) /\ k # Top.next
      <4>1. k \in Nat /\ Top.next \in Nat
        BY <1>2, <3>6 DEF Frames
      <4>2. k >= f.next /\ k \in DOMAIN f.includes /\ f.includes[k] = q
        BY <1>2, <1>3, <3>2, <3>6, <4>1
      <4> QED
        BY <1>4, <3>3, <3>6, <4>2 DEF Queued
    <3> QED
      BY <1>2, <3>4, <3>5, <3>6
  <2> QED
    BY <2>1, <2>2
<1>6. ASSUME NEW n \in Sources, NEW q, q = OutputName(n)
      PROVE  /\ Due(n) => Due(n)'
             /\ Queued(q) \/ Current(q) => Kept(n)'
  BY <1>1, <1>5, <1>6, NextDue
<1>7. \A n \in Sources : Due(n) => Due(n)'
  BY <1>6
<1>8. \A n \in Names : \A q : q = OutputName(n)
        /\ (Queued(q) \/ Current(q)) => Kept(n)'
  BY <1>6 DEF Sources
<1> QED
  BY <1>1, <1>7, <1>8, PromiseKept

LEMMA PromiseStep ==
  ASSUME Inv, StackInv, OutputInv, StreamInv, ReadInv, PromiseInv, [Next]_vars
  PROVE  PromiseInv'
<1>0. disk' = disk
  BY SameDisk
<1> USE DEF commandLine, tempVars, scriptVars
<1>1. CASE UNCHANGED vars
  <2>1. /\ UNCHANGED <<disk, opt, status, frames, output>>
    BY <1>1 DEF vars
  <2>2. Top' = Top
    BY <2>1 DEF Top
  <2>3. /\ \A n : (OutputName(n)' = OutputName(n))
        /\ \A n : Bad(n)' <=> Bad(n)
        /\ Ordinary' <=> Ordinary
    BY <2>1, SameNames DEF Ordinary
  <2>4. \A q : (Queued(q)' <=> Queued(q)) /\ (Current(q)' <=> Current(q))
    BY <2>1, <2>2 DEF Queued, Current
  <2>5. \A n, q : q = OutputName(n) =>
          (Due(n) => Due(n)') /\ (Kept(n) /\ ~IncludesDue(n) => Kept(n)')
    BY <2>1, <2>4, NextDue
  <2>6. \A n : Due(n) => Due(n)'
    BY <2>5
  <2>7. \A n : IncludesDue(n) => IncludesDue(n)'
    <3> SUFFICES ASSUME NEW n, IncludesDue(n) PROVE IncludesDue(n)'
      OBVIOUS
    <3>1. ASSUME NEW i \in DOMAIN disk[n].lines, NEW m,
                 disk[n].lines[i].kind = "include",
                 m = disk[n].lines[i].target
          PROVE  Due(m)'
      BY <2>6, <3>1 DEF IncludesDue
    <3> QED
      BY <2>1, <3>1, NextIncludes
  <2>8. \A n : Kept(n) => Kept(n)'
    BY <2>5, <2>7 DEF Kept
  <2>9. ASSUME Ordinary, status \in {"converting", "returned"},
               NEW p \in DOMAIN output, NEW n \in Names, output[p] = n
        PROVE  ~Bad(n)' /\ Kept(n)'
    BY <2>3, <2>8, <2>9 DEF PromiseInv
  <2> QED
    BY <2>1, <2>3, <2>9 DEF PromiseInv
<1>2. CASE status' \notin {"converting", "returned"} \/ opt'.trs \/ ~opt'.oi
  BY <1>2 DEF PromiseInv, Ordinary
<1>3. CASE Main
  <2>1. DOMAIN output' = {}
    BY <1>3 DEF Main, ReadInv
  <2> QED
    BY <2>1 DEF PromiseInv
<1>4. CASE (Inner /\ ~Convert) \/ Check \/ (Report /\ status' = "converting")
  <2>1. PICK f \in Frames :
          /\ SetTop(f)
          /\ f.out = Top.out /\ f.next = Top.next
          /\ \/ f.includes = Top.includes
             \/ /\ ReadInclude
                /\ f.includes = Append(Top.includes, OutputName(NextLine.target))
    BY <1>4, FrameKept
  <2>2. status = "converting" /\ status' = "converting" /\ opt' = opt
    BY <1>4, InnerSteps DEF Check, Report, At
  <2>3. frames \in Seq(Frames) /\ frames # <<>> /\ Top' = f
    BY <2>1, <2>2, SetFrame DEF Inv, TypeOK
  <2>4. output' = output
    BY <1>4 DEF Inner, Preprocess, ReadLine, ReadInclude, IncludeMissing,
       Registers, IncludeFile, EndOfFile, ParseMacros, Warn, Check, Report
  <2>5. ReadInclude => OutputName(NextLine.target) \in Path
    <3>1. ReadInclude => At("read") /\ LinesLeft
      BY DEF ReadInclude, LinesLeft
    <3>2. ReadInclude => NextLine \in Line
      BY <3>1, ReaderType
    <3> QED
      BY <3>2, Paths DEF Line
  <2>6. Top.pc \in Active => f.pc \in Active
    <3>1. CASE Report
      BY <3>1 DEF Report, At, Active
    <3>2. CASE Check
      BY <2>3, <3>2, OuterSteps DEF Active
    <3>3. CASE Inner /\ ~Convert
      BY <2>3, <3>3, StagesPassed DEF Inner, Active
    <3> QED
      BY <1>4, <3>1, <3>2, <3>3
  <2> QED
    BY <1>0, <2>1, <2>2, <2>4, <2>5, <2>6, KeptPromise
<1>5. CASE NotTvf \/ ConvertToTrs
  <2>1. opt'.trs
    BY <1>5 DEF NotTvf, ConvertToTrs
  <2> QED
    BY <1>2, <2>1
<1>6. CASE Fails
  BY <1>2, <1>6, FailSteps
<1>7. CASE Report /\ status' # "converting"
  BY <1>2, <1>7 DEF Report, At, Goto
<1>8. CASE ParseArgument \/ HandleThrow \/ StackOverflow \/ OnConvert
  <2>1. CASE OnConvert
    <3>1. opt'.oi = FALSE
      BY <2>1 DEF OnConvert, Inv, TypeOK, Options
    <3> QED
      BY <1>2, <3>1
  <2> QED
    BY <1>2, <1>8, <2>1 DEF ParseArgument, HandleThrow, StackOverflow
<1> QED
  BY <1>1, <1>3, <1>4, <1>5, <1>6, <1>7, <1>8, ConvertPromise, BeginPromise,
     LeavePromise, PushPromise, Stages2 DEF Next, Step, Halted, Inner

LEMMA PromiseOK == Spec => []PromiseInv
<1>1. Init => PromiseInv
  BY DEF Init, PromiseInv
<1>2. Inv /\ StackInv /\ OutputInv /\ StreamInv /\ ReadInv /\ PromiseInv
        /\ [Next]_vars => PromiseInv'
  BY PromiseStep
<1> QED
  BY <1>1, <1>2, Invariant, StackOK, OutputOK, StreamsOK, ReadOK, PTL DEF Spec

\* Behind a run with -oi the files that the written conversions include are
\* converted.
THEOREM Converted == Spec => []AllConverted
<1>1. Inv /\ PromiseInv => AllConverted
  <2> SUFFICES ASSUME Inv, PromiseInv, status = "returned", Ordinary,
                      NEW p \in DOMAIN output, NEW n \in Names, output[p] = n,
                      NEW i \in DOMAIN disk[n].lines,
                      disk[n].lines[i].kind = "include",
                      NEW m, m = disk[n].lines[i].target
               PROVE  Settled(m)
    BY DEF AllConverted, Ordinary, Settled
  <2>1. frames = <<>>
    BY DEF Inv, Nesting
  <2>2. \A q : ~Queued(q) /\ ~Current(q)
    BY <2>1 DEF Queued, Current
  <2>3. IncludesDue(n)
    BY <2>2 DEF PromiseInv, Kept
  <2> QED
    BY <2>2, <2>3 DEF IncludesDue, Due
<1> QED
  BY <1>1, Invariant, PromiseOK, PTL
=============================================================================
