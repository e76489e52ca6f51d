------------------------- MODULE ConversionRunProofs -------------------------
(***************************************************************************)
(* Theorems about a process of svrf2pvrs, for every disk and command line, *)
(* any number of conversions in one window and any nesting of include      *)
(* files: types, which files are read, and the map of lines.               *)
(***************************************************************************)
EXTENDS ConversionRunProperties, ListLemmas

\* What a frame holds, by the stage it has come to.
FrameOK(f) ==
  /\ f.pc \notin {"begin", "check"} => f.file \in Sources
  /\ (f.pc = "read") <=> (f.reading # <<>>)
  /\ f.pc \in {"begin", "check", "preprocess"} => f.tokens = <<>>

Nesting ==
  /\ \A i \in DOMAIN frames : FrameOK(frames[i])
  /\ \A i \in DOMAIN frames : i < Len(frames) => frames[i].pc = "includes"
  /\ status \in {"start", "idle", "returned"} => frames = <<>>
  /\ frames # <<>> => frames[1].shift = 0

\* Windows convert one file at a time, as does everything but -oi, and -trs
\* goes no further than to the check.
ModeOK ==
  frames # <<>> =>
    /\ opt.gui => ~opt.oi /\ ~opt.trs
    /\ ~opt.oi => Len(frames) = 1 /\ Top.includes = <<>>
    /\ opt.trs => Len(frames) = 1 /\ Top.pc \in {"begin", "check"}

\* How far the lines are counted and mapped, by the stage of the innermost
\* frame: a nested one goes on where its caller's preprocessor has ended.
LinesOK ==
  /\ status = "start" => DOMAIN lineIndex = {}
  /\ status = "converting" =>
       /\ Top.pc \in {"begin", "check", "preprocess"} =>
            /\ DOMAIN lineIndex = 1..Top.shift
            /\ Len(frames) > 1 => Top.shift = globalLineNo
       /\ Top.pc \notin {"begin", "check", "preprocess"} =>
            DOMAIN lineIndex = 1..globalLineNo
       /\ Top.pc = "read" => globalLineNo = Top.shift + Len(Top.tokens)

OwnTemps == {Tmp, SwitchTmp, ScriptTmp}

\* Between conversions, and while none of its own is in use, the only
\* temporary file is the script of a TVF file; otherwise there are at most the
\* ones that have a name of their own, and those that are being read.
TempsOK ==
  /\ \/ status \in {"start", "idle", "returned"}
     \/ status = "converting" /\ Top.pc \in {"begin", "check", "preprocess",
                                             "report", "includes"}
     => temps \subseteq {ScriptTmp}
  /\ status \in {"converting", "thrown"} =>
       temps \subseteq OwnTemps \cup RemovedWith(Top.reading)

Inv == TypeOK /\ Nesting /\ ModeOK /\ LinesOK /\ TempsOK

-----------------------------------------------------------------------------
(***************************************************************************)
(* The stack of frames.                                                    *)
(***************************************************************************)
LEMMA TopFrame ==
  ASSUME frames \in Seq(Frames), frames # <<>>
  PROVE  /\ Len(frames) \in Nat \ {0}
         /\ Len(frames) \in DOMAIN frames
         /\ Top = frames[Len(frames)]
         /\ Top \in Frames
BY DEF Top, Last

LEMMA TopSet ==
  ASSUME frames \in Seq(Frames), frames # <<>>, NEW f \in Frames, SetTop(f)
  PROVE  /\ frames' \in Seq(Frames)
         /\ frames' # <<>>
         /\ Len(frames') = Len(frames)
         /\ DOMAIN frames' = DOMAIN frames
         /\ Top' = f
         /\ \A i \in DOMAIN frames : i < Len(frames) => frames'[i] = frames[i]
BY DEF SetTop, ReplaceAt, Top, Last

LEMMA LastOf ==
  ASSUME NEW S, NEW s \in Seq(S), s # <<>>
  PROVE  Last(s) \in S
BY DEF Last

LEMMA Pushed ==
  ASSUME NEW S, NEW s \in Seq(S), NEW e \in S
  PROVE  LET t == Append(s, e) IN
         /\ t \in Seq(S) /\ t # <<>>
         /\ Len(t) = Len(s) + 1
         /\ DOMAIN t = 1..(Len(s) + 1)
         /\ t[Len(s) + 1] = e
         /\ \A i \in DOMAIN s : i \in 1..Len(s) /\ t[i] = s[i]
OBVIOUS

LEMMA FrontOf ==
  ASSUME NEW S, NEW s \in Seq(S), s # <<>>
  PROVE  /\ Front(s) \in Seq(S)
         /\ Len(Front(s)) = Len(s) - 1
         /\ \A i \in 1..(Len(s) - 1) : Front(s)[i] = s[i]
         /\ (Front(s) = <<>>) <=> (Len(s) = 1)
<1> DEFINE n == Len(s) - 1
           t == SubSeq(s, 1, n)
<1>1. n \in Nat /\ Len(s) = n + 1
  OBVIOUS
<1>2. \A i \in 1..n : s[i] \in S
  BY <1>1
<1> HIDE DEF n
<1>3. /\ t \in Seq(S)
      /\ Len(t) = IF 1 <= n THEN n - 1 + 1 ELSE 0
      /\ \A i \in 1..(n - 1 + 1) : t[i] = s[1 + i - 1]
  BY <1>1, <1>2, SubSeqProperties
<1> HIDE DEF t
<1>4. Len(t) = n
  BY <1>1, <1>3
<1>5. \A i \in 1..n : t[i] = s[i]
  BY <1>1, <1>3
<1>6. (t = <<>>) <=> (n = 0)
  BY <1>1, <1>3, <1>4
<1>7. Front(s) = t
  BY DEF Front, t, n
<1>8. Len(s) - 1 = n
  BY DEF n
<1> QED
  BY <1>1, <1>3, <1>4, <1>5, <1>6, <1>7, <1>8

LEMMA Popped ==
  ASSUME frames \in Seq(Frames), frames # <<>>, frames' = Front(frames)
  PROVE  /\ frames' \in Seq(Frames)
         /\ Len(frames') = Len(frames) - 1
         /\ DOMAIN frames' = 1..(Len(frames) - 1)
         /\ \A i \in DOMAIN frames' :
              i \in DOMAIN frames /\ frames'[i] = frames[i]
         /\ frames' # <<>> => Top' = frames[Len(frames) - 1]
         /\ (frames' = <<>>) <=> (Len(frames) = 1)
<1>1. Len(frames) \in Nat \ {0} /\ DOMAIN frames = 1..Len(frames)
  OBVIOUS
<1>2. /\ frames' \in Seq(Frames)
      /\ Len(frames') = Len(frames) - 1
      /\ \A i \in 1..(Len(frames) - 1) : frames'[i] = frames[i]
      /\ (frames' = <<>>) <=> (Len(frames) = 1)
  BY FrontOf
<1>3. DOMAIN frames' = 1..(Len(frames) - 1)
  BY <1>2
<1> QED
  BY <1>1, <1>2, <1>3 DEF Top, Last

LEMMA Paths ==
  /\ Tmp \in Path /\ SwitchTmp \in Path /\ ScriptTmp \in Path
  /\ \A n \in Nat : Generated(n) \in Path
  /\ Partial \in Path
  /\ Sources \subseteq Path
  /\ \A n \in Path : OutputName(n) \in Path
<1>. DEFINE W == {".", "svrf2pvrs", "tmp", "switch", "tvf2svrf", "included",
                "trs", "pvrs"}
<1>a. W \subseteq Words
  BY RunConstants DEF RunConstants
<1>b. "." \in Words /\ "svrf2pvrs" \in Words /\ "tmp" \in Words /\ "switch" \in Words
      /\ "tvf2svrf" \in Words /\ "included" \in Words /\ "trs" \in Words /\ "pvrs" \in Words
  BY <1>a
<1>1. Tmp \in Path
  BY <1>b DEF Tmp, Path
<1>2. SwitchTmp \in Path
  BY <1>b DEF SwitchTmp, Path
<1>3. ScriptTmp \in Path
  BY <1>b DEF ScriptTmp, Path
<1>4. /\ \A n \in Nat : Generated(n) \in Path
      /\ Partial \in Path
  BY <1>b DEF Generated, Path, Partial
<1>5. Sources \subseteq Path
  BY <1>2, <1>3, RunConstants DEF RunConstants, Sources
<1>6. \A n \in Path : OutputName(n) \in Path
  BY <1>b DEF Path, OutputName
<1> QED
  BY <1>1, <1>2, <1>3, <1>4, <1>5, <1>6

\* The user's files do not have the names that are generated.
LEMMA NotGenerated ==
  ASSUME NEW name \in Names, NEW n \in Nat
  PROVE  Generated(n) # name
<1> SUFFICES ASSUME Generated(n) = name PROVE FALSE
  OBVIOUS
<1>1. /\ Len(Generated(0)) = 2 /\ Len(Generated(n)) = n + 2
      /\ \A i \in 1..2 : Generated(0)[i] = Generated(n)[i]
  BY DEF Generated
<1>2. Generated(0) = SubSeq(Generated(n), 1, Len(Generated(0)))
  BY <1>1 DEF Generated
<1>3. IsPrefix(Generated(0), name)
  BY <1>1, <1>2 DEF IsPrefix
<1> QED
  BY <1>3, RunConstants DEF RunConstants

\* What is compiled when a TVF file is included.
LEMMA CompiledType ==
  ASSUME TypeOK, NEW name, CompileIncluded(name)
  PROVE  /\ svrfFileName' \in Path /\ realFile(name) \in Path \cup {name}
         /\ tmpIndex' \in Nat
         /\ temps' \subseteq
              OwnTemps \cup {Generated(n) : n \in 0..(tmpIndex' - 1)}
         /\ temps' \subseteq
              temps \cup RemovedWith(<<Opened(name, realFile(name))>>)
<1>1. /\ tmpIndex \in Nat /\ svrfFileName \in Path
      /\ temps \subseteq OwnTemps \cup {Generated(n) : n \in 0..(tmpIndex - 1)}
  BY DEF TypeOK, OwnTemps
<1>2. CASE isTVFRule(name)
  <2>1. name \in Names
    BY <1>2 DEF isTVFRule, StateOf
  <2>2. Generated(tmpIndex) \in Path /\ Generated(tmpIndex) # name
    BY <1>1, <2>1, Paths, NotGenerated
  <2>3. /\ svrfFileName' = Generated(tmpIndex) /\ tmpIndex' = tmpIndex + 1
        /\ temps' = temps \cup {Generated(tmpIndex)}
        /\ realFile(name) = Generated(tmpIndex)
    BY <1>2 DEF CompileIncluded, realFile
  <2>4. tmpIndex \in 0..(tmpIndex' - 1) /\ 0..(tmpIndex - 1) \subseteq 0..(tmpIndex' - 1)
    BY <1>1, <2>3
  <2>5. Generated(tmpIndex) \in RemovedWith(<<Opened(name, Generated(tmpIndex))>>)
    <3> DEFINE f == Opened(name, Generated(tmpIndex))
    <3>1. f.name = Generated(tmpIndex) /\ f.name # f.source
      BY <2>2 DEF Opened
    <3> HIDE DEF f
    <3>2. f \in ToSet(<<f>>)
      BY DEF ToSet
    <3> QED
      BY <3>1, <3>2 DEF RemovedWith, f
  <2> QED
    BY <1>1, <2>2, <2>3, <2>4, <2>5
<1>3. CASE ~isTVFRule(name)
  BY <1>1, <1>3 DEF CompileIncluded, realFile
<1> QED
  BY <1>2, <1>3

\* The generated files among those that are read, from list to list.
LEMMA RemovedAppend ==
  ASSUME NEW s \in Seq(Readers), NEW e
  PROVE  RemovedWith(Append(s, e)) = RemovedWith(s) \cup RemovedWith(<<e>>)
<1>1. ToSet(Append(s, e)) = ToSet(s) \cup {e}
  <2> DEFINE t == Append(s, e)
             n == Len(s)
  <2>1. n \in Nat /\ DOMAIN s = 1..n /\ DOMAIN t = 1..(n + 1)
    OBVIOUS
  <2>2. t[n + 1] = e /\ \A i \in 1..n : t[i] = s[i]
    OBVIOUS
  <2> HIDE DEF t, n
  <2>3. 1..(n + 1) = 1..n \cup {n + 1}
    BY <2>1
  <2>4. {t[i] : i \in 1..(n + 1)} = {s[i] : i \in 1..n} \cup {e}
    BY <2>2, <2>3
  <2> QED
    BY <2>1, <2>4 DEF ToSet, t
<1>2. ToSet(<<e>>) = {e}
  BY DEF ToSet
<1> QED
  BY <1>1, <1>2 DEF RemovedWith

LEMMA RemovedLast ==
  ASSUME NEW s \in Seq(Readers), s # <<>>
  PROVE  RemovedWith(s) \subseteq
           RemovedWith(Front(s)) \cup RemovedWith(<<Last(s)>>)
<1>1. /\ Front(s) \in Seq(Readers) /\ Len(Front(s)) = Len(s) - 1
      /\ \A i \in 1..(Len(s) - 1) : Front(s)[i] = s[i]
  BY FrontOf
<1>2. ToSet(<<Last(s)>>) = {s[Len(s)]}
  BY DEF ToSet, Last
<1>3. ASSUME NEW f \in ToSet(s)
      PROVE  f \in ToSet(Front(s)) \cup ToSet(<<Last(s)>>)
  <2>1. PICK i \in 1..Len(s) : f = s[i]
    BY DEF ToSet
  <2>2. CASE i = Len(s)
    BY <1>2, <2>1, <2>2
  <2>3. CASE i # Len(s)
    <3>1. i \in 1..(Len(s) - 1) /\ i \in DOMAIN Front(s)
      BY <1>1, <2>3
    <3> QED
      BY <1>1, <2>1, <3>1 DEF ToSet
  <2> QED
    BY <2>2, <2>3
<1> QED
  BY <1>3 DEF RemovedWith

LEMMA NoneRemoved ==
  /\ RemovedWith(<<>>) = {}
  /\ \A name : RemovedWith(<<Opened(name, name)>>) = {}
BY DEF RemovedWith, ToSet, Opened

\* Outside of the preprocessor none of them is left.
LEMMA NotReading ==
  ASSUME Inv, status \in {"converting", "thrown"}, Top.pc # "read"
  PROVE  temps \subseteq OwnTemps
<1>1. Top.reading = <<>>
  BY TopFrame DEF Inv, TypeOK, Nesting, FrameOK
<1> QED
  BY <1>1, NoneRemoved DEF Inv, TempsOK

-----------------------------------------------------------------------------
(***************************************************************************)
(* Inv is inductive.                                                       *)
(***************************************************************************)
LEMMA InitInv == Init => Inv
<1> SUFFICES ASSUME Init PROVE Inv
  OBVIOUS
<1> USE DEF Init
<1>1. /\ disk \in [Names -> File]
      /\ args \in Seq(Arguments)
  BY RunConstants DEF RunConstants
<1>2. /\ svrfFileName \in Path
      /\ compiled \in Names
      /\ outStream \in [open : BOOLEAN, path : Path]
  BY Paths, RunConstants DEF RunConstants
<1>3. opt \in Options
  BY DEF NoOptions, Options
<1>4. /\ lineIndex \in [DOMAIN lineIndex -> Position]
      /\ DOMAIN lineIndex = {}
  OBVIOUS
<1>5. TypeOK
  BY <1>1, <1>2, <1>3, <1>4, RunConstants DEF TypeOK, RunConstants
<1>6. Nesting /\ ModeOK /\ LinesOK /\ TempsOK
  BY DEF Nesting, ModeOK, LinesOK, TempsOK
<1> QED
  BY <1>5, <1>6 DEF Inv

\* A stage of the innermost frame.
LEMMA Stages ==
  ASSUME Inv, NEW pc, At(pc)
  PROVE  /\ status = "converting"
         /\ frames \in Seq(Frames)
         /\ frames # <<>>
         /\ Len(frames) \in Nat \ {0}
         /\ Top \in Frames
         /\ Top.pc = pc
         /\ Top = frames[Len(frames)]
         /\ FrameOK(Top)
<1>1. status = "converting" /\ Top.pc = pc
  BY DEF At
<1>2. frames \in Seq(Frames) /\ frames # <<>>
  BY <1>1 DEF Inv, TypeOK
<1>3. /\ Len(frames) \in Nat \ {0} /\ Len(frames) \in DOMAIN frames
      /\ Top = frames[Len(frames)] /\ Top \in Frames
  BY <1>2, TopFrame
<1> QED
  BY <1>1, <1>2, <1>3 DEF Inv, Nesting

\* A step that goes on in the innermost frame.
LEMMA Stays ==
  ASSUME Inv, NEW f \in Frames, SetTop(f), FrameOK(f), f.shift = Top.shift,
         status = "converting", status' \notin {"start", "idle", "returned"}
  PROVE  /\ frames' \in Seq(Frames)
         /\ frames' # <<>>
         /\ Nesting'
         /\ Top' = f
         /\ Len(frames') = Len(frames)
         /\ \A i \in DOMAIN frames : i < Len(frames) => frames'[i] = frames[i]
<1>1. frames \in Seq(Frames) /\ frames # <<>>
  BY DEF Inv, TypeOK
<1>2. /\ frames' \in Seq(Frames) /\ frames' # <<>>
      /\ Len(frames') = Len(frames)
      /\ DOMAIN frames' = DOMAIN frames
      /\ Top' = f
      /\ \A i \in DOMAIN frames : i < Len(frames) => frames'[i] = frames[i]
  BY <1>1, TopSet
<1>3. Len(frames) \in Nat \ {0} /\ DOMAIN frames = 1..Len(frames)
  BY <1>1
<1>4. frames'[Len(frames)] = f /\ Top = frames[Len(frames)]
  BY <1>2 DEF Top, Last
<1>5. \A i \in DOMAIN frames' : FrameOK(frames'[i])
  BY <1>2, <1>3, <1>4 DEF Inv, Nesting
<1>6. \A i \in DOMAIN frames' : i < Len(frames') => frames'[i].pc = "includes"
  BY <1>2, <1>3 DEF Inv, Nesting
<1>7. frames'[1].shift = 0
  BY <1>2, <1>3, <1>4 DEF Inv, Nesting
<1> QED
  BY <1>2, <1>5, <1>6, <1>7 DEF Nesting

\* A step that ends the conversion and leaves the frames as they are.
LEMMA Ends ==
  ASSUME Inv, status = "converting", frames' = frames, opt' = opt,
         status' \in {"thrown", "exited", "overflow"},
         temps' = temps \/ status' = "exited"
  PROVE  Nesting' /\ ModeOK' /\ LinesOK' /\ TempsOK'
BY DEF Inv, Nesting, ModeOK, LinesOK, TempsOK, FrameOK, Top

LEMMA ReportsType ==
  ASSUME NEW errors \in Seq(Errors), NEW index, NEW log,
         index \in [DOMAIN index -> Position]
  PROVE  Reports(errors, index, log) \in Seq(Messages)
<1>1. \A i \in DOMAIN errors : Lookup(errors[i], index) \in Position \cup {NoPlace}
  BY DEF Lookup
<1>2. Len(errors) \in Nat /\ DOMAIN errors = 1..Len(errors)
  OBVIOUS
<1> QED
  BY <1>1, <1>2 DEF Reports, Messages

LEMMA RaiseType ==
  ASSUME TypeOK, NEW errors \in Seq(Errors), NEW index,
         NEW log \in {"unset", "open", "closed"},
         index \in [DOMAIN index -> Position], Raise(errors, index, log)
  PROVE  /\ errorList' \in Seq(Errors)
         /\ shown' \in Seq(Messages)
         /\ outStream' \in [open : BOOLEAN, path : Path]
         /\ logStream' \in {"unset", "open", "closed"}
         /\ status' \in {"thrown", "exited"}
<1>1. errorList' \in Seq(Errors)
  BY DEF Raise, TypeOK
<1>2. Reports(errorList', index, log) \in Seq(Messages)
  BY <1>1, ReportsType
<1>3. shown' \in Seq(Messages)
  <2>1. shown \in Seq(Messages)
    BY DEF TypeOK
  <2>2. shown \o Reports(errorList', index, log) \in Seq(Messages)
    BY <1>2, <2>1
  <2> QED
    BY <2>1, <2>2 DEF Raise
<1> QED
  BY <1>1, <1>3 DEF Raise, TypeOK, LogClosed

LEMMA ParseArgumentInv ==
  ASSUME Inv, ParseArgument
  PROVE  Inv'
<1> USE DEF ParseArgument, tempVars, scriptVars, streams, lineVars, errorVars
<1>1. opt' \in Options
  <2>1. Head(args) \in Arguments
    BY DEF Inv, TypeOK
  <2>2. ASSUME NEW o \in Options, NEW arg \in Arguments
        PROVE  ParseOption(o, arg) \in Options
    <3>1. CASE arg = "-i"
      BY <2>2, <3>1 DEF ParseOption, Options
    <3>2. CASE arg = "-o"
      BY <2>2, <3>2 DEF ParseOption, Options
    <3>3. CASE arg = "-oi"
      BY <2>2, <3>3 DEF ParseOption, Options
    <3>4. CASE arg = "-full"
      BY <2>2, <3>4 DEF ParseOption, Options
    <3>5. CASE arg = "-sf"
      BY <2>2, <3>5 DEF ParseOption, Options
    <3>6. CASE arg = "-gui"
      BY <2>2, <3>6 DEF ParseOption, Options
    <3>7. CASE arg = "-trs"
      BY <2>2, <3>7 DEF ParseOption, Options
    <3> QED
      BY <2>2, <3>1, <3>2, <3>3, <3>4, <3>5, <3>6, <3>7 DEF Arguments
  <2> QED
    BY <2>1, <2>2 DEF Inv, TypeOK
<1>2. args' \in Seq(Arguments)
  BY DEF Inv, TypeOK
<1>3. TypeOK'
  BY <1>1, <1>2 DEF Inv, TypeOK
<1>4. Nesting' /\ ModeOK' /\ LinesOK' /\ TempsOK'
  BY DEF Inv, Nesting, ModeOK, LinesOK, TempsOK, FrameOK, Top
<1> QED
  BY <1>3, <1>4 DEF Inv

LEMMA MainInv ==
  ASSUME Inv, Main
  PROVE  Inv'
<1> USE DEF Main, commandLine, tempVars, scriptVars, streams, lineVars,
            errorVars
<1> DEFINE f == Frame(Deck, OutFile, opt.sf, 0)
<1>1. f \in Frames
  <2>1. Deck \in Path /\ OutFile \in Path /\ opt.sf \in BOOLEAN
    BY RunConstants DEF RunConstants, Inv, TypeOK, Options
  <2> QED
    BY <2>1 DEF Frame, Frames
<1>2. FrameOK(f) /\ f.shift = 0 /\ f.includes = <<>> /\ f.pc = "begin"
  BY DEF Frame, FrameOK
<1> HIDE DEF f
<1>3. frames = <<>>
  BY DEF Inv, Nesting
<1>4. CASE status' \in {"returned", "idle"} /\ frames' = frames
  BY <1>3, <1>4 DEF Inv, TypeOK, Nesting, ModeOK, LinesOK, TempsOK
<1>5. CASE status' = "converting" /\ frames' = <<f>>
  <2>1. /\ frames' \in Seq(Frames) /\ frames' # <<>> /\ Len(frames') = 1
        /\ DOMAIN frames' = 1..1 /\ frames'[1] = f /\ Top' = f
    BY <1>1, <1>5 DEF Top, Last
  <2>2. TypeOK'
    BY <1>5, <2>1 DEF Inv, TypeOK
  <2>3. Nesting'
    BY <1>2, <1>5, <2>1 DEF Nesting
  <2>4. ModeOK'
    BY <1>2, <1>5, <2>1 DEF ModeOK
  <2>5. LinesOK' /\ TempsOK'
    BY <1>2, <1>3, <1>5, <2>1 DEF Inv, LinesOK, TempsOK, OwnTemps, TypeOK
  <2> QED
    BY <2>2, <2>3, <2>4, <2>5 DEF Inv
<1> QED
  BY <1>4, <1>5 DEF f

LEMMA OnConvertInv ==
  ASSUME Inv, OnConvert
  PROVE  Inv'
<1> USE DEF OnConvert, Cleared, tempVars, scriptVars
<1>1. PICK file \in Names, out \in {OutFile} \cup Unwritable, sf \in BOOLEAN :
        frames' = <<Frame(file, out, sf, 0)>>
  OBVIOUS
<1> DEFINE f == Frame(file, out, sf, 0)
<1>2. f \in Frames
  <2>1. file \in Path /\ out \in Path
    BY RunConstants DEF RunConstants
  <2> QED
    BY <2>1 DEF Frame, Frames
<1>3. FrameOK(f) /\ f.shift = 0 /\ f.includes = <<>> /\ f.pc = "begin"
  BY DEF Frame, FrameOK
<1> HIDE DEF f
<1>4. /\ frames' \in Seq(Frames) /\ frames' # <<>> /\ Len(frames') = 1
      /\ DOMAIN frames' = 1..1 /\ frames'[1] = f /\ Top' = f
  BY <1>1, <1>2 DEF Top, Last, f
<1>5. opt' \in Options /\ opt'.oi = FALSE /\ opt'.trs = FALSE
  BY DEF Inv, TypeOK, Options
<1>6. lineIndex' \in [DOMAIN lineIndex' -> Position] /\ DOMAIN lineIndex' = {}
  OBVIOUS
<1>7. TypeOK'
  <2>1. conversions' \in 0..MaxConversions
    BY RunConstants DEF RunConstants, Inv, TypeOK
  <2>2. outStream' \in [open : BOOLEAN, path : Path]
    BY DEF Inv, TypeOK
  <2> QED
    BY <1>4, <1>5, <1>6, <2>1, <2>2 DEF Inv, TypeOK
<1>8. Nesting' /\ ModeOK' /\ LinesOK' /\ TempsOK'
  BY <1>3, <1>4, <1>5, <1>6
     DEF Inv, Nesting, ModeOK, LinesOK, TempsOK, OwnTemps
<1> QED
  BY <1>7, <1>8 DEF Inv

\* A return of the innermost execute().
LEMMA Leaves ==
  ASSUME Inv, status = "converting", Top.pc \in {"check", "includes"},
         NEW files \in SUBSET {ScriptTmp}, Leave(files),
         UNCHANGED <<opt, globalLineNo, lineIndex>>
  PROVE  /\ frames' \in Seq(Frames)
         /\ status' \in {"converting", "idle", "returned"}
         /\ status' = "converting" => frames' # <<>>
         /\ temps' \subseteq {ScriptTmp}
         /\ Nesting' /\ ModeOK' /\ LinesOK' /\ TempsOK'
<1>1. frames \in Seq(Frames) /\ frames # <<>>
  BY DEF Inv, TypeOK
<1>2. /\ frames' \in Seq(Frames)
      /\ Len(frames') = Len(frames) - 1
      /\ DOMAIN frames' = 1..(Len(frames) - 1)
      /\ \A i \in DOMAIN frames' : i \in DOMAIN frames /\ frames'[i] = frames[i]
      /\ frames' # <<>> => Top' = frames[Len(frames) - 1]
      /\ (frames' = <<>>) <=> (Len(frames) = 1)
  BY <1>1, Popped DEF Leave
<1>3. Len(frames) \in Nat \ {0} /\ DOMAIN frames = 1..Len(frames)
  BY <1>1
<1>4. temps' \subseteq {ScriptTmp}
  BY DEF Leave
<1>5. CASE Len(frames) = 1
  <2>1. frames' = <<>> /\ status' \in {"idle", "returned"}
    BY <1>2, <1>5 DEF Leave
  <2>2. Nesting' /\ ModeOK' /\ LinesOK' /\ TempsOK'
    BY <1>4, <2>1 DEF Nesting, ModeOK, LinesOK, TempsOK, OwnTemps
  <2> QED
    BY <1>2, <1>4, <2>1, <2>2
<1>6. CASE Len(frames) > 1
  <2>1. status' = "converting" /\ frames' # <<>>
    BY <1>2, <1>3, <1>6 DEF Leave
  <2>2. Len(frames) - 1 \in DOMAIN frames /\ Top'.pc = "includes"
    BY <1>2, <1>3, <1>6, <2>1 DEF Inv, Nesting
  <2>3. Nesting'
    BY <1>2, <1>3, <1>6, <2>1, <2>2 DEF Inv, Nesting, FrameOK
  <2>4. ModeOK'
    BY SMTT(30), <1>1, <1>3, <1>6 DEF Inv, ModeOK
  <2>5. DOMAIN lineIndex = 1..globalLineNo
    BY <1>6 DEF Inv, LinesOK
  <2>6. LinesOK' /\ TempsOK'
    BY <1>4, <2>1, <2>2, <2>5 DEF LinesOK, TempsOK, OwnTemps
  <2> QED
    BY <1>2, <1>4, <2>1, <2>3, <2>4, <2>6
<1> QED
  BY <1>3, <1>5, <1>6

LEMMA BeginWriteInv ==
  ASSUME Inv, BeginWrite
  PROVE  Inv'
<1> USE DEF BeginWrite, commandLine, tempVars, scriptVars, lineVars, errorVars
<1> DEFINE f == [Top EXCEPT !.pc = "check"]
<1>1. /\ status = "converting" /\ frames \in Seq(Frames) /\ frames # <<>>
      /\ Top \in Frames /\ Top.pc = "begin" /\ FrameOK(Top)
  BY Stages
<1>2. f \in Frames /\ f.shift = Top.shift /\ f.tokens = Top.tokens
      /\ f.includes = Top.includes /\ f.pc = "check"
  BY <1>1 DEF Frames
<1>3. FrameOK(f)
  BY <1>1, <1>2 DEF FrameOK
<1>4. SetTop(f)
  BY DEF Goto
<1> HIDE DEF f
<1>5. /\ frames' \in Seq(Frames) /\ frames' # <<>> /\ Nesting'
      /\ Top' = f /\ Len(frames') = Len(frames)
  BY <1>1, <1>2, <1>3, <1>4, Stays
<1>6. \A p \in DOMAIN output' : p \in Path /\ output'[p] \in Path
  <2>1. Top.out \in Path /\ Partial \in Path
    BY <1>1, Paths DEF Frames
  <2> QED
    BY <2>1 DEF Emptied, Inv, TypeOK
<1>7. outStream' \in [open : BOOLEAN, path : Path]
  BY <1>1 DEF Frames, Inv, TypeOK
<1>8. logStream' \in {"unset", "open", "closed"}
  BY DEF LogOpened, Inv, TypeOK
<1>9. TypeOK'
  BY <1>5, <1>6, <1>7, <1>8 DEF Inv, TypeOK
<1>10. ModeOK' /\ LinesOK' /\ TempsOK'
  BY <1>1, <1>2, <1>5 DEF Inv, ModeOK, LinesOK, TempsOK, OwnTemps
<1> QED
  BY <1>5, <1>9, <1>10 DEF Inv

\* An error that ends the conversion before any line has been read.
LEMMA OpenFailsInv ==
  ASSUME Inv, BeginWriteFails \/ CheckFails
  PROVE  Inv'
<1> USE DEF commandLine, tempVars, scriptVars, lineVars
<1>1. status = "converting"
  BY DEF BeginWriteFails, CheckFails, At
<1>2. PICK log \in {"unset", "open", "closed"} :
        Raise(<<OpenError>>, lineIndex, log)
  BY DEF BeginWriteFails, CheckFails, LogOpened, Inv, TypeOK
<1>3. UNCHANGED <<disk, opt, args, frames, temps, svrfFileName, compiled,
                  tmpIndex, output, globalLineNo, lineIndex, conversions>>
  BY DEF BeginWriteFails, CheckFails
<1>4. <<OpenError>> \in Seq(Errors)
  BY DEF OpenError, Error, Errors
<1>5. /\ errorList' \in Seq(Errors)
      /\ shown' \in Seq(Messages)
      /\ outStream' \in [open : BOOLEAN, path : Path]
      /\ logStream' \in {"unset", "open", "closed"}
      /\ status' \in {"thrown", "exited"}
  <2>1. TypeOK /\ lineIndex \in [DOMAIN lineIndex -> Position]
    BY DEF Inv, TypeOK
  <2> QED
    BY <1>2, <1>4, <2>1, RaiseType
<1>6. TypeOK'
  BY <1>1, <1>3, <1>5 DEF Inv, TypeOK
<1>7. Nesting' /\ ModeOK' /\ LinesOK' /\ TempsOK'
  BY <1>1, <1>3, <1>5, Ends
<1> QED
  BY <1>6, <1>7 DEF Inv

LEMMA NotTvfInv ==
  ASSUME Inv, NotTvf
  PROVE  Inv'
<1> USE DEF NotTvf, commandLine, scriptVars, streams, lineVars, errorVars
<1>1. status = "converting" /\ Top.pc = "check"
  BY DEF At
<1>2. temps \subseteq {ScriptTmp}
  BY <1>1 DEF Inv, TempsOK
<1>3. /\ frames' \in Seq(Frames)
      /\ status' \in {"converting", "idle", "returned"}
      /\ status' = "converting" => frames' # <<>>
      /\ temps' \subseteq {ScriptTmp}
      /\ Nesting' /\ ModeOK' /\ LinesOK' /\ TempsOK'
  BY <1>1, <1>2, Leaves
<1>4. TypeOK'
  BY <1>3 DEF Inv, TypeOK
<1> QED
  BY <1>3, <1>4 DEF Inv

LEMMA EndWriteType ==
  ASSUME TypeOK, endWrite
  PROVE  /\ outStream' \in [open : BOOLEAN, path : Path]
         /\ outStream'.open = FALSE /\ outStream'.path = outStream.path
         /\ logStream' \in {"unset", "closed"}
BY DEF endWrite, LogClosed, TypeOK

LEMMA ConvertToTrsInv ==
  ASSUME Inv, ConvertToTrs
  PROVE  Inv'
<1> USE DEF ConvertToTrs, commandLine, scriptVars, lineVars, errorVars
<1>1. status = "converting" /\ Top.pc = "check" /\ Top \in Frames
  BY Stages
<1>2. temps \subseteq {ScriptTmp}
  BY <1>1 DEF Inv, TempsOK
<1>3. /\ frames' \in Seq(Frames)
      /\ status' \in {"converting", "idle", "returned"}
      /\ status' = "converting" => frames' # <<>>
      /\ temps' \subseteq {ScriptTmp}
      /\ Nesting' /\ ModeOK' /\ LinesOK' /\ TempsOK'
  BY <1>1, <1>2, Leaves
<1>4. /\ outStream' \in [open : BOOLEAN, path : Path]
      /\ logStream' \in {"unset", "closed"}
  BY EndWriteType DEF Inv
<1>5. \A p \in DOMAIN output' : p \in Path /\ output'[p] \in Path
  BY <1>1 DEF Frames, Inv, TypeOK
<1>6. TypeOK'
  BY <1>3, <1>4, <1>5 DEF Inv, TypeOK
<1> QED
  BY <1>3, <1>6 DEF Inv

LEMMA CompileFailsInv ==
  ASSUME Inv, CompileFails
  PROVE  Inv'
<1> USE DEF CompileFails, commandLine, lineVars
<1>1. status = "converting" /\ Top.pc = "check" /\ Top \in Frames
  BY Stages
<1>2. temps \cup {ScriptTmp} \in SUBSET {ScriptTmp}
  BY <1>1 DEF Inv, TempsOK
<1>3. /\ frames' \in Seq(Frames)
      /\ status' \in {"converting", "idle", "returned"}
      /\ status' = "converting" => frames' # <<>>
      /\ temps' \subseteq {ScriptTmp}
      /\ Nesting' /\ ModeOK' /\ LinesOK' /\ TempsOK'
  BY <1>1, <1>2, Leaves
<1>4. /\ outStream' \in [open : BOOLEAN, path : Path]
      /\ logStream' \in {"unset", "closed"}
  BY EndWriteType DEF Inv
<1>5. shown' \in Seq(Messages)
  BY ReportsType DEF Inv, TypeOK
<1>6. Top.file \in Names
  BY <1>1, <1>2 DEF StateOf
<1>7. svrfFileName' \in Path /\ compiled' \in Names
  BY <1>6, Paths
<1>8. TypeOK'
  BY <1>3, <1>4, <1>5, <1>7 DEF Inv, TypeOK
<1> QED
  BY <1>3, <1>8 DEF Inv

LEMMA CheckInv ==
  ASSUME Inv, Check
  PROVE  Inv'
<1> USE DEF Check, commandLine, streams, lineVars, errorVars
<1> DEFINE script == isTVFRule(Top.file)
           f == [Top EXCEPT !.script = script, !.pc = "preprocess"]
<1>1. /\ status = "converting" /\ frames \in Seq(Frames) /\ frames # <<>>
      /\ Top \in Frames /\ Top.pc = "check" /\ FrameOK(Top)
  BY Stages
<1>a. script \in BOOLEAN
  BY DEF isTVFRule
<1>b. script => StateOf(Top.file) \in {"tvf", "badTvf"}
  BY DEF isTVFRule
<1> HIDE DEF script
<1>2. /\ f \in Frames /\ f.shift = Top.shift /\ f.tokens = Top.tokens
      /\ f.includes = Top.includes /\ f.pc = "preprocess" /\ f.file = Top.file
  BY <1>1, <1>a DEF Frames
<1>3. temps \subseteq {ScriptTmp}
  BY <1>1 DEF Inv, TempsOK
<1>4. Top.file \in Sources /\ (script => Top.file \in Names)
  BY <1>3, <1>b DEF StateOf, Sources
<1>5. FrameOK(f)
  BY <1>1, <1>2, <1>4 DEF FrameOK
<1>6. SetTop(f)
  BY DEF script
<1>7. /\ svrfFileName' \in Path /\ compiled' \in Names
      /\ temps' \subseteq {ScriptTmp}
  BY <1>3, <1>4, Paths DEF Inv, TypeOK, script
<1> HIDE DEF f
<1>8. /\ frames' \in Seq(Frames) /\ frames' # <<>> /\ Nesting'
      /\ Top' = f /\ Len(frames') = Len(frames)
  BY <1>1, <1>2, <1>5, <1>6, Stays
<1>9. TypeOK'
  BY <1>7, <1>8 DEF Inv, TypeOK
<1>10. ModeOK' /\ LinesOK' /\ TempsOK'
  BY <1>1, <1>2, <1>7, <1>8 DEF Inv, ModeOK, LinesOK, TempsOK, OwnTemps
<1> QED
  BY <1>8, <1>9, <1>10 DEF Inv

-----------------------------------------------------------------------------
(***************************************************************************)
(* The preprocessor.                                                       *)
(***************************************************************************)
LEMMA PreprocessInv ==
  ASSUME Inv, Preprocess
  PROVE  Inv'
<1> USE DEF Preprocess, commandLine, scriptVars, streams, errorVars
<1> DEFINE r == <<Opened(InFile, InFile)>>
           f == [Top EXCEPT !.pc = "read", !.reading = r]
<1>1. /\ status = "converting" /\ frames \in Seq(Frames) /\ frames # <<>>
      /\ Top \in Frames /\ Top.pc = "preprocess" /\ FrameOK(Top)
  BY Stages
<1>2. InFile \in Sources
  BY <1>1 DEF InFile, Sources, FrameOK
<1>3. r \in Seq(Readers) /\ r # <<>>
  BY <1>2, Paths DEF Opened, Readers
<1> HIDE DEF r
<1>4. /\ f \in Frames /\ f.shift = Top.shift /\ f.tokens = Top.tokens
      /\ f.includes = Top.includes /\ f.pc = "read" /\ f.file = Top.file
      /\ f.reading = r
  BY <1>1, <1>3 DEF Frames
<1>5. FrameOK(f)
  BY <1>1, <1>3, <1>4 DEF FrameOK
<1>6. SetTop(f)
  BY DEF r
<1> HIDE DEF f
<1>7. /\ frames' \in Seq(Frames) /\ frames' # <<>> /\ Nesting'
      /\ Top' = f /\ Len(frames') = Len(frames)
  BY <1>1, <1>4, <1>5, <1>6, Stays
<1>8. temps' \subseteq {Tmp, SwitchTmp, ScriptTmp}
  BY <1>1, NotReading DEF OwnTemps
<1>9. globalLineNo' \in Nat /\ globalLineNo' = Top.shift
  BY <1>1 DEF Frames
<1>10. DOMAIN lineIndex' = 1..globalLineNo'
  BY <1>1, <1>9 DEF Inv, LinesOK
<1>11. TypeOK'
  BY <1>7, <1>8, <1>9, <1>10 DEF Inv, TypeOK
<1>12. Top.tokens = <<>>
  BY <1>1 DEF FrameOK
<1>13. globalLineNo' = f.shift + Len(f.tokens)
  BY <1>4, <1>9, <1>12
<1>14. ModeOK'
  BY <1>1, <1>4, <1>7 DEF Inv, ModeOK
<1>15. LinesOK'
  BY <1>1, <1>4, <1>7, <1>10, <1>13 DEF LinesOK
<1>16. TempsOK'
  BY <1>1, <1>4, <1>7, <1>8 DEF TempsOK, OwnTemps
<1> QED
  BY <1>7, <1>11, <1>14, <1>15, <1>16 DEF Inv

LEMMA LinesOfType ==
  ASSUME Inv, At("read"), NEW source \in Sources
  PROVE  LinesOf(source) \in Seq(Line)
<1>1. Top \in Frames /\ Top.file \in Sources
  BY Stages DEF FrameOK
<1>2. disk \in [Names -> File] /\ compiled \in Names
  BY DEF Inv, TypeOK
<1>3. \A n \in Names : disk[n].lines \in Seq(Line)
  BY <1>2 DEF File
<1>4. \A n \in Sources : Include(n) \in Line
  BY DEF Include, Line
<1>5. SwitchFile \in Sources /\ ScriptTmp \in Sources
  BY RunConstants DEF RunConstants, Sources
<1>6. <<Include(SwitchFile),
        Include(IF Top.script THEN ScriptTmp ELSE Top.file)>> \in Seq(Line)
  BY <1>1, <1>4, <1>5
<1>7. CASE source = SwitchTmp
  BY <1>3, <1>2, <1>6, <1>7 DEF LinesOf, SwitchTmp, ScriptTmp
<1>8. CASE source = ScriptTmp
  BY <1>3, <1>2, <1>8 DEF LinesOf, SwitchTmp, ScriptTmp
<1>9. CASE source \notin {SwitchTmp, ScriptTmp}
  BY <1>3, <1>9 DEF LinesOf, Sources
<1> QED
  BY <1>7, <1>8, <1>9

LEMMA ReaderType ==
  ASSUME Inv, At("read")
  PROVE  /\ Top.reading \in Seq(Readers)
         /\ Top.reading # <<>>
         /\ Reader \in Readers
         /\ Here \in Place
         /\ LinesLeft => NextLine \in Line
<1>1. /\ Top.reading \in Seq(Readers)
      /\ Top.reading # <<>>
  BY Stages DEF FrameOK, Frames
<1>2. Reader \in Readers
  BY <1>1, LastOf DEF Reader
<1>3. LinesOf(Reader.source) \in Seq(Line)
  BY <1>2, LinesOfType DEF Readers
<1>4. Here \in Place
  BY <1>2 DEF Here, Place, Readers
<1>5. LinesLeft => NextLine \in Line
  BY <1>2, <1>3 DEF LinesLeft, NextLine, Readers
<1> QED
  BY <1>1, <1>2, <1>4, <1>5

\* MapLineIndex: the line that is counted is a new one.
LEMMA CountedLine ==
  ASSUME Inv, LinesLeft, Counted
  PROVE  /\ globalLineNo' \in Nat
         /\ globalLineNo' = globalLineNo + 1
         /\ globalLineNo' = Top.shift + Len(Top.tokens) + 1
         /\ globalLineNo' \notin DOMAIN lineIndex
         /\ lineIndex' \in [DOMAIN lineIndex' -> Position]
         /\ DOMAIN lineIndex' = 1..globalLineNo'
         /\ DOMAIN lineIndex \subseteq DOMAIN lineIndex'
         /\ \A n \in DOMAIN lineIndex : lineIndex'[n] = lineIndex[n]
         /\ lineIndex'[globalLineNo'] = Told(Here)
<1>1. At("read") /\ Here \in Place
  BY ReaderType DEF LinesLeft
<1>2. /\ DOMAIN lineIndex = 1..globalLineNo
      /\ globalLineNo = Top.shift + Len(Top.tokens)
  BY <1>1 DEF Inv, LinesOK, At
<1>3. globalLineNo \in Nat /\ lineIndex \in [DOMAIN lineIndex -> Position]
  BY DEF Inv, TypeOK
<1>4. globalLineNo' = globalLineNo + 1 /\ lineIndex' = Mapped
  BY DEF Counted
<1>5. DOMAIN Mapped = 1..(globalLineNo + 1)
  BY <1>2, <1>3 DEF Mapped
<1>6. \A n \in 1..(globalLineNo + 1) :
        Mapped[n] = IF n \in 1..globalLineNo THEN lineIndex[n] ELSE Told(Here)
  BY <1>2, <1>3 DEF Mapped
<1>7. lineIndex' \in [DOMAIN lineIndex' -> Position]
  <2>1. Told(Here) \in Position
    BY <1>1 DEF Told, Place, Position
  <2>2. \A n \in DOMAIN Mapped : Mapped[n] \in Position
    BY <1>2, <1>3, <1>5, <1>6, <2>1
  <2>3. Mapped = [n \in DOMAIN Mapped |-> Mapped[n]]
    BY DEF Mapped
  <2> QED
    BY <1>4, <2>2, <2>3
<1> QED
  BY <1>2, <1>3, <1>4, <1>5, <1>6, <1>7

\* The files that are read stay the same when a line has been copied.
LEMMA CopiedReaders ==
  ASSUME Inv, LinesLeft
  PROVE  LET r == Copied.reading IN
         /\ r \in Seq(Readers) /\ r # <<>>
         /\ DOMAIN r = DOMAIN Top.reading
         /\ \A i \in DOMAIN r : /\ r[i].name = Top.reading[i].name
                              /\ r[i].source = Top.reading[i].source
         /\ RemovedWith(r) = RemovedWith(Top.reading)
<1> DEFINE n == Len(Top.reading)
           reader == [Reader EXCEPT !.line = @ + 1]
           r == ReplaceAt(Top.reading, n, reader)
<1>1. /\ Top.reading \in Seq(Readers)
      /\ Top.reading # <<>>
      /\ Reader \in Readers
      /\ Top \in Frames
  BY ReaderType, Stages DEF LinesLeft
<1>2. /\ reader \in Readers
      /\ reader.name = Reader.name /\ reader.source = Reader.source
  BY <1>1 DEF Readers
<1> HIDE DEF reader
<1>3. /\ n \in Nat \ {0} /\ DOMAIN Top.reading = 1..n /\ DOMAIN r = 1..n
      /\ r \in Seq(Readers) /\ r # <<>>
  BY <1>1, <1>2 DEF ReplaceAt
<1>4. \A i \in 1..n : /\ r[i].name = Top.reading[i].name
                     /\ r[i].source = Top.reading[i].source
  BY <1>1, <1>2, <1>3 DEF ReplaceAt, Reader, Last
<1>5. Copied.reading = r
  BY <1>1 DEF Copied, Frames, reader
<1> HIDE DEF r, n
<1>6. \A s : RemovedWith(s) =
         {s[i].name : i \in {j \in DOMAIN s : s[j].name # s[j].source}}
  BY DEF RemovedWith, ToSet
<1>7. RemovedWith(r) = RemovedWith(Top.reading)
  BY <1>3, <1>4, <1>6
<1> QED
  BY <1>3, <1>4, <1>5, <1>7

LEMMA CopiedFrame ==
  ASSUME Inv, LinesLeft
  PROVE  /\ Copied \in Frames
         /\ Copied.shift = Top.shift /\ Copied.includes = Top.includes
         /\ Copied.pc = "read" /\ Copied.file = Top.file
         /\ Copied.tokens = Append(Top.tokens, [kind |-> NextLine.kind,
                                                place |-> Here])
         /\ Len(Copied.tokens) = Len(Top.tokens) + 1
         /\ Copied.reading # <<>>
         /\ RemovedWith(Copied.reading) = RemovedWith(Top.reading)
         /\ FrameOK(Copied)
<1> DEFINE token == [kind |-> NextLine.kind, place |-> Here]
           reader == [Reader EXCEPT !.line = @ + 1]
           r == ReplaceAt(Top.reading, Len(Top.reading), reader)
           t == Append(Top.tokens, token)
<1>1. /\ Top \in Frames /\ Top.pc = "read" /\ FrameOK(Top)
  BY Stages DEF LinesLeft
<1>2. /\ Top.reading \in Seq(Readers)
      /\ Top.reading # <<>>
      /\ Reader \in Readers
      /\ Here \in Place
      /\ NextLine \in Line
  BY ReaderType DEF LinesLeft
<1>3. token \in Token
  BY <1>2 DEF Token, Line, Kinds
<1>4. reader \in Readers
  BY <1>2 DEF Readers
<1> HIDE DEF token, reader
<1>5. r \in Seq(Readers) /\ r # <<>>
  BY <1>2, <1>4 DEF ReplaceAt
<1>6. t \in Seq(Token) /\ Len(t) = Len(Top.tokens) + 1
  BY <1>1, <1>3 DEF Frames
<1> HIDE DEF r, t
<1>7. Copied = [Top EXCEPT !.reading = r, !.tokens = t]
  BY DEF Copied, r, t, token, reader
<1>8. /\ Copied \in Frames
      /\ Copied.shift = Top.shift /\ Copied.includes = Top.includes
      /\ Copied.pc = "read" /\ Copied.file = Top.file
      /\ Copied.tokens = t /\ Copied.reading = r
  BY <1>1, <1>5, <1>6, <1>7 DEF Frames
<1> QED
  BY <1>1, <1>5, <1>6, <1>8, CopiedReaders DEF FrameOK, t, token

\* The files that exist while a line is read.
LEMMA TempsRead ==
  ASSUME Inv, LinesLeft
  PROVE  temps \subseteq OwnTemps \cup RemovedWith(Copied.reading)
BY CopiedFrame DEF Inv, TempsOK, LinesLeft, At

\* A step that counts a line, copies it and stays in the preprocessor.
LEMMA ReadsOn ==
  ASSUME Inv, LinesLeft, Counted, NEW f \in Frames, SetTop(f),
         f.shift = Top.shift, f.file = Top.file, f.pc = "read",
         f.tokens = Copied.tokens, f.reading # <<>>,
         f.includes = Top.includes \/ opt.oi,
         temps' \subseteq OwnTemps \cup RemovedWith(f.reading),
         status' = status, opt' = opt
  PROVE  /\ frames' \in Seq(Frames)
         /\ frames' # <<>>
         /\ Nesting' /\ ModeOK' /\ LinesOK' /\ TempsOK'
<1>1. /\ status = "converting" /\ Top \in Frames /\ Top.pc = "read"
      /\ FrameOK(Top) /\ frames # <<>>
  BY Stages DEF LinesLeft
<1>2. FrameOK(f)
  BY <1>1 DEF FrameOK
<1>3. /\ frames' \in Seq(Frames) /\ frames' # <<>> /\ Nesting'
      /\ Top' = f /\ Len(frames') = Len(frames)
  BY <1>1, <1>2, Stays
<1>4. ModeOK'
  BY <1>1, <1>3 DEF Inv, ModeOK
<1>5. LinesOK'
  <2>1. globalLineNo' = Top.shift + Len(Top.tokens) + 1
        /\ DOMAIN lineIndex' = 1..globalLineNo'
    BY CountedLine
  <2>2. Len(f.tokens) = Len(Top.tokens) + 1
    BY CopiedFrame
  <2>3. Len(Top.tokens) \in Nat /\ Top.shift \in Nat
    BY <1>1 DEF Frames
  <2>4. globalLineNo' = f.shift + Len(f.tokens)
    BY <2>1, <2>2, <2>3
  <2> QED
    BY <1>1, <1>3, <2>1, <2>4 DEF LinesOK
<1>6. TempsOK'
  BY <1>1, <1>3 DEF TempsOK, OwnTemps
<1> QED
  BY <1>3, <1>4, <1>5, <1>6

LEMMA ReadLineInv ==
  ASSUME Inv, ReadLine
  PROVE  Inv'
<1> USE DEF ReadLine, commandLine, tempVars, scriptVars, streams, errorVars
<1>1. /\ Copied \in Frames /\ Copied.shift = Top.shift
      /\ Copied.file = Top.file /\ Copied.pc = "read"
      /\ Copied.reading # <<>> /\ Copied.includes = Top.includes
  BY CopiedFrame
<1>2. /\ frames' \in Seq(Frames) /\ frames' # <<>>
      /\ Nesting' /\ ModeOK' /\ LinesOK' /\ TempsOK'
  BY <1>1, TempsRead, ReadsOn
<1>3. TypeOK'
  BY <1>2, CountedLine DEF Inv, TypeOK
<1> QED
  BY <1>2, <1>3 DEF Inv

LEMMA ReadIncludeInv ==
  ASSUME Inv, ReadInclude
  PROVE  Inv'
<1> USE DEF ReadInclude, commandLine, tempVars, scriptVars, streams, errorVars
<1> DEFINE i == Append(Top.includes, OutputName(NextLine.target))
           f == [Copied EXCEPT !.includes =
                   Append(@, OutputName(NextLine.target))]
<1>1. /\ Copied \in Frames /\ Copied.shift = Top.shift
      /\ Copied.file = Top.file /\ Copied.pc = "read"
      /\ Copied.reading # <<>> /\ Copied.includes = Top.includes
  BY CopiedFrame
<1>2. i \in Seq(Path)
  <2>1. NextLine.target \in Sources
    BY ReaderType DEF LinesLeft, Line
  <2>2. OutputName(NextLine.target) \in Path
    BY <2>1, Paths
  <2>3. Top.includes \in Seq(Path)
    BY Stages DEF LinesLeft, Frames
  <2> QED
    BY <2>2, <2>3
<1> HIDE DEF i
<1>3. f = [Copied EXCEPT !.includes = i]
  BY <1>1 DEF i
<1>4. /\ f \in Frames /\ f.shift = Top.shift
      /\ f.file = Top.file /\ f.pc = "read"
      /\ f.reading # <<>> /\ f.tokens = Copied.tokens
      /\ f.reading = Copied.reading
  BY <1>1, <1>2, <1>3 DEF Frames
<1>5. SetTop(f)
  OBVIOUS
<1> HIDE DEF f
<1>6. /\ frames' \in Seq(Frames) /\ frames' # <<>>
      /\ Nesting' /\ ModeOK' /\ LinesOK' /\ TempsOK'
  BY <1>4, <1>5, TempsRead, ReadsOn
<1>7. TypeOK'
  BY <1>6, CountedLine DEF Inv, TypeOK
<1> QED
  BY <1>6, <1>7 DEF Inv

\* A line that ends the conversion: the line is counted and not copied.
LEMMA ReadFailsInv ==
  ASSUME Inv, ReadDirective \/ IncludeAgain
  PROVE  Inv'
<1> USE DEF commandLine, tempVars, scriptVars
<1>1. PICK type \in {"directive", "INCL2"} :
        /\ LinesLeft /\ Counted
        /\ Raise(<<Error(type, globalLineNo', Here)>>, lineIndex', logStream)
        /\ UNCHANGED <<disk, opt, args, frames, temps, svrfFileName, compiled,
                       tmpIndex, output, conversions>>
  BY DEF ReadDirective, IncludeAgain
<1>2. status = "converting" /\ Here \in Place
  BY <1>1, ReaderType DEF LinesLeft, At
<1>3. /\ globalLineNo' \in Nat
      /\ lineIndex' \in [DOMAIN lineIndex' -> Position]
      /\ DOMAIN lineIndex' = 1..globalLineNo'
  BY <1>1, CountedLine
<1>4. <<Error(type, globalLineNo', Here)>> \in Seq(Errors)
  BY <1>2, <1>3 DEF Error, Errors
<1>5. /\ errorList' \in Seq(Errors)
      /\ shown' \in Seq(Messages)
      /\ outStream' \in [open : BOOLEAN, path : Path]
      /\ logStream' \in {"unset", "open", "closed"}
      /\ status' \in {"thrown", "exited"}
  <2>1. TypeOK /\ logStream \in {"unset", "open", "closed"}
    BY DEF Inv, TypeOK
  <2> QED
    BY <1>1, <1>3, <1>4, <2>1, RaiseType
<1>6. TypeOK'
  BY <1>1, <1>2, <1>3, <1>5 DEF Inv, TypeOK
<1>7. Nesting' /\ ModeOK' /\ LinesOK' /\ TempsOK'
  BY <1>1, <1>2, <1>5, Ends
<1> QED
  BY <1>6, <1>7 DEF Inv

LEMMA RegisteredFrame ==
  ASSUME Inv, Registers
  PROVE  /\ NextLine.target \in Sources
         /\ Registered \in Frames
         /\ Registered.shift = Top.shift /\ Registered.includes = Top.includes
         /\ Registered.pc = "read" /\ Registered.file = Top.file
         /\ Registered.tokens = Copied.tokens
         /\ Registered.reading = Copied.reading
         /\ Registered.reading # <<>>
<1>1. LinesLeft
  BY DEF Registers
<1>2. NextLine.target \in Sources
  BY <1>1, ReaderType DEF LinesLeft, Line
<1>3. /\ Copied \in Frames /\ Copied.shift = Top.shift
      /\ Copied.includes = Top.includes /\ Copied.pc = "read"
      /\ Copied.file = Top.file /\ Copied.reading # <<>>
  BY <1>1, CopiedFrame
<1> QED
  BY <1>2, <1>3 DEF Registered, Frames

LEMMA IncludeMissingInv ==
  ASSUME Inv, IncludeMissing
  PROVE  Inv'
<1> USE DEF IncludeMissing, commandLine, tempVars, scriptVars, streams
<1>1. LinesLeft /\ Counted
  BY DEF Registers
<1>2. /\ frames' \in Seq(Frames) /\ frames' # <<>>
      /\ Nesting' /\ ModeOK' /\ LinesOK' /\ TempsOK'
  BY <1>1, RegisteredFrame, TempsRead, ReadsOn
<1>3. /\ globalLineNo' \in Nat
      /\ lineIndex' \in [DOMAIN lineIndex' -> Position]
      /\ DOMAIN lineIndex' = 1..globalLineNo'
  BY <1>1, CountedLine
<1>4. errorList' \in Seq(Errors)
  <2>1. Here \in Place
    BY <1>1, ReaderType DEF LinesLeft
  <2>2. Error("INCL1", globalLineNo', Here) \in Errors
    BY <1>3, <2>1 DEF Error, Errors
  <2> QED
    BY <2>2 DEF Inv, TypeOK
<1>5. TypeOK'
  BY <1>2, <1>3, <1>4 DEF Inv, TypeOK
<1> QED
  BY <1>2, <1>5 DEF Inv

LEMMA IncludedTvfFailsInv ==
  ASSUME Inv, IncludedTvfFails
  PROVE  Inv'
<1> USE DEF IncludedTvfFails, commandLine
<1>1. LinesLeft /\ Counted /\ status = "converting"
  BY DEF Registers, LinesLeft, At
<1>2. /\ globalLineNo' \in Nat
      /\ lineIndex' \in [DOMAIN lineIndex' -> Position]
      /\ DOMAIN lineIndex' = 1..globalLineNo'
  BY <1>1, CountedLine
<1>3. shown' \in Seq(Messages)
  <2>1. errorList \in Seq(Errors) /\ shown \in Seq(Messages)
    BY DEF Inv, TypeOK
  <2>2. Reports(errorList, lineIndex', logStream) \in Seq(Messages)
    BY <1>2, <2>1, ReportsType
  <2> QED
    BY <2>1, <2>2
<1>4. /\ outStream' \in [open : BOOLEAN, path : Path]
      /\ logStream' \in {"unset", "closed"}
  BY EndWriteType DEF Inv
<1>5. /\ svrfFileName' \in Path /\ tmpIndex' \in Nat
      /\ temps' \subseteq OwnTemps \cup {Generated(n) : n \in 0..(tmpIndex' - 1)}
  BY CompiledType DEF Inv
<1>6. TypeOK'
  BY <1>2, <1>3, <1>4, <1>5 DEF Inv, TypeOK, OwnTemps
<1>7. Nesting' /\ ModeOK' /\ LinesOK' /\ TempsOK'
  BY <1>1, Ends
<1> QED
  BY <1>6, <1>7 DEF Inv

LEMMA IncludeFileInv ==
  ASSUME Inv, IncludeFile
  PROVE  Inv'
<1> USE DEF IncludeFile, commandLine, streams, errorVars
<1> DEFINE file == Opened(NextLine.target, realFile(NextLine.target))
           r == Append(Copied.reading, file)
           f == [Registered EXCEPT !.reading = Append(@, file)]
<1>1. LinesLeft /\ Counted /\ status = "converting"
  BY DEF Registers, LinesLeft, At
<1>2. /\ NextLine.target \in Sources
      /\ Registered \in Frames
      /\ Registered.shift = Top.shift /\ Registered.includes = Top.includes
      /\ Registered.pc = "read" /\ Registered.file = Top.file
      /\ Registered.tokens = Copied.tokens
      /\ Registered.reading = Copied.reading
  BY RegisteredFrame
<1>10. /\ svrfFileName' \in Path /\ tmpIndex' \in Nat
       /\ temps' \subseteq OwnTemps \cup {Generated(n) : n \in 0..(tmpIndex' - 1)}
       /\ temps' \subseteq temps \cup RemovedWith(<<file>>)
       /\ realFile(NextLine.target) \in Path
  BY <1>2, CompiledType, Paths DEF Inv
<1>3. file \in Readers
  BY <1>2, <1>10 DEF Opened, Readers
<1>4. Copied.reading \in Seq(Readers)
  BY <1>1, CopiedFrame DEF Frames
<1> HIDE DEF file
<1>5. r \in Seq(Readers) /\ r # <<>>
  BY SMTT(30), <1>3, <1>4
<1>12. temps' \subseteq OwnTemps \cup RemovedWith(r)
  BY <1>1, <1>4, <1>10, RemovedAppend, TempsRead
<1> HIDE DEF r
<1>6. f = [Registered EXCEPT !.reading = r]
  BY <1>2 DEF r
<1>7. /\ f \in Frames /\ f.shift = Top.shift /\ f.includes = Top.includes
      /\ f.pc = "read" /\ f.file = Top.file
      /\ f.tokens = Copied.tokens /\ f.reading # <<>> /\ f.reading = r
  BY <1>2, <1>5, <1>6 DEF Frames
<1>8. SetTop(f)
  BY DEF file
<1> HIDE DEF f
<1>9. /\ frames' \in Seq(Frames) /\ frames' # <<>>
      /\ Nesting' /\ ModeOK' /\ LinesOK' /\ TempsOK'
  BY <1>1, <1>7, <1>8, <1>12, ReadsOn
<1>11. TypeOK'
  BY <1>1, <1>9, <1>10, CountedLine DEF Inv, TypeOK, OwnTemps
<1> QED
  BY <1>9, <1>11 DEF Inv

LEMMA EndOfFileInv ==
  ASSUME Inv, EndOfFile
  PROVE  Inv'
<1> USE DEF EndOfFile, commandLine, tempVars, scriptVars, streams, lineVars,
            errorVars
<1> DEFINE r  == Front(Top.reading)
           g  == Top.registered \ {Reader.source}
           pc == IF Len(Top.reading) = 1 THEN "parse" ELSE Top.pc
           f  == [Top EXCEPT !.reading = r, !.registered = g, !.pc = pc]
<1>1. /\ status = "converting" /\ frames \in Seq(Frames) /\ frames # <<>>
      /\ Top \in Frames /\ Top.pc = "read" /\ FrameOK(Top)
  BY Stages
<1>2. /\ Top.reading \in Seq(Readers)
      /\ Top.reading # <<>>
  BY ReaderType
<1>3. /\ r \in Seq(Readers)
      /\ (r = <<>>) <=> (Len(Top.reading) = 1)
  BY <1>2, FrontOf
<1>4. g \in SUBSET Sources
  BY <1>1 DEF Frames
<1>5. pc \in {"read", "parse"} /\ ((pc = "read") <=> (r # <<>>))
  BY <1>1, <1>3
<1>6. SetTop(f)
  OBVIOUS
<1>12. temps' \subseteq OwnTemps \cup RemovedWith(r)
  BY <1>1, <1>2, RemovedLast DEF Inv, TempsOK, Reader
<1> HIDE DEF r, g, pc
<1>7. /\ f \in Frames /\ f.shift = Top.shift /\ f.includes = Top.includes
      /\ f.file = Top.file /\ f.tokens = Top.tokens
      /\ f.reading = r /\ f.pc = pc
  BY <1>1, <1>3, <1>4, <1>5 DEF Frames
<1>8. FrameOK(f)
  BY <1>1, <1>5, <1>7 DEF FrameOK
<1> HIDE DEF f
<1>9. /\ frames' \in Seq(Frames) /\ frames' # <<>> /\ Nesting'
      /\ Top' = f /\ Len(frames') = Len(frames)
  BY <1>1, <1>6, <1>7, <1>8, Stays
<1>10. TypeOK'
  BY <1>9 DEF Inv, TypeOK
<1>11. ModeOK' /\ LinesOK' /\ TempsOK'
  BY <1>1, <1>5, <1>7, <1>9, <1>12 DEF Inv, ModeOK, LinesOK, TempsOK
<1> QED
  BY <1>9, <1>10, <1>11 DEF Inv

-----------------------------------------------------------------------------
(***************************************************************************)
(* The stages after it, and the include files.                             *)
(***************************************************************************)
LEMMA TokenType ==
  ASSUME Inv, NEW pc, At(pc), NEW k \in DOMAIN Top.tokens
  PROVE  /\ k \in 1..Len(Top.tokens)
         /\ Len(Top.tokens) \in Nat
         /\ k \in Nat \ {0}
         /\ Top.tokens[k] \in Token
         /\ Top.tokens[k].place \in Place
         /\ Top.shift \in Nat
<1>1. Top \in Frames
  BY Stages
<1>2. Top.tokens \in Seq(Token) /\ Top.shift \in Nat
  BY <1>1 DEF Frames
<1>3. k \in 1..Len(Top.tokens) /\ Len(Top.tokens) \in Nat
  BY <1>2
<1>4. Top.tokens[k] \in Token
  BY <1>2, <1>3
<1>5. Top.tokens[k].place \in Place
  BY <1>4 DEF Token
<1> QED
  BY <1>2, <1>3, <1>4, <1>5

LEMMA MacroFailsInv ==
  ASSUME Inv, MacroFails
  PROVE  Inv'
<1> USE DEF MacroFails, commandLine, tempVars, scriptVars, lineVars
<1>1. PICK k \in LinesWith({"macro"}) :
        Raise(<<Error("MACRO", k, Top.tokens[k].place)>>, lineIndex, logStream)
  OBVIOUS
<1>2. /\ status = "converting" /\ Top \in Frames
  BY Stages
<1>3. k \in Nat /\ Top.tokens[k].place \in Place
  BY TokenType DEF LinesWith
<1>4. <<Error("MACRO", k, Top.tokens[k].place)>> \in Seq(Errors)
  BY <1>3 DEF Error, Errors
<1>5. /\ errorList' \in Seq(Errors)
      /\ shown' \in Seq(Messages)
      /\ outStream' \in [open : BOOLEAN, path : Path]
      /\ logStream' \in {"unset", "open", "closed"}
      /\ status' \in {"thrown", "exited"}
  <2>1. TypeOK /\ logStream \in {"unset", "open", "closed"}
        /\ lineIndex \in [DOMAIN lineIndex -> Position]
    BY DEF Inv, TypeOK
  <2> QED
    BY <1>1, <1>4, <2>1, RaiseType
<1>6. TypeOK'
  BY <1>2, <1>5 DEF Inv, TypeOK
<1>7. Nesting' /\ ModeOK' /\ LinesOK' /\ TempsOK'
  BY <1>2, <1>5, Ends
<1> QED
  BY <1>6, <1>7 DEF Inv

LEMMA ParseMacrosInv ==
  ASSUME Inv, ParseMacros
  PROVE  Inv'
<1> USE DEF ParseMacros, commandLine, tempVars, scriptVars, streams, lineVars,
            errorVars
<1> DEFINE f == [Top EXCEPT !.pc = "convert"]
<1>1. /\ status = "converting" /\ frames \in Seq(Frames) /\ frames # <<>>
      /\ Top \in Frames /\ Top.pc = "parse" /\ FrameOK(Top)
  BY Stages
<1>2. /\ f \in Frames /\ f.shift = Top.shift /\ f.includes = Top.includes
      /\ f.pc = "convert" /\ f.file = Top.file
  BY <1>1 DEF Frames
<1>3. FrameOK(f) /\ SetTop(f)
  BY <1>1, <1>2 DEF FrameOK, Goto
<1> HIDE DEF f
<1>4. /\ frames' \in Seq(Frames) /\ frames' # <<>> /\ Nesting'
      /\ Top' = f /\ Len(frames') = Len(frames)
  BY <1>1, <1>2, <1>3, Stays
<1>5. TypeOK'
  BY <1>4 DEF Inv, TypeOK
<1>6. ModeOK' /\ LinesOK' /\ TempsOK'
  BY <1>1, <1>2, <1>4, NotReading DEF Inv, ModeOK, LinesOK, TempsOK
<1> QED
  BY <1>4, <1>5, <1>6 DEF Inv

LEMMA NotedType ==
  ASSUME Inv, At("convert"), NEW k \in Noted,
         NEW type \in {"WARNING", "SYNTAX"}
  PROVE  /\ k \in Nat /\ k \in DOMAIN Top.tokens
         /\ SyntaxError(type, k) \in Errors
<1>1. k \in DOMAIN Top.tokens
  BY DEF Noted, LinesWith
<1>2. k \in Nat /\ Top.tokens[k].place \in Place /\ Top.shift \in Nat
  BY <1>1, TokenType
<1> QED
  BY <1>1, <1>2 DEF SyntaxError, Error, Errors, GlobalLine

LEMMA WarnInv ==
  ASSUME Inv, Warn
  PROVE  Inv'
<1> USE DEF Warn, commandLine, tempVars, scriptVars, streams, lineVars
<1>1. PICK k \in Noted :
        /\ errorList' = Append(errorList, SyntaxError("WARNING", k))
        /\ SetTop([Top EXCEPT !.line = k])
  OBVIOUS
<1> DEFINE f == [Top EXCEPT !.line = k]
<1>2. /\ status = "converting" /\ frames \in Seq(Frames) /\ frames # <<>>
      /\ Top \in Frames /\ Top.pc = "convert" /\ FrameOK(Top)
  BY Stages
<1>3. k \in Nat /\ SyntaxError("WARNING", k) \in Errors
  BY NotedType
<1>4. /\ f \in Frames /\ f.shift = Top.shift /\ f.includes = Top.includes
      /\ f.pc = "convert" /\ f.file = Top.file /\ f.tokens = Top.tokens
  BY <1>2, <1>3 DEF Frames
<1>5. FrameOK(f) /\ SetTop(f)
  BY <1>1, <1>2, <1>4 DEF FrameOK
<1> HIDE DEF f
<1>6. /\ frames' \in Seq(Frames) /\ frames' # <<>> /\ Nesting'
      /\ Top' = f /\ Len(frames') = Len(frames)
  BY <1>2, <1>4, <1>5, Stays
<1>7. errorList' \in Seq(Errors)
  BY <1>1, <1>3 DEF Inv, TypeOK
<1>8. TypeOK'
  BY <1>6, <1>7 DEF Inv, TypeOK
<1>9. ModeOK' /\ LinesOK' /\ TempsOK'
  BY <1>2, <1>4, <1>6, NotReading DEF Inv, ModeOK, LinesOK, TempsOK
<1> QED
  BY <1>6, <1>8, <1>9 DEF Inv

LEMMA ConvertFailsInv ==
  ASSUME Inv, ConvertFails
  PROVE  Inv'
<1> USE DEF ConvertFails, commandLine, tempVars, scriptVars, lineVars
<1>1. PICK k \in Noted :
        Raise(<<SyntaxError("SYNTAX", k)>>, lineIndex, logStream)
  OBVIOUS
<1>2. status = "converting"
  BY Stages
<1>3. SyntaxError("SYNTAX", k) \in Errors
  BY NotedType
<1>4. /\ errorList' \in Seq(Errors)
      /\ shown' \in Seq(Messages)
      /\ outStream' \in [open : BOOLEAN, path : Path]
      /\ logStream' \in {"unset", "open", "closed"}
      /\ status' \in {"thrown", "exited"}
  <2>1. /\ TypeOK /\ logStream \in {"unset", "open", "closed"}
        /\ lineIndex \in [DOMAIN lineIndex -> Position]
        /\ <<SyntaxError("SYNTAX", k)>> \in Seq(Errors)
    BY <1>3 DEF Inv, TypeOK
  <2> QED
    BY <1>1, <2>1, RaiseType
<1>5. TypeOK'
  BY <1>2, <1>4 DEF Inv, TypeOK
<1>6. Nesting' /\ ModeOK' /\ LinesOK' /\ TempsOK'
  BY <1>2, <1>4, Ends
<1> QED
  BY <1>5, <1>6 DEF Inv

LEMMA ConvertInv ==
  ASSUME Inv, Convert
  PROVE  Inv'
<1> USE DEF Convert, commandLine, scriptVars, streams, lineVars, errorVars
<1> DEFINE f == [Top EXCEPT !.pc = "report"]
<1>1. /\ status = "converting" /\ frames \in Seq(Frames) /\ frames # <<>>
      /\ Top \in Frames /\ Top.pc = "convert" /\ FrameOK(Top)
  BY Stages
<1>2. /\ f \in Frames /\ f.shift = Top.shift /\ f.includes = Top.includes
      /\ f.pc = "report" /\ f.file = Top.file
  BY <1>1 DEF Frames
<1>3. FrameOK(f) /\ SetTop(f)
  BY <1>1, <1>2 DEF FrameOK, Goto
<1> HIDE DEF f
<1>4. /\ frames' \in Seq(Frames) /\ frames' # <<>> /\ Nesting'
      /\ Top' = f /\ Len(frames') = Len(frames)
  BY <1>1, <1>2, <1>3, Stays
<1>5. temps' \subseteq {ScriptTmp}
  BY <1>1, NotReading DEF Removed, OwnTemps
<1>6. \A p \in DOMAIN output' : p \in Path /\ output'[p] \in Path
  BY <1>1 DEF Frames, Inv, TypeOK
<1>7. TypeOK'
  BY <1>4, <1>5, <1>6 DEF Inv, TypeOK
<1>8. ModeOK' /\ LinesOK' /\ TempsOK'
  BY <1>1, <1>2, <1>4, <1>5 DEF Inv, ModeOK, LinesOK, TempsOK, OwnTemps
<1> QED
  BY <1>4, <1>7, <1>8 DEF Inv

LEMMA ReportInv ==
  ASSUME Inv, Report
  PROVE  Inv'
<1> USE DEF Report, commandLine, tempVars, scriptVars, lineVars
<1> DEFINE f == [Top EXCEPT !.pc = "includes"]
<1>1. /\ status = "converting" /\ frames \in Seq(Frames) /\ frames # <<>>
      /\ Top \in Frames /\ Top.pc = "report" /\ FrameOK(Top)
  BY Stages
<1>2. /\ f \in Frames /\ f.shift = Top.shift /\ f.includes = Top.includes
      /\ f.pc = "includes" /\ f.file = Top.file
  BY <1>1 DEF Frames
<1>3. shown' \in Seq(Messages)
  BY ReportsType DEF Inv, TypeOK
<1>4. /\ outStream' \in [open : BOOLEAN, path : Path]
      /\ logStream' \in {"unset", "closed"}
  BY EndWriteType DEF Inv, CloseStreams
<1>5. CASE status' = "exited" /\ frames' = frames
  <2>1. TypeOK'
    BY <1>3, <1>4, <1>5 DEF Inv, TypeOK
  <2>2. Nesting' /\ ModeOK' /\ LinesOK' /\ TempsOK'
    BY <1>1, <1>5, Ends
  <2> QED
    BY <2>1, <2>2 DEF Inv
<1>6. CASE SetTop(f) /\ status' = status
  <2>1. FrameOK(f)
    BY <1>1, <1>2 DEF FrameOK
  <2> HIDE DEF f
  <2>2. /\ frames' \in Seq(Frames) /\ frames' # <<>> /\ Nesting'
        /\ Top' = f /\ Len(frames') = Len(frames)
    BY <1>1, <1>2, <1>6, <2>1, Stays
  <2>3. TypeOK'
    BY <1>3, <1>4, <1>6, <2>2 DEF Inv, TypeOK
  <2>4. ModeOK' /\ LinesOK' /\ TempsOK'
    BY <1>1, <1>2, <1>6, <2>2 DEF Inv, ModeOK, LinesOK, TempsOK, OwnTemps
  <2> QED
    BY <2>2, <2>3, <2>4 DEF Inv
<1> QED
  BY <1>5, <1>6 DEF Goto

\* The name of an include file's input is a name.
LEMMA FirstRemoved ==
  ASSUME NEW S, NEW s \in Seq(S), NEW e
  PROVE  RemoveFirst(s, e) \in Seq(S)
<1>1. CASE ~\E i \in 1..Len(s) : s[i] = e
  BY <1>1 DEF RemoveFirst
<1>2. CASE \E i \in 1..Len(s) : s[i] = e
  <2> DEFINE I == {i \in 1..Len(s) : s[i] = e}
             m == Min(I)
  <2>1. I # {} /\ I \subseteq Nat
    BY <1>2
  <2>2. m \in I
    BY <2>1, MinIn
  <2>3. SelectInSeq(s, LAMBDA v : v = e) = m
    BY <2>1 DEF SelectInSeq
  <2>4. m \in 1..Len(s)
    BY <2>2
  <2> HIDE DEF m
  <2>5. SubSeq(s, 1, m - 1) \in Seq(S) /\ SubSeq(s, m + 1, Len(s)) \in Seq(S)
    BY <2>4, Stretch
  <2>6. RemoveAt(s, m) \in Seq(S)
    BY <2>5 DEF RemoveAt
  <2> QED
    BY <1>2, <2>3, <2>6 DEF RemoveFirst
<1> QED
  BY <1>1, <1>2
LEMMA InputNameType ==
  ASSUME NEW path \in Path
  PROVE  InputName(path) \in Path
BY FirstRemoved DEF InputName, Path

\* A nested execute() begins: its lines go on where those of the caller end.
LEMMA Nested ==
  ASSUME Inv, ProcessIncludeFile
  PROVE  LET path == Top.includes[Top.next]
             f    == [Top EXCEPT !.next = @ + 1]
             g    == Frame(InputName(path), path, FALSE, globalLineNo) IN
         /\ path \in Path /\ Top.includes # <<>>
         /\ g \in Frames /\ FrameOK(g) /\ g.pc = "begin"
         /\ g.shift = globalLineNo /\ g.sf = FALSE /\ g.script = FALSE
         /\ g.file = InputName(path) /\ g.out = path
         /\ f \in Frames /\ FrameOK(f) /\ f.pc = "includes"
         /\ f.shift = Top.shift /\ f.file = Top.file /\ f.out = Top.out
         /\ f.script = Top.script
         /\ frames' \in Seq(Frames) /\ frames' # <<>>
         /\ Len(frames') = Len(frames) + 1
         /\ DOMAIN frames' = 1..(Len(frames) + 1)
         /\ Top' = g
         /\ frames'[Len(frames) + 1] = g /\ frames'[Len(frames)] = f
         /\ \A i \in DOMAIN frames : i < Len(frames) => frames'[i] = frames[i]
<1> USE DEF ProcessIncludeFile, commandLine, tempVars, scriptVars, streams,
            lineVars, errorVars
<1> DEFINE path == Top.includes[Top.next]
           f == [Top EXCEPT !.next = @ + 1]
           g == Frame(InputName(path), path, FALSE, globalLineNo)
           s == ReplaceAt(frames, Len(frames), f)
<1>1. /\ status = "converting" /\ frames \in Seq(Frames) /\ frames # <<>>
      /\ Top \in Frames /\ Top.pc = "includes" /\ FrameOK(Top)
      /\ Len(frames) \in Nat \ {0} /\ Top = frames[Len(frames)]
  BY Stages
<1>2. path \in Path /\ Top.includes # <<>>
  <2>1. /\ Top.includes \in Seq(Path) /\ Top.next \in Nat \ {0}
        /\ Top.next <= Len(Top.includes)
    BY <1>1 DEF MoreIncludes, Frames
  <2> QED
    BY <2>1
<1>3. g \in Frames
  <2>1. InputName(path) \in Path /\ globalLineNo \in Nat
    BY <1>2, InputNameType DEF Inv, TypeOK
  <2> HIDE DEF path
  <2> QED
    BY <1>2, <2>1 DEF Frame, Frames
<1>4. /\ FrameOK(g) /\ g.pc = "begin" /\ g.shift = globalLineNo
      /\ g.sf = FALSE /\ g.script = FALSE
      /\ g.file = InputName(path) /\ g.out = path
  BY DEF FrameOK, Frame
<1>5. /\ f \in Frames /\ f.pc = "includes" /\ f.shift = Top.shift
      /\ FrameOK(f) /\ f.file = Top.file /\ f.out = Top.out
      /\ f.script = Top.script
  <2> DEFINE n == Top.next + 1
  <2>1. n \in Nat \ {0}
    <3> HIDE DEF ProcessIncludeFile
    <3>1. Top.next \in Nat \ {0}
      BY <1>1 DEF Frames
    <3> QED
      BY <3>1
  <2>2. f = [Top EXCEPT !.next = n]
    OBVIOUS
  <2> HIDE DEF n, f
  <2>3. /\ f \in Frames /\ f.pc = Top.pc /\ f.shift = Top.shift
        /\ f.file = Top.file /\ f.out = Top.out /\ f.script = Top.script
        /\ f.reading = Top.reading
    BY <1>1, <2>1, <2>2 DEF Frames
  <2> QED
    BY <1>1, <2>3 DEF FrameOK
<1>6. frames' = Append(s, g)
  OBVIOUS
<1> HIDE DEF f, g
<1>7. /\ s \in Seq(Frames) /\ Len(s) = Len(frames) /\ s[Len(frames)] = f
      /\ \A i \in DOMAIN frames : i < Len(frames) => s[i] = frames[i]
  BY <1>1, <1>5 DEF ReplaceAt
<1> HIDE DEF s
<1>8. /\ frames' \in Seq(Frames) /\ frames' # <<>>
      /\ Len(frames') = Len(frames) + 1
      /\ DOMAIN frames' = 1..(Len(frames) + 1)
      /\ Top' = g
      /\ frames'[Len(frames) + 1] = g /\ frames'[Len(frames)] = f
      /\ \A i \in DOMAIN frames : i < Len(frames) => frames'[i] = frames[i]
  <2> DEFINE t == Append(s, g)
  <2>1. /\ t \in Seq(Frames) /\ t # <<>>
        /\ Len(t) = Len(frames) + 1
        /\ DOMAIN t = 1..(Len(frames) + 1)
        /\ t[Len(frames) + 1] = g
        /\ \A i \in DOMAIN s : t[i] = s[i]
    BY <1>3, <1>7, Pushed
  <2>2. frames' = t
    BY <1>6
  <2> HIDE DEF t
  <2>3. DOMAIN s = DOMAIN frames /\ Len(frames) \in DOMAIN frames
    BY <1>1, <1>7
  <2>4. \A i \in DOMAIN frames : t[i] = s[i]
    BY <2>1, <2>3
  <2>5. Top' = t[Len(t)]
    BY <2>2 DEF Top, Last
  <2> QED
    BY <1>7, <2>1, <2>2, <2>3, <2>4, <2>5
<1> QED
  BY <1>2, <1>3, <1>4, <1>5, <1>8 DEF f, g

LEMMA ProcessIncludeFileInv ==
  ASSUME Inv, ProcessIncludeFile
  PROVE  Inv'
<1> USE DEF ProcessIncludeFile, commandLine, tempVars, scriptVars, streams,
            lineVars, errorVars
<1> DEFINE path == Top.includes[Top.next]
           f == [Top EXCEPT !.next = @ + 1]
           g == Frame(InputName(path), path, FALSE, globalLineNo)
<1>1. /\ status = "converting" /\ frames \in Seq(Frames) /\ frames # <<>>
      /\ Top \in Frames /\ Top.pc = "includes" /\ FrameOK(Top)
      /\ Len(frames) \in Nat \ {0} /\ Top = frames[Len(frames)]
  BY Stages
<1>2. Top.includes # <<>>
  BY Nested
<1>4. FrameOK(g) /\ g.pc = "begin" /\ g.shift = globalLineNo
  BY Nested
<1>5. f.pc = "includes" /\ f.shift = Top.shift /\ FrameOK(f)
  BY Nested
<1>8. /\ frames' \in Seq(Frames) /\ frames' # <<>>
      /\ Len(frames') = Len(frames) + 1
      /\ DOMAIN frames' = 1..(Len(frames) + 1)
      /\ Top' = g
      /\ frames'[Len(frames) + 1] = g /\ frames'[Len(frames)] = f
      /\ \A i \in DOMAIN frames : i < Len(frames) => frames'[i] = frames[i]
  BY Nested
<1> HIDE DEF f, g
<1>9. Nesting'
  <2>1. \A i \in DOMAIN frames' : \/ i = Len(frames) + 1
                                  \/ i = Len(frames)
                                  \/ i \in DOMAIN frames /\ i < Len(frames)
    BY <1>1, <1>8
  <2>2. \A i \in DOMAIN frames' : FrameOK(frames'[i])
    BY <1>4, <1>5, <1>8, <2>1 DEF Inv, Nesting
  <2>3. \A i \in DOMAIN frames' :
          i < Len(frames') => frames'[i].pc = "includes"
    <3>1. \A i \in DOMAIN frames : i < Len(frames) =>
            frames'[i].pc = "includes"
      BY <1>8 DEF Inv, Nesting
    <3>2. frames'[Len(frames)].pc = "includes"
      BY <1>5, <1>8
    <3>3. Len(frames') = Len(frames) + 1 /\ Len(frames) \in Nat
      BY <1>1, <1>8
    <3>4. ASSUME NEW i \in DOMAIN frames', i < Len(frames')
          PROVE  i = Len(frames) \/ (i \in DOMAIN frames /\ i < Len(frames))
      BY <2>1, <3>3, <3>4
    <3> QED
      BY <3>1, <3>2, <3>4
  <2>4. frames'[1].shift = 0
    <3>1. frames[1].shift = 0
      BY <1>1 DEF Inv, Nesting
    <3>2. CASE Len(frames) = 1
      BY <1>1, <1>5, <1>8, <3>1, <3>2
    <3>3. CASE Len(frames) > 1
      <4>1. 1 \in DOMAIN frames
        BY <1>1
      <4>2. frames'[1] = frames[1]
        BY <1>8, <3>3, <4>1
      <4> QED
        BY <3>1, <4>2
    <3>4. Len(frames) = 1 \/ Len(frames) > 1
      <4>1. Len(frames) \in Nat \ {0} /\ DOMAIN frames = 1..Len(frames)
        BY <1>1
      <4> QED
        BY <4>1
    <3> QED
      BY <3>2, <3>3, <3>4
  <2> QED
    BY <1>1, <2>2, <2>3, <2>4 DEF Nesting
<1>10. TypeOK'
  BY <1>8 DEF Inv, TypeOK
<1>11. ModeOK'
  BY <1>1, <1>2, <1>8 DEF Inv, ModeOK
<1>12. LinesOK' /\ TempsOK'
  BY <1>1, <1>4, <1>8 DEF Inv, LinesOK, TempsOK, OwnTemps
<1> QED
  BY <1>9, <1>10, <1>11, <1>12 DEF Inv

LEMMA ReturnInv ==
  ASSUME Inv, Return
  PROVE  Inv'
<1> USE DEF Return, commandLine, scriptVars, streams, lineVars, errorVars
<1>1. status = "converting" /\ Top.pc = "includes"
  BY DEF At
<1>2. temps \subseteq {ScriptTmp}
  BY <1>1 DEF Inv, TempsOK
<1>3. /\ frames' \in Seq(Frames)
      /\ status' \in {"converting", "idle", "returned"}
      /\ status' = "converting" => frames' # <<>>
      /\ temps' \subseteq {ScriptTmp}
      /\ Nesting' /\ ModeOK' /\ LinesOK' /\ TempsOK'
  BY <1>1, <1>2, Leaves
<1>4. TypeOK'
  BY <1>3 DEF Inv, TypeOK
<1> QED
  BY <1>3, <1>4 DEF Inv

LEMMA StackOverflowInv ==
  ASSUME Inv, StackOverflow
  PROVE  Inv'
<1> USE DEF StackOverflow, commandLine, tempVars, scriptVars, streams,
            lineVars, errorVars
<1>1. status = "converting"
  BY DEF At
<1>2. TypeOK'
  BY DEF Inv, TypeOK
<1>3. Nesting' /\ ModeOK' /\ LinesOK' /\ TempsOK'
  BY <1>1, Ends
<1> QED
  BY <1>2, <1>3 DEF Inv

LEMMA HandleThrowInv ==
  ASSUME Inv, HandleThrow
  PROVE  Inv'
<1> USE DEF HandleThrow, commandLine, scriptVars, lineVars
<1>1. shown' \in Seq(Messages)
  BY ReportsType DEF Inv, TypeOK
<1>2. /\ outStream' \in [open : BOOLEAN, path : Path]
      /\ logStream' \in {"unset", "closed"}
  BY EndWriteType DEF Inv
<1>3. temps' \subseteq {ScriptTmp}
  BY DEF Removed, Inv, TempsOK, OwnTemps
<1>4. TypeOK'
  BY <1>1, <1>2, <1>3 DEF Inv, TypeOK
<1>5. Nesting' /\ ModeOK' /\ LinesOK' /\ TempsOK'
  BY <1>3 DEF Nesting, ModeOK, LinesOK, TempsOK
<1> QED
  BY <1>4, <1>5 DEF Inv

LEMMA StutterInv ==
  ASSUME Inv, UNCHANGED vars
  PROVE  Inv'
BY DEF vars, commandLine, tempVars, scriptVars, streams, lineVars, errorVars,
       Inv, TypeOK, Nesting, ModeOK, LinesOK, TempsOK, FrameOK, Top

LEMMA StageInv ==
  ASSUME Inv, Stage
  PROVE  Inv'
BY BeginWriteInv, OpenFailsInv, NotTvfInv, ConvertToTrsInv, CompileFailsInv,
   CheckInv, PreprocessInv, ReadLineInv, ReadFailsInv, ReadIncludeInv,
   IncludeMissingInv, IncludedTvfFailsInv, IncludeFileInv, EndOfFileInv,
   MacroFailsInv, ParseMacrosInv, WarnInv, ConvertFailsInv, ConvertInv,
   ReportInv, ProcessIncludeFileInv, StackOverflowInv, ReturnInv
   DEF Stage

THEOREM Invariant == Spec => []Inv
<1>1. Init => Inv
  BY InitInv
<1>2. Inv /\ [Next]_vars => Inv'
  BY ParseArgumentInv, MainInv, StageInv, HandleThrowInv, OnConvertInv,
     StutterInv DEF Next, Step, Halted
<1> QED
  BY <1>1, <1>2, PTL DEF Spec

\* The types of the state, and that the lines mapped are those counted.
THEOREM Typed == Spec => []TypeOK
<1>1. Inv => TypeOK
  BY DEF Inv
<1> QED
  BY <1>1, Invariant, PTL
=============================================================================
