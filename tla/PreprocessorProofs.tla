------------------------- MODULE PreprocessorProofs -------------------------
(***************************************************************************)
(* Theorems about Preprocessor, for every disk, option and environment.    *)
(***************************************************************************)
EXTENDS PreprocessorProperties, ListLemmas

-----------------------------------------------------------------------------
(***************************************************************************)
(* Sequences used as stacks.                                               *)
(***************************************************************************)
\* Replacing the last element, as every step does with the current frame.
LEMMA ReplaceTop ==
  ASSUME NEW S, NEW s \in Seq(S), s # <<>>, NEW e \in S
  PROVE  /\ [s EXCEPT ![Len(s)] = e] \in Seq(S)
         /\ Len([s EXCEPT ![Len(s)] = e]) = Len(s)
         /\ [s EXCEPT ![Len(s)] = e] # <<>>
         /\ [s EXCEPT ![Len(s)] = e][Len(s)] = e
         /\ \A i \in 1..(Len(s) - 1) : [s EXCEPT ![Len(s)] = e][i] = s[i]
  OBVIOUS

\* The top of a stack that is not empty (Last of a sequence).
LEMMA TopOf ==
  ASSUME NEW S, NEW s \in Seq(S), s # <<>>
  PROVE  /\ Last(s) \in S
         /\ Len(s) \in Nat \ {0}
         /\ Last(s) = s[Len(s)]
  BY DEF Last

\* Popping (Front of a sequence).
LEMMA Pop ==
  ASSUME NEW S, NEW s \in Seq(S), s # <<>>
  PROVE  /\ Front(s) \in Seq(S)
         /\ Len(Front(s)) = Len(s) - 1
         /\ \A i \in 1..(Len(s) - 1) : Front(s)[i] = s[i]
<1> DEFINE n == Len(s) - 1
<1>1. Len(s) \in Nat \ {0} /\ n \in Nat
  OBVIOUS
<1>2. \A i \in 1..n : s[i] \in S
  BY <1>1
<1>3. Front(s) = SubSeq(s, 1, n)
  BY DEF Front
<1> HIDE DEF n
<1>4. /\ SubSeq(s, 1, n) \in Seq(S)
      /\ Len(SubSeq(s, 1, n)) = n
      /\ \A i \in 1..n : SubSeq(s, 1, n)[i] = s[i]
  BY <1>1, <1>2, SubSeqProperties
<1> QED
  BY <1>3, <1>4 DEF n

\* Pushing.
LEMMA PushOn ==
  ASSUME NEW S, NEW s \in Seq(S), NEW e \in S
  PROVE  /\ Append(s, e) \in Seq(S)
         /\ Append(s, e) # <<>>
         /\ Len(Append(s, e)) = Len(s) + 1
         /\ Append(s, e)[Len(s) + 1] = e
         /\ \A i \in 1..Len(s) : Append(s, e)[i] = s[i]
  OBVIOUS

-----------------------------------------------------------------------------
(***************************************************************************)
(* The inductive invariant.  TypeOK alone is not inductive: that #endif    *)
(* restores a flag that is there needs SkippedStaysSkipped (no #else is    *)
(* without its #ifdef), and that the line read is a line needs FramesOK.   *)
(***************************************************************************)
FramesOK ==
  /\ status = "running" => frames # <<>>
  /\ \A i \in DOMAIN frames : frames[i].pos <= Len(LinesOf(frames[i].path))

IInv == TypeOK /\ FramesOK /\ SkippedStaysSkipped

\* A line that is read is a line of a file, and reading it leaves frames that
\* are still within their files.
LEMMA CurrentTyped ==
  ASSUME IInv, status = "running"
  PROVE  /\ Current \in Frame
         /\ Current = frames[Len(frames)]
         /\ Len(frames) \in Nat \ {0}
         /\ LinesOf(Current.path) \in Seq(Line)
         /\ Current.pos <= Len(LinesOf(Current.path))
<1>1. frames \in Seq(Frame) /\ frames # <<>>
  BY DEF IInv, TypeOK, FramesOK
<1>2. /\ Current \in Frame
      /\ Current = frames[Len(frames)]
      /\ Len(frames) \in Nat \ {0}
  BY <1>1, TopOf DEF Current
<1>3. LinesOf(Current.path) \in Seq(Line)
  BY <1>2, ConstantsTyped DEF IInv, TypeOK, Frame, File, LinesOf
<1>4. Current.pos <= Len(LinesOf(Current.path))
  BY <1>1, <1>2 DEF IInv, FramesOK
<1> QED
  BY <1>2, <1>3, <1>4

LEMMA CurrentLineTyped ==
  ASSUME IInv, status = "running", ~AtEnd
  PROVE  /\ CurrentLine \in Line
         /\ Current.pos + 1 <= Len(LinesOf(Current.path))
BY CurrentTyped DEF AtEnd, CurrentLine, Frame

LEMMA AdvanceTyped ==
  ASSUME IInv, status = "running", ~AtEnd, NEW crypt \in BOOLEAN,
         NEW fs, fs = [frames EXCEPT ![Len(frames)] = AdvancedFrame(crypt)]
  PROVE  /\ AdvancedFrame(crypt) \in Frame
         /\ fs \in Seq(Frame)
         /\ fs # <<>>
         /\ Len(fs) = Len(frames)
         /\ fs[Len(frames)] = AdvancedFrame(crypt)
         /\ \A i \in 1..(Len(frames) - 1) : fs[i] = frames[i]
         /\ \A i \in DOMAIN fs : fs[i].pos <= Len(LinesOf(fs[i].path))
<1>1. /\ AdvancedFrame(crypt) \in Frame
      /\ AdvancedFrame(crypt).path = Current.path
      /\ AdvancedFrame(crypt).pos = Current.pos + 1
  BY CurrentTyped DEF AdvancedFrame, Frame
<1>2. frames \in Seq(Frame) /\ frames # <<>>
  BY DEF IInv, TypeOK, FramesOK
<1>3. /\ fs \in Seq(Frame)
      /\ fs # <<>>
      /\ Len(fs) = Len(frames)
      /\ fs[Len(frames)] = AdvancedFrame(crypt)
      /\ \A i \in 1..(Len(frames) - 1) : fs[i] = frames[i]
  BY <1>1, <1>2, ReplaceTop
<1>4. ASSUME NEW i \in DOMAIN fs
      PROVE  fs[i].pos <= Len(LinesOf(fs[i].path))
  <2>1. CASE i = Len(frames)
    BY <2>1, <1>1, <1>3, CurrentLineTyped DEF Frame
  <2>2. CASE i # Len(frames)
    <3>1. i \in 1..Len(frames) /\ i # Len(frames)
      BY <2>2, <1>3, LenProperties
    <3>2. Len(frames) \in Nat
      BY <1>2
    <3>3. i \in 1..(Len(frames) - 1) /\ i \in DOMAIN frames
      BY <3>1, <3>2, <1>2, LenProperties
    <3> QED
      BY <3>3, <1>3 DEF IInv, FramesOK
  <2> QED
    BY <2>1, <2>2
<1> QED
  BY <1>1, <1>3, <1>4

-----------------------------------------------------------------------------
(***************************************************************************)
(* The parts of a step.                                                    *)
(***************************************************************************)
LineTyped ==
  /\ globalLineNo \in Nat
  /\ lineIndex \in Seq([path : Paths, local : Nat])

TextTyped ==
  /\ newlines \in Nat
  /\ out \in Seq([at : Nat, global : Nat])

ErrorsTyped ==
  /\ status \in {"start", "running", "done", "exited", "aborted"}
  /\ errorList \in Seq([type : ErrorTypes, line : Nat])

StackTyped ==
  /\ conditionalsStack \in
       Seq([type : {"IFDEF", "IFNDEF", "ELSE"}, enabled : BOOLEAN])
  /\ isEnabled \in BOOLEAN
  /\ SkippedStaysSkipped

FilesTyped ==
  /\ disk \in [Files -> File]
  /\ mode \in Mode
  /\ fileCollection \subseteq Paths
  /\ includeFile \in Seq(Paths)

NamesTyped ==
  /\ nameDefinition \in [Names -> NameValue]
  /\ envMap \in [DollarNames -> Values \cup {NoValue}]

FramesTyped == frames \in Seq(Frame) /\ FramesOK

\* The invariant is the conjunction of these parts.
LEMMA Parts ==
  ASSUME LineTyped', TextTyped', ErrorsTyped', StackTyped', FilesTyped',
         NamesTyped', FramesTyped'
  PROVE  IInv'
BY DEF IInv, TypeOK, LineTyped, TextTyped, ErrorsTyped, StackTyped,
       FilesTyped, NamesTyped, FramesTyped

LEMMA CountLineTyped ==
  ASSUME IInv, status = "running", CountLine
  PROVE  LineTyped'
<1>1. [path |-> Current.path, local |-> Current.pos + 1]
        \in [path : Paths, local : Nat]
  BY CurrentTyped DEF Frame
<1> QED
  BY <1>1 DEF IInv, TypeOK, CountLine, LineTyped

LEMMA WriteTyped ==
  ASSUME IInv, LineTyped', NEW hasText \in BOOLEAN, NEW n \in Nat, Write(hasText, n)
  PROVE  TextTyped'
<1>1. [at |-> newlines + 1, global |-> globalLineNo'] \in [at : Nat, global : Nat]
  BY DEF IInv, TypeOK, LineTyped
<1>2. newlines' \in Nat
  BY DEF IInv, TypeOK, Write
<1>3. CASE hasText
  BY <1>1, <1>2, <1>3 DEF IInv, TypeOK, Write, TextTyped
<1>4. CASE ~hasText
  BY <1>2, <1>4 DEF IInv, TypeOK, Write, TextTyped
<1> QED
  BY <1>3, <1>4

LEMMA NothingWrittenTyped ==
  ASSUME IInv, WriteNothing
  PROVE  TextTyped'
BY DEF IInv, TypeOK, WriteNothing, TextTyped

LEMMA AddErrorTyped ==
  ASSUME IInv, LineTyped', NEW type \in ErrorTypes, AddError(type)
  PROVE  errorList' \in Seq([type : ErrorTypes, line : Nat])
<1>1. [type |-> type, line |-> globalLineNo'] \in [type : ErrorTypes, line : Nat]
  BY DEF LineTyped
<1> QED
  BY <1>1 DEF IInv, TypeOK, AddError

LEMMA FatalTyped ==
  ASSUME IInv, LineTyped', NEW type \in ErrorTypes, Fatal(type)
  PROVE  ErrorsTyped'
BY AddErrorTyped DEF Fatal, ErrorsTyped

LEMMA NoErrorTyped ==
  ASSUME IInv, NoError
  PROVE  ErrorsTyped'
BY DEF IInv, TypeOK, NoError, ErrorsTyped

LEMMA AdvanceFramesTyped ==
  ASSUME IInv, status = "running", ~AtEnd, UNCHANGED disk, NEW crypt \in BOOLEAN,
         frames' = [frames EXCEPT ![Len(frames)] = AdvancedFrame(crypt)]
  PROVE  FramesTyped'
<1>1. /\ frames' \in Seq(Frame)
      /\ frames' # <<>>
      /\ \A i \in DOMAIN frames' :
           frames'[i].pos <= Len(LinesOf(frames'[i].path))
  BY AdvanceTyped
<1> QED
  BY <1>1 DEF FramesTyped, FramesOK, LinesOf

LEMMA TakeLineTyped ==
  ASSUME IInv, status = "running", ~AtEnd, UNCHANGED disk, TakeLine
  PROVE  LineTyped' /\ FramesTyped'
BY CountLineTyped, AdvanceFramesTyped DEF TakeLine

LEMMA StackUnchanged ==
  ASSUME IInv, UNCHANGED condVars
  PROVE  StackTyped'
BY DEF IInv, TypeOK, condVars, StackTyped, SkippedStaysSkipped

LEMMA FilesUnchanged ==
  ASSUME IInv, UNCHANGED <<runVars, fileCollection, includeFile>>
  PROVE  FilesTyped'
BY DEF IInv, TypeOK, runVars, FilesTyped

LEMMA NamesUnchanged ==
  ASSUME IInv, UNCHANGED <<nameDefinition, envMap>>
  PROVE  NamesTyped'
BY DEF IInv, TypeOK, NamesTyped

-----------------------------------------------------------------------------
(***************************************************************************)
(* The stack of conditionals.                                              *)
(***************************************************************************)
Entry == [type : {"IFDEF", "IFNDEF", "ELSE"}, enabled : BOOLEAN]

\* What #ifdef, #ifndef and #else push may only be enabled, and leave enabled,
\* where all of the stack is.
LEMMA PushKeepsSkipped ==
  ASSUME IInv, NEW e \in Entry,
         conditionalsStack' = Append(conditionalsStack, e),
         isEnabled' \in BOOLEAN,
         isEnabled' => e.enabled,
         e.enabled => \A i \in 1..Len(conditionalsStack) :
                        conditionalsStack[i].enabled,
         e.type = "ELSE" => /\ conditionalsStack # <<>>
                            /\ Last(conditionalsStack).type # "ELSE"
  PROVE  StackTyped'
<1> DEFINE s == conditionalsStack
           n == Len(s)
<1>1. /\ s \in Seq(Entry)
      /\ n \in Nat
      /\ DOMAIN s = 1..n
      /\ \A i \in 1..n : s[i] \in Entry
  <2>1. s \in Seq(Entry)
    BY DEF IInv, TypeOK, Entry
  <2> QED
    BY <2>1, LenProperties
<1>2. /\ \A i, j \in 1..n : i < j /\ s[j].enabled => s[i].enabled
      /\ \A i \in 1..n : s[i].type = "ELSE" => i > 1 /\ s[i - 1].type # "ELSE"
  BY <1>1 DEF IInv, SkippedStaysSkipped
<1>3. /\ s' \in Seq(Entry)
      /\ DOMAIN s' = 1..(n + 1)
      /\ s'[n + 1] = e
      /\ \A i \in 1..n : s'[i] = s[i]
  BY <1>1, PushOn, LenProperties
<1>4. e.type = "ELSE" => n > 0 /\ s[n].type # "ELSE"
  BY <1>1, TopOf
<1> HIDE DEF s, n
<1>5. e.enabled => \A i \in 1..n : s[i].enabled
  BY DEF s, n
<1>6. isEnabled' => \A i \in DOMAIN s' : s'[i].enabled
  BY <1>1, <1>3, <1>5
<1>7. ASSUME NEW i \in DOMAIN s', NEW j \in DOMAIN s', i < j, s'[j].enabled
      PROVE  s'[i].enabled
  <2>1. i \in 1..n /\ j \in 1..(n + 1)
    BY <1>1, <1>3, <1>7
  <2>2. CASE j = n + 1
    BY <2>1, <2>2, <1>3, <1>5, <1>7
  <2>3. CASE j # n + 1
    <3>1. j \in 1..n
      BY <2>1, <2>3, <1>1
    <3> QED
      BY <3>1, <2>1, <1>2, <1>3, <1>7
  <2> QED
    BY <2>2, <2>3
<1>8. ASSUME NEW i \in DOMAIN s', s'[i].type = "ELSE"
      PROVE  i > 1 /\ s'[i - 1].type # "ELSE"
  <2>1. CASE i = n + 1
    BY <2>1, <1>1, <1>3, <1>4, <1>8
  <2>2. CASE i # n + 1
    <3>1. i \in 1..n
      BY <2>2, <1>1, <1>3
    <3>2. i > 1 /\ s[i - 1].type # "ELSE" /\ i - 1 \in 1..n
      BY <3>1, <1>1, <1>2, <1>3, <1>8
    <3> QED
      BY <3>2, <1>3
  <2> QED
    BY <2>1, <2>2
<1> QED
  BY <1>3, <1>6, <1>7, <1>8 DEF s, StackTyped, SkippedStaysSkipped, Entry

\* #endif restores the flag of the #ifdef, that of the #else above it apart.
LEMMA PopKeepsSkipped ==
  ASSUME IInv, conditionalsStack # <<>>,
         isEnabled' = Last(WithoutElse).enabled,
         conditionalsStack' = Front(WithoutElse)
  PROVE  StackTyped'
<1> DEFINE s == conditionalsStack
           n == Len(s)
           m == IF s[n].type = "ELSE" THEN n - 1 ELSE n
           w == WithoutElse
<1>1. /\ s \in Seq(Entry)
      /\ n \in Nat \ {0}
      /\ DOMAIN s = 1..n
      /\ \A i \in 1..n : s[i] \in Entry
      /\ Last(s) = s[n]
  BY LenProperties, TopOf DEF IInv, TypeOK, Entry
<1>2. /\ \A i, j \in 1..n : i < j /\ s[j].enabled => s[i].enabled
      /\ \A i \in 1..n : s[i].type = "ELSE" => i > 1 /\ s[i - 1].type # "ELSE"
  BY <1>1 DEF IInv, SkippedStaysSkipped
<1>3. m \in 1..n
  BY <1>1, <1>2
<1>4. /\ w \in Seq(Entry)
      /\ Len(w) = m
      /\ \A i \in 1..m : w[i] = s[i]
  <2>1. CASE s[n].type = "ELSE"
    <3>1. /\ Front(s) \in Seq(Entry)
          /\ Len(Front(s)) = n - 1
          /\ \A i \in 1..(n - 1) : Front(s)[i] = s[i]
      BY <1>1, Pop
    <3> QED
      BY <3>1, <2>1, <1>1 DEF WithoutElse
  <2>2. CASE s[n].type # "ELSE"
    BY <2>2, <1>1 DEF WithoutElse
  <2> QED
    BY <2>1, <2>2
<1> HIDE DEF m, w, n, s
<1>5. w # <<>>
  BY <1>3, <1>4
<1>6. Last(w) = s[m] /\ Last(w) \in Entry
  BY <1>3, <1>4, <1>5, TopOf
<1>7. /\ Front(w) \in Seq(Entry)
      /\ DOMAIN Front(w) = 1..(m - 1)
      /\ \A i \in 1..(m - 1) : Front(w)[i] = s[i]
  <2>1. /\ Front(w) \in Seq(Entry)
        /\ Len(Front(w)) = m - 1
        /\ \A i \in 1..(m - 1) : Front(w)[i] = w[i]
    BY <1>4, <1>5, Pop
  <2>2. DOMAIN Front(w) = 1..(m - 1)
    BY <2>1, LenProperties
  <2>3. \A i \in 1..(m - 1) : i \in 1..m
    BY <1>1, <1>3
  <2> QED
    BY <2>1, <2>2, <2>3, <1>4
<1>8. /\ s' = Front(w)
      /\ isEnabled' = s[m].enabled
      /\ isEnabled' \in BOOLEAN
  BY <1>6 DEF s, w, Entry
<1>9. \A i \in 1..(m - 1) : i \in 1..n /\ i < m
  BY <1>1, <1>3
<1>10. isEnabled' => \A i \in DOMAIN s' : s'[i].enabled
  BY <1>2, <1>3, <1>7, <1>8, <1>9
<1>11. \A i, j \in DOMAIN s' : i < j /\ s'[j].enabled => s'[i].enabled
  BY <1>2, <1>7, <1>8, <1>9
<1>12. ASSUME NEW i \in DOMAIN s', s'[i].type = "ELSE"
       PROVE  i > 1 /\ s'[i - 1].type # "ELSE"
  <2>1. i \in 1..(m - 1) /\ s[i].type = "ELSE"
    BY <1>7, <1>8, <1>12
  <2>2. i > 1 /\ s[i - 1].type # "ELSE"
    BY <2>1, <1>2, <1>9
  <2>3. i - 1 \in 1..(m - 1)
    BY <2>1, <2>2, <1>1, <1>3
  <2> QED
    BY <2>2, <2>3, <1>7, <1>8
<1> QED
  BY <1>7, <1>8, <1>10, <1>11, <1>12
     DEF s, StackTyped, SkippedStaysSkipped, Entry

-----------------------------------------------------------------------------
(***************************************************************************)
(* Every step keeps the invariant.                                         *)
(***************************************************************************)
LEMMA SetNameTyped ==
  ASSUME IInv, NEW n \in Names, NEW isDefined \in BOOLEAN, NEW value \in Values,
         NEW guiPro \in {"NONE", "REDEFINE", "REUNDEFINE"}
  PROVE  SetName(n, isDefined, value, guiPro) \in [Names -> NameValue]
BY DEF IInv, TypeOK, SetName, NameValue

\* What the definition directives make of the names.
LEMMA DefinitionsTyped ==
  ASSUME IInv, NEW n \in Names, NEW value \in Values
  PROVE  /\ insert_def_force(n, value) \in [Names -> NameValue]
         /\ insert_def(n, value) \in [Names -> NameValue]
         /\ insert_undef_force(n) \in [Names -> NameValue]
         /\ insert_undef(n) \in [Names -> NameValue]
         /\ insert_redef(n, value) \in [Names -> NameValue]
         /\ insert_reundef(n) \in [Names -> NameValue]
<1>1. /\ nameDefinition \in [Names -> NameValue]
      /\ nameDefinition[n].guiPro \in {"NONE", "REDEFINE", "REUNDEFINE"}
  BY DEF IInv, TypeOK, NameValue
<1>2. EmptyValue \in Values
  BY ConstantsTyped
<1>3. /\ insert_def_force(n, value) \in [Names -> NameValue]
      /\ insert_undef_force(n) \in [Names -> NameValue]
  BY <1>1, <1>2, SetNameTyped DEF insert_def_force, insert_undef_force
<1>4. /\ insert_def(n, value) \in [Names -> NameValue]
      /\ insert_undef(n) \in [Names -> NameValue]
  BY <1>1, <1>3 DEF insert_def, insert_undef
<1>5. /\ insert_redef(n, value) \in [Names -> NameValue]
      /\ insert_reundef(n) \in [Names -> NameValue]
  BY <1>2, SetNameTyped DEF insert_redef, insert_reundef
<1> QED
  BY <1>3, <1>4, <1>5

\* What a line that has been read brings into a step.
LEMMA ReadsTyped ==
  ASSUME IInv, NEW dirs, Reads(dirs)
  PROVE  /\ status = "running"
         /\ ~AtEnd
         /\ CurrentLine \in Line
         /\ CurrentLine.dir \in dirs
         /\ CurrentLine.name \in Names
         /\ CurrentLine.path \in Paths
         /\ CurrentLine.value \in Values
         /\ ValueOperand \in Values
<1>1. status = "running" /\ ~AtEnd /\ CurrentLine.dir \in dirs
  BY DEF Reads
<1>2. CurrentLine \in Line
  BY <1>1, CurrentLineTyped
<1> QED
  BY <1>1, <1>2, ConstantsTyped DEF Line, ValueOperand

LEMMA ObeysTyped ==
  ASSUME IInv, NEW dirs, Obeys(dirs)
  PROVE  /\ LineTyped'
         /\ FramesTyped'
         /\ FilesTyped'
         /\ UNCHANGED envMap
<1>1. /\ status = "running"
      /\ ~AtEnd
      /\ TakeLine
      /\ UNCHANGED <<runVars, fileCollection, envMap, includeFile>>
  BY ReadsTyped DEF Obeys
<1> QED
  BY <1>1, TakeLineTyped, FilesUnchanged DEF runVars

LEMMA OperandErrorTyped ==
  OperandError \in ErrorTypes
BY DEF OperandError, ErrorTypes

\* The two ways a directive that is obeyed ends.
LEMMA ObeyedTyped ==
  ASSUME IInv, LineTyped',
         \/ Write(FALSE, 1) /\ NoError
         \/ Fatal(OperandError) /\ WriteNothing
         \/ Fatal("DEF2") /\ WriteNothing
         \/ Fatal("DEF3") /\ WriteNothing
         \/ Fatal("DEF4") /\ WriteNothing
  PROVE  TextTyped' /\ ErrorsTyped'
<1>1. CASE Write(FALSE, 1) /\ NoError
  BY <1>1, WriteTyped, NoErrorTyped
<1>2. CASE Fatal(OperandError) /\ WriteNothing
  BY <1>2, NothingWrittenTyped, FatalTyped, OperandErrorTyped
<1>3. ASSUME NEW type \in {"DEF2", "DEF3", "DEF4"}, Fatal(type) /\ WriteNothing
      PROVE  TextTyped' /\ ErrorsTyped'
  BY <1>3, NothingWrittenTyped, FatalTyped DEF ErrorTypes
<1> QED
  BY <1>1, <1>2, <1>3

LEMMA DefinitionKeeps ==
  ASSUME IInv, NEW dirs, NEW most, NEW effect,
         CurrentLine.name \in Names /\ ValueOperand \in Values
           => effect \in [Names -> NameValue],
         Definition(dirs, most, effect)
  PROVE  IInv'
<1>1. /\ Reads(dirs)
      /\ Obeys(dirs)
      /\ UNCHANGED condVars
      /\ \/ Write(FALSE, 1) /\ NoError
         \/ Fatal(OperandError) /\ WriteNothing
      /\ nameDefinition' \in {nameDefinition, effect}
  BY DEF Definition, Obeys
<1>2. LineTyped' /\ FramesTyped' /\ FilesTyped' /\ UNCHANGED envMap
  BY <1>1, ObeysTyped
<1>3. TextTyped' /\ ErrorsTyped'
  BY <1>1, <1>2, ObeyedTyped
<1>4. NamesTyped'
  BY <1>1, <1>2, ReadsTyped DEF IInv, TypeOK, NamesTyped
<1> QED
  BY <1>1, <1>2, <1>3, <1>4, StackUnchanged, Parts

LEMMA DefinitionsKeep ==
  ASSUME IInv, \/ ProcessDefine \/ ProcessUndefine
               \/ ProcessRedefine \/ ProcessReundefine
  PROVE  IInv'
<1>1. CASE ProcessDefine
  BY <1>1, DefinitionsTyped, DefinitionKeeps DEF ProcessDefine
<1>2. CASE ProcessUndefine
  BY <1>2, DefinitionsTyped, DefinitionKeeps DEF ProcessUndefine
<1>3. CASE ProcessRedefine
  BY <1>3, DefinitionsTyped, DefinitionKeeps DEF ProcessRedefine
<1>4. CASE ProcessReundefine
  BY <1>4, DefinitionsTyped, DefinitionKeeps DEF ProcessReundefine
<1> QED
  BY <1>1, <1>2, <1>3, <1>4

LEMMA ConditionalKeeps ==
  ASSUME IInv, NEW type \in {"IFDEF", "IFNDEF"}, NEW holds \in BOOLEAN,
         Conditional(type, holds)
  PROVE  IInv'
<1> DEFINE e == [type |-> type, enabled |-> isEnabled]
<1>1. /\ Obeys({type})
      /\ UNCHANGED nameDefinition
      /\ conditionalsStack' = Append(conditionalsStack, e)
      /\ isEnabled' \in {Selected(holds), isEnabled}
      /\ \/ Write(FALSE, 1) /\ NoError
         \/ Fatal(OperandError) /\ WriteNothing
  BY DEF Conditional, Push
<1>2. LineTyped' /\ FramesTyped' /\ FilesTyped' /\ UNCHANGED envMap
  BY <1>1, ObeysTyped
<1>3. TextTyped' /\ ErrorsTyped'
  BY <1>1, <1>2, ObeyedTyped
<1>4. StackTyped'
  <2>1. isEnabled \in BOOLEAN /\ conditionalsStack \in Seq(Entry)
    BY DEF IInv, TypeOK, Entry
  <2>2. e \in Entry /\ e.type # "ELSE" /\ e.enabled = isEnabled
    BY <2>1 DEF Entry
  <2>3. isEnabled' \in BOOLEAN /\ (isEnabled' => isEnabled)
    BY <1>1, <2>1 DEF Selected
  <2>4. isEnabled => \A i \in 1..Len(conditionalsStack) :
                       conditionalsStack[i].enabled
    BY <2>1, LenProperties DEF IInv, SkippedStaysSkipped
  <2> HIDE DEF e
  <2> QED
    BY <1>1, <2>2, <2>3, <2>4, PushKeepsSkipped
<1> QED
  BY <1>1, <1>2, <1>3, <1>4, NamesUnchanged, Parts

LEMMA ElseKeeps ==
  ASSUME IInv, ProcessElse
  PROVE  IInv'
<1>1. /\ Obeys({"ELSE"})
      /\ UNCHANGED nameDefinition
      /\ \/ Write(FALSE, 1) /\ NoError
         \/ Fatal("DEF2") /\ WriteNothing
         \/ Fatal("DEF3") /\ WriteNothing
      /\ \/ UNCHANGED condVars
         \/ /\ ~ElseMisplaced
            /\ isEnabled' = ElseEnabled
            /\ Push("ELSE", isEnabled')
  BY DEF ProcessElse
<1>2. LineTyped' /\ FramesTyped' /\ FilesTyped' /\ UNCHANGED envMap
  BY <1>1, ObeysTyped
<1>3. TextTyped' /\ ErrorsTyped'
  BY <1>1, <1>2, ObeyedTyped
<1>4. ASSUME ~ElseMisplaced, isEnabled' = ElseEnabled, Push("ELSE", isEnabled')
      PROVE  StackTyped'
  <2> DEFINE s == conditionalsStack
             e == [type |-> "ELSE", enabled |-> isEnabled']
  <2>1. isEnabled \in BOOLEAN /\ s \in Seq(Entry)
    BY DEF IInv, TypeOK, Entry
  <2>2. s # <<>> /\ Last(s).type # "ELSE"
    BY <1>4 DEF ElseMisplaced
  <2>3. /\ Last(s) = s[Len(s)]
        /\ Len(s) \in Nat \ {0}
        /\ DOMAIN s = 1..Len(s)
        /\ Last(s).enabled \in BOOLEAN
    <3>1. Last(s) \in Entry /\ Last(s) = s[Len(s)] /\ Len(s) \in Nat \ {0}
      BY <2>1, <2>2, TopOf
    <3> QED
      BY <3>1, <2>1, LenProperties DEF Entry
  <2>4. isEnabled' = (isEnabled # Last(s).enabled) /\ isEnabled' \in BOOLEAN
    BY <1>4, <2>1, <2>3 DEF ElseEnabled
  <2>5. e \in Entry /\ e.type = "ELSE" /\ e.enabled = isEnabled'
    BY <2>4 DEF Entry
  <2>6. isEnabled => s[Len(s)].enabled
    BY <2>3 DEF IInv, SkippedStaysSkipped
  <2>7. isEnabled' => s[Len(s)].enabled
    BY <2>1, <2>3, <2>4, <2>6
  <2>8. s[Len(s)].enabled => \A i \in 1..Len(s) : s[i].enabled
    BY <2>3 DEF IInv, SkippedStaysSkipped
  <2>9. s' = Append(s, e)
    BY <1>4 DEF Push
  <2> HIDE DEF e
  <2> QED
    BY <2>2, <2>4, <2>5, <2>7, <2>8, <2>9, PushKeepsSkipped
<1>5. StackTyped'
  BY <1>1, <1>4, StackUnchanged
<1> QED
  BY <1>1, <1>2, <1>3, <1>5, NamesUnchanged, Parts

LEMMA EndifKeeps ==
  ASSUME IInv, ProcessEndif
  PROVE  IInv'
<1>1. /\ Obeys({"ENDIF"})
      /\ UNCHANGED nameDefinition
      /\ \/ Write(FALSE, 1) /\ NoError
         \/ Fatal("DEF2") /\ WriteNothing
         \/ Fatal("DEF4") /\ WriteNothing
      /\ \/ UNCHANGED condVars
         \/ /\ conditionalsStack # <<>>
            /\ isEnabled' = Last(WithoutElse).enabled
            /\ conditionalsStack' = Front(WithoutElse)
  BY DEF ProcessEndif
<1>2. LineTyped' /\ FramesTyped' /\ FilesTyped' /\ UNCHANGED envMap
  BY <1>1, ObeysTyped
<1>3. TextTyped' /\ ErrorsTyped'
  BY <1>1, <1>2, ObeyedTyped
<1>4. StackTyped'
  BY <1>1, StackUnchanged, PopKeepsSkipped
<1> QED
  BY <1>1, <1>2, <1>3, <1>4, NamesUnchanged, Parts

LEMMA StartKeeps ==
  ASSUME IInv, Start
  PROVE  IInv'
<1> USE DEF Start
<1>1. LineTyped' /\ TextTyped' /\ StackTyped' /\ FilesTyped' /\ NamesTyped'
  BY StackUnchanged, FilesUnchanged, NamesUnchanged
     DEF IInv, TypeOK, LineTyped, TextTyped
<1>2. ErrorsTyped'
  <2> DEFINE e == [type |-> "INCL1", line |-> globalLineNo]
  <2>1. e \in [type : ErrorTypes, line : Nat]
    BY DEF IInv, TypeOK, ErrorTypes
  <2>2. errorList' \in {<<e>>, errorList}
    OBVIOUS
  <2> HIDE DEF e
  <2>3. <<e>> \in Seq([type : ErrorTypes, line : Nat])
    BY <2>1
  <2> QED
    BY <2>2, <2>3 DEF IInv, TypeOK, ErrorsTyped
<1>3. FramesTyped'
  <2>1. OpenFrame(Root) \in Frame /\ OpenFrame(Root).pos = 0
    BY ConstantsTyped DEF OpenFrame, Frame
  <2>2. disk[FileOf[Root]].lines \in Seq(Line)
    BY ConstantsTyped DEF IInv, TypeOK, File
  <2>3. Len(disk[FileOf[Root]].lines) \in Nat
    BY <2>2, LenProperties
  <2> QED
    BY <2>1, <2>3 DEF FramesTyped, FramesOK, LinesOf, runVars, OpenFrame
<1> QED
  BY <1>1, <1>2, <1>3, Parts

LEMMA CopiesTyped ==
  ASSUME IInv, status = "running", ~AtEnd, Copies
  PROVE  /\ LineTyped'
         /\ FramesTyped'
         /\ FilesTyped'
         /\ StackTyped'
         /\ ErrorsTyped'
         /\ UNCHANGED nameDefinition
<1>1. /\ TakeLine
      /\ NoError
      /\ UNCHANGED <<runVars, fileCollection, includeFile>>
      /\ UNCHANGED condVars
      /\ UNCHANGED disk
      /\ UNCHANGED nameDefinition
  BY DEF Copies, runVars
<1> QED
  BY <1>1, TakeLineTyped, FilesUnchanged, StackUnchanged, NoErrorTyped

LEMMA CopyKeeps ==
  ASSUME IInv, CopyText \/ EchoDirective
  PROVE  IInv'
<1>1. /\ status = "running" /\ ~AtEnd
      /\ Copies
      /\ Write(isEnabled, 1) \/ Write(mode.convertSwitch, 1)
      /\ UNCHANGED envMap
  BY DEF CopyText, EchoDirective, Reads
<1>2. isEnabled \in BOOLEAN /\ mode.convertSwitch \in BOOLEAN
  BY DEF IInv, TypeOK, Mode
<1>3. TextTyped'
  BY <1>1, <1>2, CopiesTyped, WriteTyped
<1> QED
  BY <1>1, <1>3, CopiesTyped, NamesUnchanged, Parts

LEMMA PragmaKeeps ==
  ASSUME IInv, ProcessPragma
  PROVE  IInv'
<1>1. Reads({"COND_PRAGMA"})
  BY DEF ProcessPragma
<1>2. /\ status = "running" /\ ~AtEnd
      /\ CurrentLine.name \in Names /\ CurrentLine.value \in Values
  BY <1>1, ReadsTyped
<1>3. ASSUME Copies, Write(TRUE, 1),
             envMap' = [envMap EXCEPT ![CurrentLine.name] = CurrentLine.value]
      PROVE  IInv'
  <2>1. TextTyped'
    BY <1>2, <1>3, CopiesTyped, WriteTyped
  <2>2. NamesTyped'
    BY <1>2, <1>3, CopiesTyped DEF IInv, TypeOK, NamesTyped
  <2> QED
    BY <1>2, <1>3, <2>1, <2>2, CopiesTyped, Parts
<1>4. ASSUME TakeLine, WriteNothing,
             Fatal(PragmaError),
             UNCHANGED <<runVars, fileCollection, nameDefinition, condVars,
                         envMap, includeFile>>
      PROVE  IInv'
  <2>1. LineTyped' /\ FramesTyped'
    BY <1>2, <1>4, TakeLineTyped DEF runVars
  <2>2. ErrorsTyped'
    <3>1. PragmaError \in ErrorTypes
      BY DEF PragmaError, ErrorTypes
    <3> QED
      BY <3>1, <1>4, <2>1, FatalTyped
  <2> QED
    BY <1>4, <2>1, <2>2, NothingWrittenTyped, StackUnchanged, FilesUnchanged,
       NamesUnchanged, Parts
<1> QED
  BY <1>3, <1>4 DEF ProcessPragma

\* What every INCLUDE without -oi does.
LEMMA IncludeFrameTyped ==
  ASSUME IInv, IncludeFrame
  PROVE  /\ status = "running" /\ ~AtEnd
         /\ Included \in Paths
         /\ UNCHANGED <<runVars, includeFile>>
         /\ UNCHANGED disk
         /\ LineTyped'
         /\ TextTyped'
         /\ StackTyped'
         /\ NamesTyped'
<1>1. /\ Reads({"INCL"})
      /\ CountLine
      /\ Write(FALSE, 1)
      /\ UNCHANGED <<runVars, includeFile>>
      /\ UNCHANGED condVars
      /\ UNCHANGED <<nameDefinition, envMap>>
  BY DEF IncludeFrame
<1>2. status = "running" /\ ~AtEnd /\ Included \in Paths
  BY <1>1, ReadsTyped DEF Included
<1>3. LineTyped'
  BY <1>1, <1>2, CountLineTyped
<1> QED
  BY <1>1, <1>2, <1>3, WriteTyped, StackUnchanged, NamesUnchanged DEF runVars

LEMMA IncludeStays ==
  ASSUME IInv, IncludeDisabled \/ IncludeRejected
               \/ IncludeUnreadable \/ IncludeTvfFails
  PROVE  IInv'
<1>1. /\ IncludeFrame
      /\ StayInFile
      /\ fileCollection' \subseteq fileCollection \cup {Included}
  BY DEF IncludeDisabled, IncludeRejected, IncludeUnreadable, IncludeTvfFails,
         Accepts, Register
<1>2. FramesTyped'
  BY <1>1, IncludeFrameTyped, AdvanceFramesTyped DEF StayInFile
<1>3. FilesTyped'
  BY <1>1, IncludeFrameTyped DEF IInv, TypeOK, FilesTyped, runVars
<1>4. ErrorsTyped'
  <2>1. CASE IncludeDisabled
    BY <2>1, NoErrorTyped DEF IncludeDisabled
  <2>2. ASSUME NEW type \in {"INCL3", "INCL4", "ENV1", "INCL2"}, Fatal(type)
        PROVE  ErrorsTyped'
    BY <1>1, <2>2, FatalTyped, IncludeFrameTyped DEF ErrorTypes
  <2>3. CASE IncludeRejected
    BY <2>2, <2>3 DEF IncludeRejected
  <2>4. CASE IncludeUnreadable
    <3>1. AddError("INCL1") /\ UNCHANGED status /\ "INCL1" \in ErrorTypes
      BY <2>4 DEF IncludeUnreadable, ErrorTypes
    <3> QED
      BY <3>1, <1>1, IncludeFrameTyped, AddErrorTyped DEF IInv, TypeOK, ErrorsTyped
  <2>5. CASE IncludeTvfFails
    BY <2>5 DEF IncludeTvfFails, IInv, TypeOK, ErrorsTyped
  <2> QED
    BY <2>1, <2>3, <2>4, <2>5
<1> QED
  BY <1>1, <1>2, <1>3, <1>4, IncludeFrameTyped, Parts

LEMMA IncludeKeeps ==
  ASSUME IInv, ProcessInclude
  PROVE  IInv'
<1> DEFINE fs == [frames EXCEPT ![Len(frames)] = AdvancedFrame(FALSE)]
           f  == OpenFrame(Included)
<1>1. /\ IncludeFrame
      /\ fileCollection' = fileCollection \cup {Included}
      /\ NoError
      /\ frames' = Append(fs, f)
  BY DEF ProcessInclude, Accepts, Register
<1>2. /\ fs \in Seq(Frame)
      /\ \A i \in DOMAIN fs : fs[i].pos <= Len(LinesOf(fs[i].path))
      /\ DOMAIN fs = 1..Len(fs) /\ Len(fs) \in Nat
  BY <1>1, IncludeFrameTyped, AdvanceTyped, LenProperties
<1>3. f \in Frame /\ f.pos = 0 /\ f.path = Included
  BY <1>1, IncludeFrameTyped DEF OpenFrame, Frame
<1>4. Len(LinesOf(f.path)) \in Nat
  BY <1>1, <1>3, IncludeFrameTyped, ConstantsTyped
     DEF IInv, TypeOK, File, LinesOf
<1> HIDE DEF fs, f
<1>5. /\ Append(fs, f) \in Seq(Frame)
      /\ Append(fs, f) # <<>>
      /\ DOMAIN Append(fs, f) = 1..(Len(fs) + 1)
      /\ Append(fs, f)[Len(fs) + 1] = f
      /\ \A i \in 1..Len(fs) : Append(fs, f)[i] = fs[i]
  BY <1>2, <1>3, PushOn, LenProperties
<1>6. ASSUME NEW i \in DOMAIN frames'
      PROVE  frames'[i].pos <= Len(LinesOf(frames'[i].path))
  <2>1. CASE i = Len(fs) + 1
    BY <2>1, <1>1, <1>3, <1>4, <1>5
  <2>2. CASE i # Len(fs) + 1
    <3>1. i \in 1..Len(fs)
      BY <2>2, <1>1, <1>2, <1>5
    <3> QED
      BY <3>1, <1>1, <1>2, <1>5
  <2> QED
    BY <2>1, <2>2
<1>7. UNCHANGED disk
  BY <1>1, IncludeFrameTyped
<1>8. FramesTyped'
  BY <1>1, <1>5, <1>6, <1>7 DEF FramesTyped, FramesOK, LinesOf
<1>9. FilesTyped'
  BY <1>1, IncludeFrameTyped DEF IInv, TypeOK, FilesTyped, runVars
<1> QED
  BY <1>1, <1>8, <1>9, IncludeFrameTyped, NoErrorTyped, Parts

LEMMA EndOfFileKeeps ==
  ASSUME IInv, EndOfFile
  PROVE  IInv'
<1>1. /\ status = "running"
      /\ frames' = Front(frames)
      /\ fileCollection' \subseteq fileCollection
      /\ status' = IF Len(frames) = 1 THEN "done" ELSE "running"
      /\ UNCHANGED <<runVars, globalLineNo, lineIndex, newlines, out,
                     includeFile, errorList>>
      /\ UNCHANGED condVars
      /\ UNCHANGED <<nameDefinition, envMap>>
  BY DEF EndOfFile, ExhaustsFile, Return
<1>2. /\ LineTyped' /\ TextTyped' /\ StackTyped' /\ NamesTyped'
  BY <1>1, StackUnchanged, NamesUnchanged
     DEF IInv, TypeOK, LineTyped, TextTyped
<1>3. ErrorsTyped' /\ FilesTyped'
  BY <1>1 DEF IInv, TypeOK, ErrorsTyped, FilesTyped, runVars
<1>4. frames \in Seq(Frame) /\ frames # <<>>
  BY <1>1 DEF IInv, TypeOK, FramesOK
<1>5. /\ Len(frames) \in Nat \ {0}
      /\ Front(frames) \in Seq(Frame)
      /\ Len(Front(frames)) = Len(frames) - 1
      /\ \A i \in 1..(Len(frames) - 1) : Front(frames)[i] = frames[i]
  BY <1>4, TopOf, Pop
<1>6. /\ DOMAIN Front(frames) = 1..(Len(frames) - 1)
      /\ DOMAIN frames = 1..Len(frames)
      /\ \A i \in 1..(Len(frames) - 1) : i \in 1..Len(frames)
  BY <1>4, <1>5, LenProperties
<1>7. FramesTyped'
  <2>1. status' = "running" => frames' # <<>>
    BY <1>1, <1>5
  <2>2. \A i \in DOMAIN frames' :
          frames'[i].pos <= Len(LinesOf(frames'[i].path))
    BY <1>1, <1>5, <1>6 DEF IInv, FramesOK
  <2>3. UNCHANGED disk
    BY <1>1 DEF runVars
  <2> QED
    BY <2>1, <2>2, <2>3, <1>1, <1>5 DEF FramesTyped, FramesOK, LinesOf
<1> QED
  BY <1>2, <1>3, <1>7, Parts

LEMMA ConvertIncludeKeeps ==
  ASSUME IInv, ConvertInclude
  PROVE  IInv'
<1>1. /\ Reads({"INCL"})
      /\ TakeLine
      /\ UNCHANGED <<runVars, fileCollection, errorList>>
      /\ UNCHANGED condVars
      /\ UNCHANGED <<nameDefinition, envMap>>
      /\ UNCHANGED disk
      /\ \/ status' = "aborted" /\ WriteNothing /\ UNCHANGED includeFile
         \/ /\ Write(TRUE, IncludeNewlines)
            /\ includeFile' = Append(includeFile, Included)
            /\ UNCHANGED status
  BY DEF ConvertInclude, runVars
<1>2. status = "running" /\ ~AtEnd /\ Included \in Paths
  BY <1>1, ReadsTyped DEF Included
<1>3. LineTyped' /\ FramesTyped'
  BY <1>1, <1>2, TakeLineTyped
<1>4. TextTyped'
  <2>1. IncludeNewlines \in Nat
    BY DEF IncludeNewlines
  <2> QED
    BY <2>1, <1>1, <1>3, WriteTyped, NothingWrittenTyped
<1>5. ErrorsTyped'
  BY <1>1 DEF IInv, TypeOK, ErrorsTyped
<1>6. FilesTyped'
  <2>1. includeFile \in Seq(Paths)
    BY DEF IInv, TypeOK
  <2>2. includeFile' = includeFile \/ includeFile' = Append(includeFile, Included)
    BY <1>1
  <2>3. includeFile' \in Seq(Paths)
    BY <1>2, <2>1, <2>2, PushOn
  <2> QED
    BY <1>1, <2>3 DEF IInv, TypeOK, FilesTyped, runVars
<1> QED
  BY <1>1, <1>3, <1>4, <1>5, <1>6, StackUnchanged, NamesUnchanged, Parts

LEMMA DecryptKeeps ==
  ASSUME IInv, ProcessDecrypt \/ SkipCrypted \/ DecryptAtEndOfFile
  PROVE  IInv'
<1>1. /\ KeepState
      /\ status = "running"
      /\ Write(FALSE, 1)
  BY DEF ProcessDecrypt, SkipCrypted, DecryptAtEndOfFile, Reads, InCrypt
<1>2. /\ UNCHANGED <<runVars, fileCollection, includeFile>>
      /\ UNCHANGED condVars
      /\ UNCHANGED <<nameDefinition, envMap>>
      /\ UNCHANGED status
      /\ UNCHANGED disk
  BY <1>1 DEF KeepState, runVars
<1>3. StackTyped' /\ FilesTyped' /\ NamesTyped'
  BY <1>2, StackUnchanged, FilesUnchanged, NamesUnchanged
<1>4. CASE ProcessDecrypt \/ SkipCrypted
  <2>1. /\ ~AtEnd
        /\ CountLine
        /\ \/ CryptFrame(TRUE)
           \/ CryptFrame(CurrentLine.dir # "ENDCRYPT")
        /\ AddError("CON3") \/ UNCHANGED errorList
    BY <1>4 DEF ProcessDecrypt, SkipCrypted, Reads
  <2>2. LineTyped'
    BY <2>1, <1>1, CountLineTyped
  <2>3. TextTyped'
    BY <2>2, <1>1, WriteTyped
  <2>4. FramesTyped'
    BY <2>1, <1>1, <1>2, AdvanceFramesTyped DEF CryptFrame
  <2>5. ErrorsTyped'
    <3>1. "CON3" \in ErrorTypes
      BY DEF ErrorTypes
    <3> QED
      BY <3>1, <2>1, <2>2, <1>2, AddErrorTyped DEF IInv, TypeOK, ErrorsTyped
  <2> QED
    BY <2>2, <2>3, <2>4, <2>5, <1>3, Parts
<1>5. CASE DecryptAtEndOfFile
  <2> DEFINE f  == [path |-> Current.path, pos |-> Current.pos, crypt |-> FALSE]
             fs == [frames EXCEPT ![Len(frames)] = f]
  <2>1. /\ frames' = fs
        /\ UNCHANGED <<globalLineNo, lineIndex, errorList>>
    BY <1>5 DEF DecryptAtEndOfFile
  <2>2. LineTyped' /\ ErrorsTyped'
    BY <2>1, <1>2 DEF IInv, TypeOK, LineTyped, ErrorsTyped
  <2>3. TextTyped'
    BY <2>2, <1>1, WriteTyped
  <2>4. /\ f \in Frame
        /\ f.pos = Current.pos /\ f.path = Current.path
        /\ Current = frames[Len(frames)]
        /\ Current.pos <= Len(LinesOf(Current.path))
    BY <1>1, CurrentTyped DEF Frame
  <2>5. frames \in Seq(Frame) /\ frames # <<>>
    BY <1>1 DEF IInv, TypeOK, FramesOK
  <2> HIDE DEF f
  <2>6. /\ fs \in Seq(Frame)
        /\ fs # <<>>
        /\ Len(fs) = Len(frames) /\ Len(frames) \in Nat
        /\ fs[Len(frames)] = f
        /\ \A i \in 1..(Len(frames) - 1) : fs[i] = frames[i]
    BY <2>4, <2>5, ReplaceTop, LenProperties
  <2> HIDE DEF fs
  <2>7. ASSUME NEW i \in DOMAIN fs
        PROVE  fs[i].pos <= Len(LinesOf(fs[i].path))
    <3>1. DOMAIN fs = 1..Len(frames) /\ DOMAIN frames = 1..Len(frames)
      BY <2>5, <2>6, LenProperties
    <3>2. CASE i = Len(frames)
      BY <3>2, <2>4, <2>6
    <3>3. CASE i # Len(frames)
      <4>1. i \in 1..(Len(frames) - 1) /\ i \in DOMAIN frames
        BY <3>1, <3>3, <2>6
      <4> QED
        BY <4>1, <2>6 DEF IInv, FramesOK
    <3> QED
      BY <3>2, <3>3
  <2>8. FramesTyped'
    BY <2>1, <2>6, <2>7, <1>2 DEF FramesTyped, FramesOK, LinesOf
  <2> QED
    BY <2>2, <2>3, <2>8, <1>3, Parts
<1> QED
  BY <1>4, <1>5 DEF ProcessDecrypt, SkipCrypted, DecryptAtEndOfFile

-----------------------------------------------------------------------------
LEMMA InitTyped ==
  Init => IInv
<1> SUFFICES ASSUME Init PROVE IInv
  OBVIOUS
<1> USE DEF Init
<1>1. disk \in [Files -> File] /\ mode \in Mode
  BY ConstantsTyped
<1>2. nameDefinition \in [Names -> NameValue]
  BY ConstantsTyped DEF NameValue
<1>3. envMap \in [DollarNames -> Values \cup {NoValue}]
  OBVIOUS
<1>4. \A S : <<>> \in Seq(S)
  OBVIOUS
<1>5. TypeOK
  <2>1. /\ frames \in Seq(Frame)
        /\ conditionalsStack \in
             Seq([type : {"IFDEF", "IFNDEF", "ELSE"}, enabled : BOOLEAN])
        /\ lineIndex \in Seq([path : Paths, local : Nat])
        /\ out \in Seq([at : Nat, global : Nat])
        /\ includeFile \in Seq(Paths)
        /\ errorList \in Seq([type : ErrorTypes, line : Nat])
    BY <1>4
  <2>2. /\ status \in {"start", "running", "done", "exited", "aborted"}
        /\ fileCollection \subseteq Paths
        /\ globalLineNo \in Nat
        /\ isEnabled \in BOOLEAN
        /\ newlines \in Nat
    OBVIOUS
  <2> QED
    BY <1>1, <1>2, <1>3, <2>1, <2>2, Zenon DEF TypeOK
<1>6. FramesOK /\ SkippedStaysSkipped
  BY DEF FramesOK, SkippedStaysSkipped
<1> QED
  BY <1>5, <1>6 DEF IInv

LEMMA StutterKeeps ==
  ASSUME IInv, UNCHANGED vars
  PROVE  IInv'
<1>1. /\ UNCHANGED <<runVars, fileCollection, includeFile>>
      /\ UNCHANGED condVars
      /\ UNCHANGED <<nameDefinition, envMap>>
      /\ UNCHANGED <<disk, frames, status, globalLineNo, lineIndex, newlines,
                     out, errorList>>
  BY DEF vars, runVars
<1>2. LineTyped' /\ TextTyped' /\ ErrorsTyped' /\ FramesTyped'
  BY <1>1 DEF IInv, TypeOK, FramesOK, LineTyped, TextTyped, ErrorsTyped,
              FramesTyped, LinesOf
<1> QED
  BY <1>1, <1>2, StackUnchanged, FilesUnchanged, NamesUnchanged, Parts

LEMMA NextKeeps ==
  ASSUME IInv, [Next]_vars
  PROVE  IInv'
<1>1. CASE Start
  BY <1>1, StartKeeps
<1>2. CASE ProcessDefine \/ ProcessUndefine \/ ProcessRedefine
           \/ ProcessReundefine
  BY <1>2, DefinitionsKeep
<1>3. CASE ProcessIfdef \/ ProcessIfndef
  <2>1. IfdefHolds \in BOOLEAN /\ (~IfdefHolds) \in BOOLEAN
    BY DEF IfdefHolds
  <2> QED
    BY <1>3, <2>1, ConditionalKeeps DEF ProcessIfdef, ProcessIfndef
<1>4. CASE ProcessElse \/ ProcessEndif
  BY <1>4, ElseKeeps, EndifKeeps
<1>5. CASE CopyText \/ EchoDirective \/ ProcessPragma
  BY <1>5, CopyKeeps, PragmaKeeps
<1>6. CASE IncludeDisabled \/ IncludeRejected \/ IncludeUnreadable
           \/ IncludeTvfFails
  BY <1>6, IncludeStays
<1>7. CASE ProcessInclude \/ EndOfFile \/ ConvertInclude
  BY <1>7, IncludeKeeps, EndOfFileKeeps, ConvertIncludeKeeps
<1>8. CASE ProcessDecrypt \/ SkipCrypted \/ DecryptAtEndOfFile
  BY <1>8, DecryptKeeps
<1>9. CASE UNCHANGED vars \/ Halted
  BY <1>9, StutterKeeps DEF Halted
<1> QED
  BY <1>1, <1>2, <1>3, <1>4, <1>5, <1>6, <1>7, <1>8, <1>9 DEF Next, Step

\* Invariance of the inductive invariant.
THEOREM InductiveInvariant == Spec => []IInv
<1>1. Init => IInv
  BY InitTyped
<1>2. IInv /\ [Next]_vars => IInv'
  BY NextKeeps
<1> QED
  BY <1>1, <1>2, PTL DEF Spec

\* Every value the preprocessor computes has its type: in particular the entry
\* #endif takes a flag from is there, and a value is never a null pointer.
THEOREM TypeCorrect == Spec => []TypeOK
<1>1. IInv => TypeOK
  BY DEF IInv
<1> QED
  BY <1>1, InductiveInvariant, PTL

\* Nothing inside of a skipped branch is enabled, for any nesting of
\* conditionals, in any number of files.
THEOREM SkippedBranches == Spec => []SkippedStaysSkipped
<1>1. IInv => SkippedStaysSkipped
  BY DEF IInv
<1> QED
  BY <1>1, InductiveInvariant, PTL

-----------------------------------------------------------------------------
(***************************************************************************)
(* The files that are read, and the line numbers they give.                *)
(***************************************************************************)

\* The steps that read a line of the current file and stay in that file.
ReadsLine ==
  \/ ProcessDefine \/ ProcessUndefine \/ ProcessRedefine \/ ProcessReundefine
  \/ ProcessIfdef \/ ProcessIfndef \/ ProcessElse \/ ProcessEndif
  \/ CopyText \/ EchoDirective \/ ProcessPragma
  \/ IncludeDisabled \/ IncludeRejected \/ IncludeUnreadable
  \/ IncludeTvfFails \/ ConvertInclude
  \/ ProcessDecrypt \/ SkipCrypted

\* The files and the options stay as they are.
LEMMA DiskFixed ==
  ASSUME [Next]_vars
  PROVE  UNCHANGED <<disk, mode>>
<1>1. CASE Start
  BY <1>1 DEF Start, runVars
<1>2. CASE ProcessDefine \/ ProcessUndefine \/ ProcessRedefine
           \/ ProcessReundefine
  BY <1>2 DEF ProcessDefine, ProcessUndefine, ProcessRedefine,
              ProcessReundefine, Definition, Obeys, runVars
<1>3. CASE ProcessIfdef \/ ProcessIfndef \/ ProcessElse \/ ProcessEndif
  BY <1>3 DEF ProcessIfdef, ProcessIfndef, ProcessElse, ProcessEndif,
              Conditional, Obeys, runVars
<1>4. CASE CopyText \/ EchoDirective \/ ProcessPragma
  BY <1>4 DEF CopyText, EchoDirective, ProcessPragma, Copies, runVars
<1>5. CASE IncludeDisabled \/ IncludeRejected \/ IncludeUnreadable
           \/ IncludeTvfFails \/ ProcessInclude
  BY <1>5 DEF IncludeDisabled, IncludeRejected, IncludeUnreadable,
              IncludeTvfFails, ProcessInclude, Accepts, IncludeFrame, runVars
<1>6. CASE EndOfFile \/ ConvertInclude
  BY <1>6 DEF EndOfFile, Return, ConvertInclude, runVars
<1>7. CASE ProcessDecrypt \/ SkipCrypted \/ DecryptAtEndOfFile
  BY <1>7 DEF ProcessDecrypt, SkipCrypted, DecryptAtEndOfFile, KeepState,
              runVars
<1>8. CASE UNCHANGED vars \/ Halted
  BY <1>8 DEF Halted, vars, runVars
<1> QED
  BY <1>1, <1>2, <1>3, <1>4, <1>5, <1>6, <1>7, <1>8 DEF Next, Step

\* A step that reads a line moves the current frame on by one line.
LEMMA ReadsOneLine ==
  ASSUME ReadsLine
  PROVE  /\ status = "running"
         /\ ~AtEnd
         /\ CountLine
         /\ \/ frames' = [frames EXCEPT ![Len(frames)] = AdvancedFrame(FALSE)]
            \/ /\ ProcessDecrypt \/ SkipCrypted
               /\ \E crypt \in BOOLEAN :
                    frames' =
                      [frames EXCEPT ![Len(frames)] = AdvancedFrame(crypt)]
<1>1. CASE ProcessDefine \/ ProcessUndefine \/ ProcessRedefine
           \/ ProcessReundefine
  BY <1>1 DEF ProcessDefine, ProcessUndefine, ProcessRedefine,
              ProcessReundefine, Definition, Obeys, Reads, TakeLine
<1>2. CASE ProcessIfdef \/ ProcessIfndef \/ ProcessElse \/ ProcessEndif
  BY <1>2 DEF ProcessIfdef, ProcessIfndef, ProcessElse, ProcessEndif,
              Conditional, Obeys, Reads, TakeLine
<1>3. CASE CopyText \/ EchoDirective \/ ProcessPragma
  BY <1>3 DEF CopyText, EchoDirective, ProcessPragma, Copies, Reads, TakeLine
<1>4. CASE IncludeDisabled \/ IncludeRejected \/ IncludeUnreadable
           \/ IncludeTvfFails \/ ConvertInclude
  BY <1>4 DEF IncludeDisabled, IncludeRejected, IncludeUnreadable,
              IncludeTvfFails, Accepts, IncludeFrame, StayInFile,
              ConvertInclude, Reads, TakeLine
<1>5. CASE ProcessDecrypt
  BY <1>5 DEF ProcessDecrypt, Reads, CryptFrame
<1>6. CASE SkipCrypted
  <2>1. (CurrentLine.dir # "ENDCRYPT") \in BOOLEAN
    OBVIOUS
  <2> QED
    BY <2>1, <1>6 DEF SkipCrypted, InCrypt, CryptFrame
<1> QED
  BY <1>1, <1>2, <1>3, <1>4, <1>5, <1>6 DEF ReadsLine

-----------------------------------------------------------------------------
(***************************************************************************)
(* Include files.                                                          *)
(***************************************************************************)
\* A step that neither opens nor closes a file keeps OpenOnce.
LEMMA SameFilesOpen ==
  ASSUME OpenOnce, NEW n \in Nat, Len(frames) = n, Len(frames') = n,
         \A i \in 1..n : frames'[i].path = frames[i].path,
         fileCollection \subseteq fileCollection'
  PROVE  OpenOnce'
BY DEF OpenOnce

LEMMA CollectionGrows ==
  ASSUME ReadsLine
  PROVE  fileCollection \subseteq fileCollection'
<1>1. CASE ProcessDefine \/ ProcessUndefine \/ ProcessRedefine
           \/ ProcessReundefine
  BY <1>1 DEF ProcessDefine, ProcessUndefine, ProcessRedefine,
              ProcessReundefine, Definition, Obeys
<1>2. CASE ProcessIfdef \/ ProcessIfndef \/ ProcessElse \/ ProcessEndif
  BY <1>2 DEF ProcessIfdef, ProcessIfndef, ProcessElse, ProcessEndif,
              Conditional, Obeys
<1>3. CASE CopyText \/ EchoDirective \/ ProcessPragma
  BY <1>3 DEF CopyText, EchoDirective, ProcessPragma, Copies
<1>4. CASE IncludeDisabled \/ IncludeRejected \/ ConvertInclude
  BY <1>4 DEF IncludeDisabled, IncludeRejected, ConvertInclude
<1>5. CASE IncludeUnreadable \/ IncludeTvfFails
  BY <1>5 DEF IncludeUnreadable, IncludeTvfFails, Accepts, Register
<1>6. CASE ProcessDecrypt \/ SkipCrypted
  BY <1>6 DEF ProcessDecrypt, SkipCrypted, KeepState
<1> QED
  BY <1>1, <1>2, <1>3, <1>4, <1>5, <1>6 DEF ReadsLine

LEMMA NextOpensOnce ==
  ASSUME IInv, OpenOnce, [Next]_vars
  PROVE  OpenOnce'
<1>1. CASE ReadsLine
  <2>1. PICK crypt \in BOOLEAN :
          frames' = [frames EXCEPT ![Len(frames)] = AdvancedFrame(crypt)]
    BY <1>1, ReadsOneLine
  <2>2. status = "running" /\ ~AtEnd
    BY <1>1, ReadsOneLine
  <2>3. /\ Len(frames') = Len(frames)
        /\ frames'[Len(frames)] = AdvancedFrame(crypt)
        /\ \A i \in 1..(Len(frames) - 1) : frames'[i] = frames[i]
    BY <2>1, <2>2, AdvanceTyped
  <2>4. /\ AdvancedFrame(crypt).path = frames[Len(frames)].path
        /\ Len(frames) \in Nat
    BY <2>2, CurrentTyped DEF AdvancedFrame
  <2>5. \A i \in 1..Len(frames) : frames'[i].path = frames[i].path
    BY <2>3, <2>4
  <2> QED
    BY <1>1, <2>3, <2>4, <2>5, CollectionGrows, SameFilesOpen
<1>2. CASE Start
  <2>1. Len(frames') = 1
    BY <1>2 DEF Start
  <2> QED
    BY <2>1 DEF OpenOnce
<1>3. CASE ProcessInclude
  <2> DEFINE fs == [frames EXCEPT ![Len(frames)] = AdvancedFrame(FALSE)]
             n  == Len(frames)
  <2>1. /\ status = "running" /\ ~AtEnd
        /\ Included \in Paths
        /\ Included \notin fileCollection
        /\ fileCollection' = fileCollection \cup {Included}
        /\ frames' = Append(fs, OpenFrame(Included))
    BY <1>3, IncludeFrameTyped DEF ProcessInclude, Accepts, Register
  <2>2. /\ fs \in Seq(Frame)
        /\ Len(fs) = n /\ n \in Nat \ {0}
        /\ fs[n] = AdvancedFrame(FALSE)
        /\ \A i \in 1..(n - 1) : fs[i] = frames[i]
    BY <2>1, AdvanceTyped, CurrentTyped
  <2>3. AdvancedFrame(FALSE).path = frames[n].path
    BY <2>1, CurrentTyped DEF AdvancedFrame
  <2>4. OpenFrame(Included) \in Frame /\ OpenFrame(Included).path = Included
    BY <2>1 DEF OpenFrame, Frame
  <2> HIDE DEF fs
  <2>5. \A i \in 1..n : fs[i].path = frames[i].path
    <3> HIDE DEF n
    <3>1. \A i \in 1..n : i = n \/ i \in 1..(n - 1)
      BY <2>2
    <3> QED
      BY <2>2, <2>3, <3>1
  <2>6. /\ Len(frames') = n + 1
        /\ frames'[n + 1].path = Included
        /\ \A i \in 1..n : frames'[i].path = frames[i].path
    BY <2>1, <2>2, <2>4, <2>5, PushOn
  <2> HIDE DEF n
  <2>7. ASSUME NEW i \in 2..(n + 1)
        PROVE  frames'[i].path \in fileCollection'
    BY <2>1, <2>2, <2>6 DEF OpenOnce, n
  <2>8. ASSUME NEW i \in 2..(n + 1), NEW j \in 2..(n + 1), i # j
        PROVE  frames'[i].path # frames'[j].path
    BY <2>1, <2>2, <2>6, <2>8 DEF OpenOnce, n
  <2> QED
    BY <2>6, <2>7, <2>8 DEF OpenOnce
<1>4. CASE EndOfFile
  <2> DEFINE n == Len(frames)
  <2>1. /\ status = "running"
        /\ frames' = Front(frames)
        /\ \/ n = 1
           \/ fileCollection' = fileCollection \ {frames[n].path}
    BY <1>4, CurrentTyped DEF EndOfFile, ExhaustsFile, Return
  <2>2. frames \in Seq(Frame) /\ frames # <<>>
    BY <2>1 DEF IInv, TypeOK, FramesOK
  <2>3. /\ n \in Nat \ {0}
        /\ Len(frames') = n - 1
        /\ \A i \in 1..(n - 1) : frames'[i] = frames[i]
    BY <2>1, <2>2, TopOf, Pop
  <2> HIDE DEF n
  <2>4. ASSUME NEW i \in 2..(n - 1)
        PROVE  /\ i \in 2..n /\ i # n /\ n \in 2..n
               /\ frames'[i] = frames[i]
    BY <2>3
  <2>5. ASSUME NEW i \in 2..(n - 1)
        PROVE  frames'[i].path \in fileCollection'
    BY <2>1, <2>3, <2>4 DEF OpenOnce, n
  <2>6. ASSUME NEW i \in 2..(n - 1), NEW j \in 2..(n - 1), i # j
        PROVE  frames'[i].path # frames'[j].path
    BY <2>4, <2>6 DEF OpenOnce, n
  <2> QED
    BY <2>3, <2>5, <2>6 DEF OpenOnce
<1>5. CASE DecryptAtEndOfFile
  <2> DEFINE f == [path |-> Current.path, pos |-> Current.pos, crypt |-> FALSE]
  <2>1. /\ status = "running"
        /\ frames' = [frames EXCEPT ![Len(frames)] = f]
        /\ fileCollection' = fileCollection
    BY <1>5 DEF DecryptAtEndOfFile, InCrypt, KeepState
  <2>2. /\ frames \in Seq(Frame) /\ frames # <<>>
        /\ f \in Frame
        /\ f.path = frames[Len(frames)].path
        /\ Len(frames) \in Nat
    BY <2>1, CurrentTyped DEF IInv, TypeOK, FramesOK, Frame
  <2> HIDE DEF f
  <2>3. /\ Len(frames') = Len(frames)
        /\ frames'[Len(frames)] = f
        /\ \A i \in 1..(Len(frames) - 1) : frames'[i] = frames[i]
    BY <2>1, <2>2, ReplaceTop
  <2>4. \A i \in 1..Len(frames) : frames'[i].path = frames[i].path
    BY <2>2, <2>3
  <2> QED
    BY <2>1, <2>2, <2>3, <2>4, SameFilesOpen
<1>6. CASE UNCHANGED vars \/ Halted
  BY <1>6 DEF Halted, vars, OpenOnce
<1> QED
  BY <1>1, <1>2, <1>3, <1>4, <1>5, <1>6 DEF Next, Step, ReadsLine

\* INCLUDE never opens a spelling that is being read, so that the recursion of
\* execute() is at most as deep as there are spellings of file names.
THEOREM IncludesOpenOnce == Spec => []OpenOnce
<1>1. Init => OpenOnce
  BY DEF Init, OpenOnce
<1>2. IInv /\ OpenOnce /\ [Next]_vars => OpenOnce'
  BY NextOpensOnce
<1> QED
  BY <1>1, <1>2, InductiveInvariant, PTL DEF Spec

-----------------------------------------------------------------------------
(***************************************************************************)
(* Line numbers.  Text is on the line with its number because every line   *)
(* read leaves one newline, so that the two counters stay equal.  A        *)
(* #decrypt block that reaches the end of its file would leave one more:   *)
(* on a delimited deck there always is an #endcrypt ahead of it.           *)
(***************************************************************************)
Ahead(frame) ==
  frame.crypt =>
    \E j \in DOMAIN LinesOf(frame.path) :
      j > frame.pos /\ LinesOf(frame.path)[j].dir = "ENDCRYPT"

EndcryptAhead == \A i \in DOMAIN frames : Ahead(frames[i])

InStep == status \notin {"exited", "aborted"} => newlines = globalLineNo

TextInStep == \A i \in DOMAIN out : out[i].at = out[i].global

LineInv == Delimited => EndcryptAhead /\ InStep /\ TextInStep

\* What a line that is read leaves in the output.
LEMMA OutputOfALine ==
  ASSUME IInv, Delimited, ReadsLine \/ ProcessInclude
  PROVE  \/ /\ status' \in {"exited", "aborted"}
            /\ WriteNothing
         \/ \E hasText \in BOOLEAN : Write(hasText, 1)
<1>1. CASE ProcessDefine \/ ProcessUndefine \/ ProcessRedefine
           \/ ProcessReundefine
  BY <1>1 DEF ProcessDefine, ProcessUndefine, ProcessRedefine,
              ProcessReundefine, Definition, Fatal
<1>2. CASE ProcessIfdef \/ ProcessIfndef \/ ProcessElse \/ ProcessEndif
  BY <1>2 DEF ProcessIfdef, ProcessIfndef, ProcessElse, ProcessEndif,
              Conditional, Fatal
<1>3. CASE CopyText \/ EchoDirective
  <2>1. isEnabled \in BOOLEAN /\ mode.convertSwitch \in BOOLEAN
    BY DEF IInv, TypeOK, Mode
  <2> QED
    BY <1>3, <2>1 DEF CopyText, EchoDirective
<1>4. CASE ProcessPragma
  BY <1>4 DEF ProcessPragma, Fatal
<1>5. CASE IncludeDisabled \/ IncludeRejected \/ IncludeUnreadable
           \/ IncludeTvfFails \/ ProcessInclude
  BY <1>5 DEF IncludeDisabled, IncludeRejected, IncludeUnreadable,
              IncludeTvfFails, ProcessInclude, Accepts, IncludeFrame
<1>6. CASE ConvertInclude
  <2>1. /\ Reads({"INCL"})
        /\ mode.convertIncludeFile
        /\ \/ status' = "aborted" /\ WriteNothing
           \/ Write(TRUE, IncludeNewlines)
    BY <1>6 DEF ConvertInclude
  <2>2. /\ status = "running" /\ ~AtEnd
        /\ CurrentLine.dir = "INCL"
    BY <2>1, ReadsTyped
  <2>3. /\ LinesOf(Current.path) \in Seq(Line)
        /\ Current \in Frame
        /\ Current.pos + 1 <= Len(LinesOf(Current.path))
    BY <2>2, CurrentTyped, CurrentLineTyped
  <2>4. Current.pos + 1 \in DOMAIN LinesOf(Current.path)
    BY <2>3, LenProperties DEF Frame
  <2>5. FileOf[Current.path] \in Files
    BY <2>3, ConstantsTyped DEF Frame
  <2>6. CurrentLine.quoted
    BY <2>1, <2>2, <2>4, <2>5 DEF Delimited, DirOf, LinesOf, CurrentLine
  <2>7. IncludeNewlines = 1
    BY <2>6 DEF IncludeNewlines
  <2> QED
    BY <2>1, <2>7
<1>7. CASE ProcessDecrypt \/ SkipCrypted
  BY <1>7 DEF ProcessDecrypt, SkipCrypted
<1> QED
  BY <1>1, <1>2, <1>3, <1>4, <1>5, <1>6, <1>7 DEF ReadsLine

\* A line that is read and followed by a newline keeps the counters equal.
LEMMA LineKeepsCount ==
  ASSUME IInv, InStep, TextInStep, status = "running", CountLine,
         \/ status' \in {"exited", "aborted"} /\ WriteNothing
         \/ \E hasText \in BOOLEAN : Write(hasText, 1)
  PROVE  InStep' /\ TextInStep'
<1>1. /\ newlines = globalLineNo
      /\ globalLineNo \in Nat
      /\ globalLineNo' = globalLineNo + 1
      /\ out \in Seq([at : Nat, global : Nat])
  BY DEF InStep, CountLine, IInv, TypeOK
<1>2. CASE status' \in {"exited", "aborted"} /\ WriteNothing
  BY <1>2 DEF InStep, TextInStep, WriteNothing
<1>3. ASSUME NEW hasText \in BOOLEAN, Write(hasText, 1)
      PROVE  InStep' /\ TextInStep'
  <2> DEFINE e == [at |-> newlines + 1, global |-> globalLineNo']
  <2>1. newlines' = newlines + 1
    BY <1>3 DEF Write
  <2>2. InStep'
    BY <2>1, <1>1 DEF InStep
  <2>3. e \in [at : Nat, global : Nat] /\ e.at = e.global
    BY <1>1
  <2>4. out' = out \/ out' = Append(out, e)
    BY <1>3 DEF Write
  <2> HIDE DEF e
  <2>5. CASE out' = out
    BY <2>5, <2>2 DEF TextInStep
  <2>6. CASE out' = Append(out, e)
    <3>1. /\ out' \in Seq([at : Nat, global : Nat])
          /\ Len(out') = Len(out) + 1
          /\ out'[Len(out) + 1] = e
          /\ \A i \in 1..Len(out) : out'[i] = out[i]
          /\ Len(out) \in Nat
      BY <2>6, <2>3, <1>1, PushOn, LenProperties
    <3>2. DOMAIN out' = 1..(Len(out) + 1) /\ DOMAIN out = 1..Len(out)
      BY <3>1, <1>1, LenProperties
    <3>3. ASSUME NEW i \in DOMAIN out'
          PROVE  out'[i].at = out'[i].global
      <4>1. CASE i = Len(out) + 1
        BY <4>1, <3>1, <2>3
      <4>2. CASE i # Len(out) + 1
        <5>1. i \in 1..Len(out)
          BY <4>2, <3>1, <3>2
        <5> QED
          BY <5>1, <3>1, <3>2 DEF TextInStep
      <4> QED
        BY <4>1, <4>2
    <3> QED
      BY <3>3, <2>2 DEF TextInStep
  <2> QED
    BY <2>4, <2>5, <2>6
<1> QED
  BY <1>2, <1>3

LEMMA BelowTop ==
  ASSUME NEW n \in Nat, NEW i \in 1..n, i # n
  PROVE  i \in 1..(n - 1)
OBVIOUS

\* Whatever the top of the frames becomes, it is all that matters.
LEMMA TopAhead ==
  ASSUME IInv, EndcryptAhead, status = "running", UNCHANGED disk,
         NEW f \in Frame, Ahead(f),
         frames' = [frames EXCEPT ![Len(frames)] = f]
  PROVE  EndcryptAhead'
<1>1. frames \in Seq(Frame) /\ frames # <<>>
  BY DEF IInv, TypeOK, FramesOK
<1>2. /\ frames' \in Seq(Frame)
      /\ Len(frames') = Len(frames)
      /\ Len(frames) \in Nat
      /\ frames'[Len(frames)] = f
      /\ \A i \in 1..(Len(frames) - 1) : frames'[i] = frames[i]
  BY <1>1, ReplaceTop, LenProperties
<1>3. DOMAIN frames' = 1..Len(frames) /\ DOMAIN frames = 1..Len(frames)
  BY <1>1, <1>2, LenProperties
<1>4. ASSUME NEW i \in DOMAIN frames'
      PROVE  Ahead(frames'[i])
  <2>1. CASE i = Len(frames)
    BY <2>1, <1>2
  <2>2. CASE i # Len(frames)
    <3>1. i \in 1..Len(frames) /\ i \in DOMAIN frames
      BY <1>3
    <3>2. i \in 1..(Len(frames) - 1)
      BY <3>1, <2>2, <1>2, BelowTop
    <3> QED
      BY <3>1, <3>2, <1>2 DEF EndcryptAhead
  <2> QED
    BY <2>1, <2>2
<1> QED
  BY <1>4 DEF EndcryptAhead, Ahead, LinesOf

LEMMA LineKeepsAhead ==
  ASSUME IInv, Delimited, EndcryptAhead, ReadsLine, UNCHANGED disk
  PROVE  EndcryptAhead'
<1>1. /\ status = "running" /\ ~AtEnd
      /\ \/ frames' = [frames EXCEPT ![Len(frames)] = AdvancedFrame(FALSE)]
         \/ ProcessDecrypt \/ SkipCrypted
  BY ReadsOneLine
<1>2. /\ LinesOf(Current.path) \in Seq(Line)
      /\ Current \in Frame
      /\ Current = frames[Len(frames)]
      /\ Len(frames) \in Nat \ {0}
      /\ Current.pos + 1 <= Len(LinesOf(Current.path))
      /\ CurrentLine = LinesOf(Current.path)[Current.pos + 1]
  BY <1>1, CurrentTyped, CurrentLineTyped DEF CurrentLine
<1>3. ASSUME NEW crypt \in BOOLEAN
      PROVE  /\ AdvancedFrame(crypt) \in Frame
             /\ AdvancedFrame(crypt).path = Current.path
             /\ AdvancedFrame(crypt).pos = Current.pos + 1
             /\ AdvancedFrame(crypt).crypt = crypt
  BY <1>2 DEF AdvancedFrame, Frame
<1>4. CASE frames' = [frames EXCEPT ![Len(frames)] = AdvancedFrame(FALSE)]
  <2>1. Ahead(AdvancedFrame(FALSE))
    BY <1>3 DEF Ahead
  <2> QED
    BY <2>1, <1>1, <1>3, <1>4, TopAhead
<1>5. CASE ProcessDecrypt
  <2>1. /\ CurrentLine.dir = "DECRYPT"
        /\ frames' = [frames EXCEPT ![Len(frames)] = AdvancedFrame(TRUE)]
    BY <1>5 DEF ProcessDecrypt, Reads, CryptFrame
  <2>2. FileOf[Current.path] \in Files
    BY <1>2, ConstantsTyped DEF Frame
  <2>3. Current.pos + 1 \in DOMAIN LinesOf(Current.path)
    BY <1>2, LenProperties DEF Frame
  <2>4. \E j \in DOMAIN LinesOf(Current.path) :
          /\ j > Current.pos + 1
          /\ LinesOf(Current.path)[j].dir = "ENDCRYPT"
    BY <1>2, <2>1, <2>2, <2>3 DEF Delimited, DirOf, LinesOf
  <2>5. Ahead(AdvancedFrame(TRUE))
    BY <2>4, <1>3 DEF Ahead
  <2> QED
    BY <2>1, <2>5, <1>1, <1>3, TopAhead
<1>6. CASE SkipCrypted
  <2> DEFINE crypt == CurrentLine.dir # "ENDCRYPT"
  <2>1. /\ Current.crypt
        /\ frames' = [frames EXCEPT ![Len(frames)] = AdvancedFrame(crypt)]
        /\ crypt \in BOOLEAN
    BY <1>6 DEF SkipCrypted, InCrypt, CryptFrame
  <2>2. DOMAIN LinesOf(Current.path) = 1..Len(LinesOf(Current.path))
    BY <1>2, LenProperties
  <2>3. Len(frames) \in DOMAIN frames
    BY <1>2, LenProperties DEF IInv, TypeOK
  <2>4. PICK j \in DOMAIN LinesOf(Current.path) :
          /\ j > Current.pos
          /\ LinesOf(Current.path)[j].dir = "ENDCRYPT"
    BY <2>1, <2>3, <1>2 DEF EndcryptAhead, Ahead
  <2>5. crypt => j > Current.pos + 1
    BY <2>2, <2>4, <1>2 DEF Frame
  <2>6. /\ AdvancedFrame(crypt) \in Frame
        /\ AdvancedFrame(crypt).path = Current.path
        /\ AdvancedFrame(crypt).pos = Current.pos + 1
        /\ AdvancedFrame(crypt).crypt = crypt
    BY <2>1, <1>3
  <2> HIDE DEF crypt
  <2>7. Ahead(AdvancedFrame(crypt))
    BY <2>4, <2>5, <2>6 DEF Ahead
  <2> QED
    BY <2>1, <2>6, <2>7, <1>1, TopAhead
<1> QED
  BY <1>1, <1>4, <1>5, <1>6

LEMMA NextKeepsLines ==
  ASSUME IInv, LineInv, [Next]_vars
  PROVE  LineInv'
<1> SUFFICES ASSUME Delimited'
             PROVE  EndcryptAhead' /\ InStep' /\ TextInStep'
  BY DEF LineInv
<1>1. UNCHANGED disk /\ UNCHANGED mode
  BY DiskFixed
<1>2. Delimited
  BY <1>1 DEF Delimited, DirOf
<1>3. EndcryptAhead /\ InStep /\ TextInStep
  BY <1>2 DEF LineInv
<1>4. CASE ReadsLine
  <2>1. EndcryptAhead'
    BY <1>1, <1>2, <1>3, <1>4, LineKeepsAhead
  <2>2. status = "running" /\ CountLine
    BY <1>4, ReadsOneLine
  <2>3. InStep' /\ TextInStep'
    BY <1>2, <1>3, <1>4, <2>2, OutputOfALine, LineKeepsCount
  <2> QED
    BY <2>1, <2>3
<1>5. CASE ProcessInclude
  <2> DEFINE fs == [frames EXCEPT ![Len(frames)] = AdvancedFrame(FALSE)]
             f  == OpenFrame(Included)
  <2>1. /\ status = "running" /\ ~AtEnd
        /\ Included \in Paths
        /\ CountLine
        /\ frames' = Append(fs, f)
    BY <1>5, IncludeFrameTyped DEF ProcessInclude, Accepts, IncludeFrame
  <2>2. InStep' /\ TextInStep'
    BY <1>2, <1>3, <1>5, <2>1, OutputOfALine, LineKeepsCount
  <2>3. /\ fs \in Seq(Frame)
        /\ Len(fs) = Len(frames) /\ Len(frames) \in Nat \ {0}
        /\ fs[Len(frames)] = AdvancedFrame(FALSE)
        /\ \A i \in 1..(Len(frames) - 1) : fs[i] = frames[i]
        /\ frames \in Seq(Frame)
    BY <2>1, AdvanceTyped, CurrentTyped DEF IInv, TypeOK
  <2>4. /\ ~AdvancedFrame(FALSE).crypt
        /\ f \in Frame
        /\ ~f.crypt
    BY <2>1 DEF AdvancedFrame, OpenFrame, Frame
  <2> HIDE DEF fs, f
  <2>5. /\ DOMAIN frames' = 1..(Len(frames) + 1)
        /\ DOMAIN frames = 1..Len(frames)
        /\ frames'[Len(frames) + 1] = f
        /\ \A i \in 1..Len(frames) : frames'[i] = fs[i]
    BY <2>1, <2>3, <2>4, PushOn, LenProperties
  <2>6. ASSUME NEW i \in DOMAIN frames'
        PROVE  Ahead(frames'[i])
    <3>1. CASE i = Len(frames) + 1 \/ i = Len(frames)
      <4>1. /\ frames'[Len(frames)] = AdvancedFrame(FALSE)
            /\ frames'[Len(frames) + 1] = f
        <5>1. Len(frames) \in 1..Len(frames)
          BY <2>3
        <5> QED
          BY <5>1, <2>3, <2>5
      <4> QED
        BY <4>1, <3>1, <2>4 DEF Ahead
    <3>2. CASE ~(i = Len(frames) + 1 \/ i = Len(frames))
      <4>1. /\ i \in 1..(Len(frames) - 1)
            /\ i \in 1..Len(frames)
            /\ i \in DOMAIN frames
        BY <3>2, <2>3, <2>5
      <4>2. frames'[i] = frames[i]
        BY <4>1, <2>3, <2>5
      <4> QED
        BY <4>1, <4>2, <1>3 DEF EndcryptAhead, Ahead
    <3> QED
      BY <3>1, <3>2
  <2>7. EndcryptAhead'
    BY <2>6, <1>1 DEF EndcryptAhead, Ahead, LinesOf
  <2> QED
    BY <2>2, <2>7
<1>6. CASE EndOfFile
  <2>1. /\ status = "running"
        /\ frames' = Front(frames)
        /\ status' = IF Len(frames) = 1 THEN "done" ELSE "running"
        /\ UNCHANGED <<globalLineNo, newlines, out>>
    BY <1>6 DEF EndOfFile, ExhaustsFile, Return
  <2>2. frames \in Seq(Frame) /\ frames # <<>>
    BY <2>1 DEF IInv, TypeOK, FramesOK
  <2>3. /\ Len(frames) \in Nat \ {0}
        /\ frames' \in Seq(Frame)
        /\ Len(frames') = Len(frames) - 1
        /\ \A i \in 1..(Len(frames) - 1) : frames'[i] = frames[i]
    BY <2>1, <2>2, TopOf, Pop
  <2>4. /\ DOMAIN frames' = 1..(Len(frames) - 1)
        /\ DOMAIN frames = 1..Len(frames)
    BY <2>2, <2>3, LenProperties
  <2>5. \A i \in DOMAIN frames' : i \in DOMAIN frames /\ frames'[i] = frames[i]
    BY <2>3, <2>4
  <2>6. EndcryptAhead'
    BY <2>5, <1>1, <1>3 DEF EndcryptAhead, Ahead, LinesOf
  <2> QED
    BY <2>1, <2>6, <1>3 DEF InStep, TextInStep
<1>7. CASE DecryptAtEndOfFile
  <2>1. status = "running" /\ Current.crypt /\ AtEnd
    BY <1>7 DEF DecryptAtEndOfFile, InCrypt
  <2>2. /\ LinesOf(Current.path) \in Seq(Line)
        /\ Current \in Frame
        /\ Current = frames[Len(frames)]
        /\ Len(frames) \in Nat \ {0}
    BY <2>1, CurrentTyped
  <2>3. Len(frames) \in DOMAIN frames
    BY <2>2, LenProperties DEF IInv, TypeOK
  <2>4. PICK j \in DOMAIN LinesOf(Current.path) : j > Current.pos
    BY <2>1, <2>2, <2>3, <1>3 DEF EndcryptAhead, Ahead
  <2>5. j <= Len(LinesOf(Current.path)) /\ j \in Nat
    BY <2>2, <2>4, LenProperties
  <2>6. FALSE
    BY <2>1, <2>2, <2>4, <2>5 DEF AtEnd, Frame
  <2> QED
    BY <2>6
<1>8. CASE Start
  <2>1. /\ status = "start"
        /\ frames' = <<OpenFrame(Root)>>
        /\ UNCHANGED <<globalLineNo, newlines, out>>
    BY <1>8 DEF Start
  <2>2. ~OpenFrame(Root).crypt
    BY DEF OpenFrame
  <2>3. EndcryptAhead'
    BY <2>1, <2>2 DEF EndcryptAhead, Ahead
  <2> QED
    BY <2>1, <2>3, <1>3 DEF InStep, TextInStep
<1>9. CASE UNCHANGED vars \/ Halted
  <2>1. UNCHANGED <<frames, status, globalLineNo, newlines, out>>
    BY <1>9 DEF Halted, vars
  <2> QED
    BY <2>1, <1>1, <1>3
       DEF EndcryptAhead, Ahead, LinesOf, InStep, TextInStep
<1> QED
  BY <1>4, <1>5, <1>6, <1>7, <1>8, <1>9 DEF Next, Step, ReadsLine

\* On a delimited deck every text is on the line of the temporary file whose
\* number reportError will look it up by, whatever is included, skipped or
\* reported on the way.
THEOREM LinesMapped == Spec => []LineMap
<1>1. Init => LineInv
  BY DEF Init, LineInv, EndcryptAhead, InStep, TextInStep
<1>2. IInv /\ LineInv /\ [Next]_vars => LineInv'
  BY NextKeepsLines
<1>3. LineInv => LineMap
  BY DEF LineInv, TextInStep, LineMap
<1> QED
  BY <1>1, <1>2, <1>3, InductiveInvariant, PTL DEF Spec

-----------------------------------------------------------------------------
(***************************************************************************)
(* The blocks that the stack and the flag stand for: an #ifdef adds one, an *)
(* #else changes the last one.                                             *)
(***************************************************************************)
LEMMA StartsFinite ==
  ASSUME NEW s \in Seq(Entry)
  PROVE  /\ BlockStarts(s) \in SUBSET (1..Len(s))
         /\ IsFiniteSet(BlockStarts(s))
         /\ Cardinality(BlockStarts(s)) \in Nat
         /\ \A i : /\ IsFiniteSet({j \in BlockStarts(s) : j <= i})
                   /\ StartsTo(s, i) \in Nat
<1>1. BlockStarts(s) \in SUBSET (1..Len(s))
  BY DEF BlockStarts
<1>2. IsFiniteSet(1..Len(s))
  BY FS_Interval
<1>3. IsFiniteSet(BlockStarts(s))
  BY <1>1, <1>2, FS_Subset
<1>4. \A i : IsFiniteSet({j \in BlockStarts(s) : j <= i})
  <2> TAKE i
  <2>1. {j \in BlockStarts(s) : j <= i} \in SUBSET BlockStarts(s)
    OBVIOUS
  <2> QED
    BY <1>3, <2>1, FS_Subset
<1> QED
  BY <1>1, <1>3, <1>4, FS_CardinalityType DEF StartsTo

\* One entry further there is one start more, or none.
LEMMA NextStart ==
  ASSUME NEW s \in Seq(Entry), NEW i \in 1..Len(s)
  PROVE  StartsTo(s, i) = IF i \in BlockStarts(s) THEN StartsTo(s, i - 1) + 1
                                                  ELSE StartsTo(s, i - 1)
<1> DEFINE T(k) == {j \in BlockStarts(s) : j <= k}
<1>1. BlockStarts(s) \in SUBSET (1..Len(s)) /\ IsFiniteSet(T(i - 1))
  BY StartsFinite
<1>2. CASE i \in BlockStarts(s)
  <2>1. T(i) = T(i - 1) \cup {i} /\ i \notin T(i - 1)
    BY <1>1, <1>2
  <2> HIDE DEF T
  <2>2. Cardinality(T(i)) = Cardinality(T(i - 1)) + 1
    BY <1>1, <2>1, FS_AddElement
  <2> QED
    BY <1>2, <2>2 DEF T, StartsTo
<1>3. CASE i \notin BlockStarts(s)
  <2>1. T(i) = T(i - 1)
    BY <1>1, <1>3
  <2> QED
    BY <1>3, <2>1 DEF StartsTo
<1> QED
  BY <1>2, <1>3

LEMMA StartsAtEnds ==
  ASSUME NEW s \in Seq(Entry)
  PROVE  /\ StartsTo(s, 0) = 0
         /\ StartsTo(s, Len(s)) = Cardinality(BlockStarts(s))
<1>1. BlockStarts(s) \in SUBSET (1..Len(s))
  BY StartsFinite
<1>2. {j \in BlockStarts(s) : j <= 0} = {}
  BY <1>1
<1>3. {j \in BlockStarts(s) : j <= Len(s)} = BlockStarts(s)
  BY <1>1
<1> QED
  BY <1>2, <1>3, FS_EmptySet DEF StartsTo

\* Each block has one entry that opens it.
LEMMA StartExists ==
  ASSUME NEW s \in Seq(Entry), NEW k \in 1..Cardinality(BlockStarts(s))
  PROVE  /\ BlockStart(s, k) \in BlockStarts(s)
         /\ BlockStart(s, k) \in 1..Len(s)
         /\ StartsTo(s, BlockStart(s, k)) = k
<1> DEFINE T == {i \in 0..Len(s) : StartsTo(s, i) >= k}
           m == Min(T)
<1>1. Cardinality(BlockStarts(s)) \in Nat /\ \A i : StartsTo(s, i) \in Nat
  BY StartsFinite
<1>2. Len(s) \in T /\ T \in SUBSET Nat
  BY <1>1, StartsAtEnds
<1>3. m \in T /\ \A y \in T : m <= y
  BY <1>2, MinOfNaturals
<1> HIDE DEF m
<1>4. m # 0
  BY <1>1, <1>3, StartsAtEnds
<1>5. m \in 1..Len(s) /\ m - 1 \in 0..Len(s) /\ m - 1 \notin T
  BY <1>3, <1>4
<1>6. StartsTo(s, m - 1) < k /\ StartsTo(s, m) >= k
  BY <1>1, <1>3, <1>5
<1>7. m \in BlockStarts(s) /\ StartsTo(s, m) = k
  BY <1>1, <1>5, <1>6, NextStart
<1>8. \E i \in BlockStarts(s) : StartsTo(s, i) = k
  BY <1>7
<1>9. BlockStart(s, k) \in BlockStarts(s) /\ StartsTo(s, BlockStart(s, k)) = k
  BY <1>8 DEF BlockStart
<1> QED
  BY <1>9, StartsFinite

LEMMA StartsOrdered ==
  ASSUME NEW s \in Seq(Entry), NEW i \in BlockStarts(s),
         NEW h \in BlockStarts(s), h < i
  PROVE  StartsTo(s, h) < StartsTo(s, i)
<1> DEFINE T(n) == {j \in BlockStarts(s) : j <= n}
<1>1. BlockStarts(s) \in SUBSET (1..Len(s)) /\ IsFiniteSet(T(i - 1))
      /\ \A n : StartsTo(s, n) \in Nat
  BY StartsFinite
<1>2. T(h) \in SUBSET T(i - 1)
  BY <1>1
<1>3. StartsTo(s, h) <= StartsTo(s, i - 1)
  <2> HIDE DEF T
  <2>1. Cardinality(T(h)) <= Cardinality(T(i - 1))
    BY <1>1, <1>2, FS_Subset
  <2> QED
    BY <2>1 DEF T, StartsTo
<1>4. StartsTo(s, i) = StartsTo(s, i - 1) + 1
  BY <1>1, NextStart
<1> QED
  BY <1>1, <1>3, <1>4

LEMMA StartUnique ==
  ASSUME NEW s \in Seq(Entry), NEW k \in 1..Cardinality(BlockStarts(s)),
         NEW i \in BlockStarts(s), StartsTo(s, i) = k
  PROVE  BlockStart(s, k) = i
<1> DEFINE h == BlockStart(s, k)
<1>1. h \in BlockStarts(s) /\ StartsTo(s, h) = k
  BY StartExists
<1>2. h \in Nat /\ i \in Nat /\ k \in Nat
  BY <1>1, StartsFinite
<1> HIDE DEF h
<1>3. ~(h < i) /\ ~(i < h)
  BY <1>1, <1>2, StartsOrdered
<1>4. h = i
  BY <1>2, <1>3
<1> QED
  BY <1>4 DEF h

LEMMA AppendedStarts ==
  ASSUME NEW s \in Seq(Entry), NEW e \in Entry
  PROVE  LET t == Append(s, e) IN
         /\ BlockStarts(t) = IF e.type = "ELSE" THEN BlockStarts(s)
                             ELSE BlockStarts(s) \cup {Len(s) + 1}
         /\ \A i \in 1..Len(s) : StartsTo(t, i) = StartsTo(s, i)
         /\ Cardinality(BlockStarts(t)) =
              Cardinality(BlockStarts(s)) + IF e.type = "ELSE" THEN 0 ELSE 1
         /\ \A k \in 1..Cardinality(BlockStarts(s)) :
              BlockStart(t, k) = BlockStart(s, k)
         /\ e.type # "ELSE" =>
              BlockStart(t, Cardinality(BlockStarts(s)) + 1) = Len(s) + 1
<1> DEFINE t == Append(s, e)
           n == Cardinality(BlockStarts(s))
<1>1. /\ t \in Seq(Entry) /\ Len(t) = Len(s) + 1 /\ Len(s) \in Nat
      /\ \A i \in 1..Len(s) : t[i] = s[i]
      /\ t[Len(s) + 1] = e
  OBVIOUS
<1>2. /\ BlockStarts(s) \in SUBSET (1..Len(s)) /\ IsFiniteSet(BlockStarts(s))
      /\ n \in Nat
  BY StartsFinite
<1>3. BlockStarts(t) = IF e.type = "ELSE" THEN BlockStarts(s)
                       ELSE BlockStarts(s) \cup {Len(s) + 1}
  <2> HIDE DEF t
  <2>1. \A i : i \in BlockStarts(t)
               <=> i \in 1..(Len(s) + 1) /\ t[i].type # "ELSE"
    BY <1>1 DEF BlockStarts
  <2>2. \A i : i \in BlockStarts(s) <=> i \in 1..Len(s) /\ s[i].type # "ELSE"
    BY DEF BlockStarts
  <2>3. \A i : i \in 1..(Len(s) + 1) <=> i \in 1..Len(s) \/ i = Len(s) + 1
    BY <1>1
  <2> QED
    BY <1>1, <2>1, <2>2, <2>3
<1>4. Cardinality(BlockStarts(t)) = n + IF e.type = "ELSE" THEN 0 ELSE 1
  <2>1. Len(s) + 1 \notin BlockStarts(s)
    BY <1>1, <1>2
  <2>2. Cardinality(BlockStarts(s) \cup {Len(s) + 1}) = n + 1
    BY <1>2, <2>1, FS_AddElement
  <2> QED
    BY <1>2, <1>3, <2>2
<1>5. ASSUME NEW i \in 1..Len(s)
      PROVE  StartsTo(t, i) = StartsTo(s, i)
  <2>1. {j \in BlockStarts(t) : j <= i} = {j \in BlockStarts(s) : j <= i}
    BY <1>1, <1>2, <1>3
  <2> QED
    BY <2>1 DEF StartsTo
<1> HIDE DEF t
<1>6. ASSUME NEW k \in 1..n
      PROVE  BlockStart(t, k) = BlockStart(s, k)
  <2>1. /\ BlockStart(s, k) \in BlockStarts(s)
        /\ BlockStart(s, k) \in 1..Len(s)
        /\ StartsTo(s, BlockStart(s, k)) = k
    BY StartExists
  <2>2. k \in 1..Cardinality(BlockStarts(t))
    BY <1>2, <1>4
  <2>3. /\ BlockStart(s, k) \in BlockStarts(t)
        /\ StartsTo(t, BlockStart(s, k)) = k
    BY <1>3, <1>5, <2>1
  <2> QED
    BY <1>1, <2>2, <2>3, StartUnique
<1>7. ASSUME e.type # "ELSE"
      PROVE  BlockStart(t, n + 1) = Len(s) + 1
  <2>1. Len(t) \in BlockStarts(t)
    BY <1>1, <1>3, <1>7
  <2>2. StartsTo(t, Len(t)) = n + 1
    BY <1>1, <1>4, <1>7, StartsAtEnds
  <2>3. n + 1 \in 1..Cardinality(BlockStarts(t))
    BY <1>2, <1>4, <1>7
  <2> QED
    BY <1>1, <2>1, <2>2, <2>3, StartUnique
<1> QED
  BY <1>3, <1>4, <1>5, <1>6, <1>7 DEF t

LEMMA BlocksTyped ==
  ASSUME NEW s \in Seq(Entry), NEW f \in BOOLEAN
  PROVE  /\ BlocksOf(s, f) \in Seq(Blocks!Block)
         /\ Len(BlocksOf(s, f)) = Cardinality(BlockStarts(s))
         /\ DOMAIN BlocksOf(s, f) = 1..Cardinality(BlockStarts(s))
<1> DEFINE n == Cardinality(BlockStarts(s))
<1>1. n \in Nat
  BY StartsFinite
<1>2. ASSUME NEW k \in 1..n
      PROVE  BlocksOf(s, f)[k] \in Blocks!Block
  <2>1. k < n => s[BlockStart(s, k + 1)] \in Entry
    <3>1. k < n => k + 1 \in 1..n
      BY <1>1
    <3>2. k < n => BlockStart(s, k + 1) \in 1..Len(s)
      BY <3>1, StartExists
    <3> QED
      BY <3>2
  <2> QED
    BY <2>1 DEF BlocksOf, Blocks!Block, Entry
<1>3. BlocksOf(s, f) = [k \in 1..n |-> BlocksOf(s, f)[k]]
  BY DEF BlocksOf
<1> QED
  BY <1>1, <1>2, <1>3

LEMMA BlockAt ==
  ASSUME NEW s, NEW f, NEW n, n = Cardinality(BlockStarts(s)), NEW k \in 1..n
  PROVE  BlocksOf(s, f)[k] =
           [live   |-> IF k < n THEN s[BlockStart(s, k + 1)].enabled ELSE f,
            inElse |-> /\ BlockStart(s, k) < Len(s)
                       /\ s[BlockStart(s, k) + 1].type = "ELSE"]
BY DEF BlocksOf

\* An #ifdef opens a block.
LEMMA OpenedBlock ==
  ASSUME NEW s \in Seq(Entry), NEW type \in {"IFDEF", "IFNDEF"},
         NEW f \in BOOLEAN, NEW g \in BOOLEAN
  PROVE  BlocksOf(Append(s, [type |-> type, enabled |-> f]), g) =
           Append(BlocksOf(s, f), [live |-> g, inElse |-> FALSE])
<1> DEFINE e == [type |-> type, enabled |-> f]
           t == Append(s, e)
           n == Cardinality(BlockStarts(s))
           b == BlocksOf(s, f)
           c == BlocksOf(t, g)
<1>1. e \in Entry /\ e.type # "ELSE" /\ e.type = type /\ e.enabled = f
  BY DEF Entry
<1>2. /\ t \in Seq(Entry) /\ Len(t) = Len(s) + 1 /\ Len(s) \in Nat
      /\ \A i \in 1..Len(s) : t[i] = s[i]
      /\ t[Len(s) + 1] = e
  BY <1>1
<1>3. /\ n \in Nat
      /\ Cardinality(BlockStarts(t)) = n + 1
      /\ \A k \in 1..n : BlockStart(t, k) = BlockStart(s, k)
      /\ BlockStart(t, n + 1) = Len(s) + 1
  BY <1>1, AppendedStarts, StartsFinite
<1>4. /\ b \in Seq(Blocks!Block) /\ Len(b) = n
      /\ c \in Seq(Blocks!Block) /\ Len(c) = n + 1
  BY <1>2, <1>3, BlocksTyped
<1> HIDE DEF e, t
<1>41. \A k \in 1..(n + 1) :
         c[k] = [live   |-> IF k < n + 1 THEN t[BlockStart(t, k + 1)].enabled
                                         ELSE g,
                 inElse |-> /\ BlockStart(t, k) < Len(t)
                            /\ t[BlockStart(t, k) + 1].type = "ELSE"]
  BY <1>3, BlockAt
<1>42. \A k \in 1..n :
         b[k] = [live   |-> IF k < n THEN s[BlockStart(s, k + 1)].enabled
                                     ELSE f,
                 inElse |-> /\ BlockStart(s, k) < Len(s)
                            /\ s[BlockStart(s, k) + 1].type = "ELSE"]
  BY ZenonT(60), BlockAt
<1> HIDE DEF b, c, n
<1>5. c[n + 1] = [live |-> g, inElse |-> FALSE]
  <2>1. n + 1 \in 1..(n + 1) /\ ~(n + 1 < n + 1)
    BY <1>3
  <2>2. c[n + 1] = [live   |-> g,
                    inElse |-> Len(s) + 1 < Len(t) /\ t[Len(s) + 2].type = "ELSE"]
    <3>1. c[n + 1] = [live   |-> IF n + 1 < n + 1
                                 THEN t[BlockStart(t, n + 1 + 1)].enabled ELSE g,
                      inElse |-> /\ BlockStart(t, n + 1) < Len(t)
                                 /\ t[BlockStart(t, n + 1) + 1].type = "ELSE"]
      BY <1>41, <2>1
    <3>2. Len(s) + 1 + 1 = Len(s) + 2
      BY <1>2
    <3> QED
      BY <1>3, <2>1, <3>1, <3>2
  <2>3. ~(Len(s) + 1 < Len(t))
    BY <1>2
  <2> QED
    BY <2>2, <2>3
<1>6. ASSUME NEW k \in 1..n
      PROVE  c[k] = b[k]
  <2> DEFINE i == BlockStart(s, k)
  <2>1. i \in 1..Len(s) /\ BlockStart(t, k) = i
    BY <1>3, StartExists DEF n
  <2>2. c[k] = [live   |-> t[BlockStart(t, k + 1)].enabled,
                inElse |-> i < Len(t) /\ t[i + 1].type = "ELSE"]
    <3>1. k \in 1..(n + 1) /\ k < n + 1
      BY <1>3
    <3> QED
      BY <1>41, <2>1, <3>1
  <2>3. b[k] = [live   |-> IF k < n THEN s[BlockStart(s, k + 1)].enabled ELSE f,
                inElse |-> i < Len(s) /\ s[i + 1].type = "ELSE"]
    BY <1>42
  <2>4. (i < Len(t) /\ t[i + 1].type = "ELSE")
        <=> (i < Len(s) /\ s[i + 1].type = "ELSE")
    <3> HIDE DEF i
    <3> QED
      BY <1>1, <1>2, <2>1
  <2>5. t[BlockStart(t, k + 1)].enabled =
          IF k < n THEN s[BlockStart(s, k + 1)].enabled ELSE f
    <3>1. CASE k < n
      <4>1. k + 1 \in 1..n
        BY <1>3, <3>1
      <4>2. BlockStart(s, k + 1) \in 1..Len(s)
        BY <4>1, StartExists DEF n
      <4> QED
        BY <1>2, <1>3, <3>1, <4>1, <4>2
    <3>2. CASE k = n
      BY <1>1, <1>2, <1>3, <3>2
    <3> QED
      BY <1>3, <3>1, <3>2
  <2> QED
    BY <2>2, <2>3, <2>4, <2>5
<1>7. c = Append(b, [live |-> g, inElse |-> FALSE])
  BY <1>3, <1>4, <1>5, <1>6
<1> QED
  BY <1>7 DEF b, c, t, e

\* An #else on top of its #ifdef replaces the branch.
LEMMA ElseBlock ==
  ASSUME NEW s \in Seq(Entry), NEW type \in {"IFDEF", "IFNDEF"},
         NEW f \in BOOLEAN, NEW g \in BOOLEAN, NEW h \in BOOLEAN
  PROVE  LET t == Append(s, [type |-> type, enabled |-> f])
             u == Append(t, [type |-> "ELSE", enabled |-> h])
         IN  BlocksOf(u, g) = Append(BlocksOf(s, f),
                                     [live |-> g, inElse |-> TRUE])
<1> DEFINE e == [type |-> type, enabled |-> f]
           d == [type |-> "ELSE", enabled |-> h]
           t == Append(s, e)
           u == Append(t, d)
           n == Cardinality(BlockStarts(s))
           b == BlocksOf(t, g)
           c == BlocksOf(u, g)
<1>1. /\ e \in Entry /\ e.type # "ELSE" /\ d \in Entry /\ d.type = "ELSE"
  BY DEF Entry
<1>2. /\ t \in Seq(Entry) /\ Len(t) = Len(s) + 1 /\ Len(s) \in Nat
  BY <1>1
<1>3. /\ n \in Nat
      /\ Cardinality(BlockStarts(t)) = n + 1
      /\ \A k \in 1..n : BlockStart(t, k) = BlockStart(s, k)
      /\ BlockStart(t, n + 1) = Len(s) + 1
  BY <1>1, AppendedStarts, StartsFinite
<1> HIDE DEF e, t
<1>4. /\ u \in Seq(Entry) /\ Len(u) = Len(t) + 1
      /\ \A i \in 1..Len(t) : u[i] = t[i]
      /\ u[Len(t) + 1] = d
  BY <1>1, <1>2
<1>5. /\ Cardinality(BlockStarts(u)) = n + 1
      /\ \A k \in 1..(n + 1) : BlockStart(u, k) = BlockStart(t, k)
  BY <1>1, <1>2, <1>3, AppendedStarts
<1>6. /\ b \in Seq(Blocks!Block) /\ Len(b) = n + 1
      /\ c \in Seq(Blocks!Block) /\ Len(c) = n + 1
  BY <1>2, <1>3, <1>4, <1>5, BlocksTyped
<1> HIDE DEF u, d
<1>61. \A k \in 1..(n + 1) :
         c[k] = [live   |-> IF k < n + 1 THEN u[BlockStart(u, k + 1)].enabled
                                         ELSE g,
                 inElse |-> /\ BlockStart(u, k) < Len(u)
                            /\ u[BlockStart(u, k) + 1].type = "ELSE"]
  <2> HIDE DEF n
  <2>1. Cardinality(BlockStarts(u)) = n + 1
    BY <1>5
  <2> QED
    BY ZenonT(60), <2>1, BlockAt
<1>62. \A k \in 1..(n + 1) :
         b[k] = [live   |-> IF k < n + 1 THEN t[BlockStart(t, k + 1)].enabled
                                         ELSE g,
                 inElse |-> /\ BlockStart(t, k) < Len(t)
                            /\ t[BlockStart(t, k) + 1].type = "ELSE"]
  <2> HIDE DEF n
  <2> QED
    BY ZenonT(60), <1>3, BlockAt
<1> HIDE DEF b, c, n
<1>7. c[n + 1] = [live |-> g, inElse |-> TRUE]
  <2>1. n + 1 \in 1..(n + 1) /\ ~(n + 1 < n + 1)
    BY <1>3
  <2>2. BlockStart(u, n + 1) = Len(t)
    BY <1>2, <1>3, <1>5, <2>1
  <2>3. c[n + 1] = [live   |-> IF n + 1 < n + 1
                               THEN u[BlockStart(u, n + 1 + 1)].enabled ELSE g,
                    inElse |-> /\ BlockStart(u, n + 1) < Len(u)
                               /\ u[BlockStart(u, n + 1) + 1].type = "ELSE"]
    BY <1>61, <2>1
  <2>4. Len(t) < Len(u)
    BY <1>2, <1>4
  <2> QED
    BY <1>1, <1>4, <2>1, <2>2, <2>3, <2>4
<1>8. ASSUME NEW k \in 1..n
      PROVE  c[k] = b[k]
  <2> DEFINE i == BlockStart(t, k)
             j == BlockStart(t, k + 1)
  <2>1. i \in 1..Len(s) /\ j \in 1..Len(t)
    <3>1. i \in 1..Len(s)
      BY <1>3, StartExists DEF n
    <3>2. k + 1 \in 1..Cardinality(BlockStarts(t))
      BY <1>3
    <3>3. j \in 1..Len(t)
      BY <1>2, <3>2, StartExists
    <3> QED
      BY <3>1, <3>3
  <2>2. BlockStart(u, k) = i /\ BlockStart(u, k + 1) = j /\ k < n + 1
    BY <1>3, <1>5
  <2>3. c[k] = [live   |-> u[j].enabled,
                inElse |-> i < Len(u) /\ u[i + 1].type = "ELSE"]
    <3>1. k \in 1..(n + 1)
      BY <1>3
    <3> QED
      BY <1>61, <2>2, <3>1
  <2>4. b[k] = [live   |-> t[j].enabled,
                inElse |-> i < Len(t) /\ t[i + 1].type = "ELSE"]
    <3>1. k \in 1..(n + 1)
      BY <1>3
    <3> QED
      BY <1>62, <2>2, <3>1
  <2> HIDE DEF i, j
  <2>5. /\ u[j] = t[j] /\ u[i + 1] = t[i + 1]
        /\ i < Len(u) /\ i < Len(t)
    BY <1>2, <1>4, <2>1
  <2> QED
    BY <2>3, <2>4, <2>5
<1>9. b = Append(BlocksOf(s, f), [live |-> g, inElse |-> FALSE])
  BY OpenedBlock DEF b, t, e
<1>10. BlocksOf(s, f) \in Seq(Blocks!Block) /\ Len(BlocksOf(s, f)) = n
  BY BlocksTyped DEF n
<1>11. c = Append(BlocksOf(s, f), [live |-> g, inElse |-> TRUE])
  <2> DEFINE a == BlocksOf(s, f)
  <2> HIDE DEF a
  <2>1. \A k \in 1..n : c[k] = a[k]
    BY <1>3, <1>8, <1>9, <1>10 DEF a
  <2> QED
    BY <1>3, <1>6, <1>7, <1>10, <2>1 DEF a
<1> QED
  BY <1>11 DEF c, u, t, d, e

\* The abstract specification and the preprocessor mean the same last element
\* and the same sequence without it.
LEMMA SameEnds ==
  ASSUME NEW q
  PROVE  Blocks!Last(q) = Last(q) /\ Blocks!Front(q) = Front(q)
BY DEF Blocks!Last, Last, Blocks!Front, Front

\* The last block is live if the flag is set, and where there is none it is.
LEMMA InnermostLive ==
  ASSUME NEW s \in Seq(Entry), NEW f \in BOOLEAN,
         s = <<>> => f, s # <<>> => s[1].type # "ELSE"
  PROVE  /\ (BlocksOf(s, f) = <<>>) <=> (s = <<>>)
         /\ Blocks!Live(BlocksOf(s, f)) = f
<1> DEFINE n == Cardinality(BlockStarts(s))
           b == BlocksOf(s, f)
<1>1. n \in Nat /\ b \in Seq(Blocks!Block) /\ Len(b) = n
  BY StartsFinite, BlocksTyped
<1>2. CASE s = <<>>
  <2>1. BlockStarts(s) = {}
    BY <1>2 DEF BlockStarts
  <2>2. n = 0
    BY <2>1, FS_EmptySet
  <2> HIDE DEF b, n
  <2>3. b = <<>>
    BY <1>1, <2>2
  <2> QED
    BY <1>2, <2>3 DEF Blocks!Live, b
<1>3. CASE s # <<>>
  <2>1. 1 \in BlockStarts(s)
    BY <1>3 DEF BlockStarts
  <2>2. n # 0
    BY <2>1, StartsFinite, FS_EmptySet
  <2>3. n \in 1..n /\ ~(n < n)
    BY <1>1, <2>2
  <2>4. BlocksOf(s, f)[n].live = f
    <3>1. b[n] = [live   |-> IF n < n THEN s[BlockStart(s, n + 1)].enabled
                                      ELSE f,
                  inElse |-> /\ BlockStart(s, n) < Len(s)
                             /\ s[BlockStart(s, n) + 1].type = "ELSE"]
      BY <2>3, BlockAt
    <3> HIDE DEF n
    <3> QED
      BY <2>3, <3>1
  <2> HIDE DEF b, n
  <2>5. b # <<>> /\ Last(b) = b[n]
    BY <1>1, <2>2 DEF Last
  <2>6. Blocks!Live(b) = f
    <3>1. Last(b).live = f
      BY <2>4, <2>5 DEF b
    <3>2. CASE f = TRUE
      BY <2>5, <3>1, <3>2, SameEnds DEF Blocks!Live
    <3>3. CASE f = FALSE
      BY <2>5, <3>1, <3>3, SameEnds DEF Blocks!Live
    <3> QED
      BY <3>2, <3>3
  <2> QED
    BY <1>3, <2>5, <2>6 DEF b
<1> QED
  BY <1>2, <1>3

\* What is around all blocks is live.
OutermostLive ==
  /\ conditionalsStack = <<>> => isEnabled
  /\ conditionalsStack # <<>> => conditionalsStack[1].enabled

\* The changes that the directives make to the stack and the flag.
Opened == \E type \in {"IFDEF", "IFNDEF"} :
            /\ Push(type, isEnabled)
            /\ isEnabled' \in BOOLEAN /\ (isEnabled' => isEnabled)

Turned == /\ ~ElseMisplaced
          /\ isEnabled' = ElseEnabled
          /\ Push("ELSE", isEnabled')

Ended == /\ conditionalsStack # <<>>
         /\ isEnabled' = Last(WithoutElse).enabled
         /\ conditionalsStack' = Front(WithoutElse)

LEMMA StackChanges ==
  ASSUME IInv, [Next]_vars
  PROVE  UNCHANGED condVars \/ Opened \/ Turned \/ Ended
<1>0. isEnabled \in BOOLEAN
  BY DEF IInv, TypeOK
<1>1. CASE Start \/ DecryptAtEndOfFile \/ EndOfFile \/ UNCHANGED vars
  BY <1>1 DEF Start, DecryptAtEndOfFile, EndOfFile, Return, KeepState, vars
<1>2. CASE ProcessDefine \/ ProcessUndefine \/ ProcessRedefine
           \/ ProcessReundefine
  BY <1>2 DEF ProcessDefine, ProcessUndefine, ProcessRedefine,
     ProcessReundefine, Definition
<1>3. ASSUME NEW type \in {"IFDEF", "IFNDEF"}, NEW holds \in BOOLEAN,
             Conditional(type, holds)
      PROVE  Opened
  <2>1. Push(type, isEnabled) /\ isEnabled' \in {Selected(holds), isEnabled}
    BY <1>3 DEF Conditional
  <2>2. isEnabled' \in BOOLEAN /\ (isEnabled' => isEnabled)
    BY <1>0, <2>1 DEF Selected
  <2> QED
    BY <2>1, <2>2 DEF Opened
<1>4. CASE ProcessIfdef \/ ProcessIfndef
  <2>1. IfdefHolds \in BOOLEAN
    BY DEF IfdefHolds, IInv, TypeOK, NameValue
  <2> QED
    BY <1>3, <1>4, <2>1 DEF ProcessIfdef, ProcessIfndef
<1>5. CASE ProcessElse
  BY <1>5 DEF ProcessElse, Turned
<1>6. CASE ProcessEndif
  BY <1>6 DEF ProcessEndif, Ended
<1>7. CASE CopyText \/ EchoDirective \/ ProcessPragma \/ IncludeDisabled
           \/ IncludeRejected \/ IncludeUnreadable \/ IncludeTvfFails
           \/ ProcessInclude \/ ConvertInclude \/ ProcessDecrypt
           \/ SkipCrypted
  BY <1>7 DEF CopyText, EchoDirective, ProcessPragma, Copies, IncludeDisabled,
     IncludeRejected, IncludeUnreadable, IncludeTvfFails, ProcessInclude,
     ConvertInclude, ProcessDecrypt, SkipCrypted, IncludeFrame, Accepts,
     KeepState
<1> QED
  BY <1>1, <1>2, <1>4, <1>5, <1>6, <1>7 DEF Next, Step, Halted

LEMMA SameBlocks ==
  ASSUME UNCHANGED condVars
  PROVE  StackBlocks' = StackBlocks
BY DEF condVars, StackBlocks, BlocksOf, BlockStart, BlockStarts, StartsTo

\* A stack with an entry on top.
LEMMA OnTop ==
  ASSUME NEW s \in Seq(Entry), s # <<>>
  PROVE  /\ Front(s) \in Seq(Entry) /\ Last(s) \in Entry
         /\ s = Append(Front(s), Last(s))
         /\ Len(s) \in Nat \ {0} /\ Last(s) = s[Len(s)]
         /\ (Front(s) = <<>>) <=> (Len(s) = 1)
         /\ \A i \in 1..(Len(s) - 1) : Front(s)[i] = s[i]
         /\ Front(s) # <<>> => /\ Len(s) - 1 \in Nat \ {0}
                               /\ Last(Front(s)) = s[Len(s) - 1]
                               /\ Front(s)[1] = s[1]
<1> DEFINE f == Front(s)
           n == Len(s)
<1>1. /\ f \in Seq(Entry) /\ Len(f) = n - 1
      /\ \A i \in 1..(n - 1) : f[i] = s[i]
  BY Pop
<1>2. Last(s) \in Entry /\ n \in Nat \ {0} /\ Last(s) = s[n]
  BY TopOf
<1>3. s = Append(f, Last(s))
  <2> DEFINE e == Last(s)
  <2> HIDE DEF e, f
  <2> QED
    BY <1>1, <1>2 DEF e
<1> HIDE DEF f
<1>4. (f = <<>>) <=> (n = 1)
  BY <1>1, <1>2
<1>5. ASSUME f # <<>>
      PROVE  n - 1 \in Nat \ {0} /\ Last(f) = s[n - 1] /\ f[1] = s[1]
  BY <1>1, <1>2, <1>4, <1>5 DEF Last
<1> QED
  BY <1>1, <1>2, <1>3, <1>4, <1>5 DEF f

LEMMA EntryOf ==
  ASSUME NEW e \in Entry
  PROVE  e = [type |-> e.type, enabled |-> e.enabled] /\ e.enabled \in BOOLEAN
BY DEF Entry

LEMMA BlocksStep ==
  ASSUME IInv, OutermostLive, [Next]_vars
  PROVE  OutermostLive' /\ [Blocks!Next]_StackBlocks
<1> DEFINE s == conditionalsStack
           f == isEnabled
<1>1. /\ s \in Seq(Entry) /\ f \in BOOLEAN
      /\ \A i \in 1..Len(s) : s[i].type = "ELSE" =>
           i > 1 /\ s[i - 1].type # "ELSE"
      /\ DOMAIN s = 1..Len(s)
  <2>1. /\ s \in Seq(Entry) /\ f \in BOOLEAN
    BY DEF IInv, TypeOK, Entry
  <2>2. DOMAIN s = 1..Len(s)
    BY <2>1
  <2> QED
    BY <2>1, <2>2 DEF IInv, SkippedStaysSkipped
<1>2. CASE UNCHANGED condVars
  BY <1>2, SameBlocks DEF condVars, OutermostLive
<1>3. s # <<>> => s[1].type # "ELSE"
  BY <1>1
<1>4. Blocks!Live(StackBlocks) = f /\ ((StackBlocks = <<>>) <=> (s = <<>>))
  BY <1>1, <1>3, InnermostLive DEF StackBlocks, OutermostLive
<1>5. CASE Opened
  <2>1. PICK type \in {"IFDEF", "IFNDEF"} :
          /\ s' = Append(s, [type |-> type, enabled |-> f])
          /\ f' \in BOOLEAN /\ (f' => f)
    BY <1>5 DEF Opened, Push
  <2>2. BlocksOf(s', f') = Append(BlocksOf(s, f), [live |-> f', inElse |-> FALSE])
    BY <1>1, <2>1, OpenedBlock
  <2>3. f' = (f /\ f')
    BY <1>1, <2>1
  <2>4. Blocks!OpenBlock(f')
    BY <1>4, <2>2, <2>3 DEF Blocks!OpenBlock, StackBlocks
  <2>5. OutermostLive'
    <3> DEFINE e == [type |-> type, enabled |-> f]
    <3>1. e.enabled = f /\ e \in Entry
      BY <1>1 DEF Entry
    <3> HIDE DEF e
    <3>2. s' # <<>> /\ s'[1] = IF s = <<>> THEN e ELSE s[1]
      BY <1>1, <2>1, <3>1 DEF e
    <3> QED
      BY <3>1, <3>2 DEF OutermostLive
  <2> QED
    BY <2>1, <2>4, <2>5 DEF Blocks!Next
<1>6. ASSUME s # <<>>, Last(s).type # "ELSE"
      PROVE  /\ Front(s) \in Seq(Entry)
             /\ Last(s).type \in {"IFDEF", "IFNDEF"}
             /\ Last(s).enabled \in BOOLEAN
             /\ s = Append(Front(s), [type |-> Last(s).type,
                                      enabled |-> Last(s).enabled])
             /\ BlocksOf(s, f) = Append(BlocksOf(Front(s), Last(s).enabled),
                                        [live |-> f, inElse |-> FALSE])
  <2>1. /\ Front(s) \in Seq(Entry) /\ Last(s) \in Entry
        /\ s = Append(Front(s), Last(s))
    BY <1>1, <1>6, OnTop
  <2>2. Last(s) = [type |-> Last(s).type, enabled |-> Last(s).enabled]
        /\ Last(s).enabled \in BOOLEAN
    BY <2>1, EntryOf
  <2>3. Last(s).type \in {"IFDEF", "IFNDEF"}
    BY <1>6, <2>1 DEF Entry
  <2>4. s = Append(Front(s), [type |-> Last(s).type,
                              enabled |-> Last(s).enabled])
    BY <2>1, <2>2
  <2>5. BlocksOf(Append(Front(s), [type |-> Last(s).type,
                                   enabled |-> Last(s).enabled]), f) =
          Append(BlocksOf(Front(s), Last(s).enabled),
                 [live |-> f, inElse |-> FALSE])
    BY <1>1, <2>1, <2>2, <2>3, OpenedBlock
  <2> QED
    BY <2>1, <2>2, <2>3, <2>4, <2>5
\* The blocks around the innermost one.
<1>7. ASSUME s # <<>>, Last(s).type # "ELSE"
      PROVE  Blocks!Live(BlocksOf(Front(s), Last(s).enabled)) = Last(s).enabled
  <2>1. /\ Front(s) = <<>> => Last(s).enabled
        /\ Front(s) # <<>> => Front(s)[1].type # "ELSE"
    BY <1>1, <1>3, <1>7, OnTop DEF OutermostLive
  <2> QED
    BY <1>6, <1>7, <2>1, InnermostLive
<1>8. CASE Turned
  <2>1. s # <<>> /\ Last(s).type # "ELSE"
    BY <1>8 DEF Turned, ElseMisplaced
  <2>2. /\ s' = Append(s, [type |-> "ELSE", enabled |-> f'])
        /\ f' = (f # Last(s).enabled)
    BY <1>8 DEF Turned, ElseEnabled, Push
  <2> DEFINE b == BlocksOf(Front(s), Last(s).enabled)
  <2>3. f' \in BOOLEAN /\ f' = (Last(s).enabled /\ ~f)
    <3>1. f => Last(s).enabled
      BY <1>1, <2>1, OnTop DEF IInv, SkippedStaysSkipped
    <3>2. Last(s).enabled \in BOOLEAN
      BY <1>6, <2>1
    <3> QED
      BY <1>1, <2>2, <3>1, <3>2
  <2>4. BlocksOf(s', f') = Append(b, [live |-> f', inElse |-> TRUE])
    <3> DEFINE t == Front(s)
               y == Last(s).type
               z == Last(s).enabled
    <3>1. /\ t \in Seq(Entry) /\ y \in {"IFDEF", "IFNDEF"} /\ z \in BOOLEAN
          /\ s = Append(t, [type |-> y, enabled |-> z])
      BY <1>6, <2>1
    <3>2. BlocksOf(Append(Append(t, [type |-> y, enabled |-> z]),
                          [type |-> "ELSE", enabled |-> f']), f') =
            Append(BlocksOf(t, z), [live |-> f', inElse |-> TRUE])
      BY <2>3, <3>1, ElseBlock
    <3> HIDE DEF t, y, z
    <3>3. s' = Append(Append(t, [type |-> y, enabled |-> z]),
                      [type |-> "ELSE", enabled |-> f'])
      BY <2>2, <3>1
    <3> QED
      BY <3>2, <3>3 DEF t, z
  <2>5. StackBlocks = Append(b, [live |-> f, inElse |-> FALSE])
    BY <1>6, <2>1 DEF StackBlocks
  <2>6. b \in Seq(Blocks!Block) /\ Blocks!Live(b) = Last(s).enabled
    BY <1>6, <1>7, <2>1, BlocksTyped
  <2> HIDE DEF b
  <2>7. Front(StackBlocks) = b /\ StackBlocks # <<>>
        /\ Last(StackBlocks) = [live |-> f, inElse |-> FALSE]
    BY <2>5, <2>6 DEF Front, Last
  <2>8. Blocks!OtherBranch
    <3>1. ~Last(StackBlocks).inElse
      BY <2>7
    <3>2. f' = (Blocks!Live(Front(StackBlocks)) /\ ~Last(StackBlocks).live)
      <4>1. (Last(StackBlocks).live = f) /\ f \in BOOLEAN
        BY <1>1, <2>7
      <4> QED
        BY <2>3, <2>6, <2>7, <4>1
    <3>3. StackBlocks' = Append(Front(StackBlocks),
                                [live |-> f', inElse |-> TRUE])
      BY <2>4, <2>7 DEF StackBlocks
    <3>4. Blocks!Front(StackBlocks) = Front(StackBlocks)
          /\ Blocks!Last(StackBlocks) = Last(StackBlocks)
      BY SameEnds
    <3>5. StackBlocks' = Append(Front(StackBlocks),
              [live   |-> Blocks!Live(Front(StackBlocks))
                          /\ ~Last(StackBlocks).live,
               inElse |-> TRUE])
      BY <3>2, <3>3, Zenon
    <3>6. StackBlocks # <<>>
      BY <2>7
    <3> QED
      BY <3>1, <3>4, <3>5, <3>6, Zenon DEF Blocks!OtherBranch
  <2>9. OutermostLive'
    <3> DEFINE e == [type |-> "ELSE", enabled |-> f']
    <3>1. e \in Entry
      BY <2>3 DEF Entry
    <3> HIDE DEF e
    <3>2. s' # <<>> /\ s'[1] = s[1]
      BY <1>1, <2>1, <2>2, <3>1 DEF e
    <3> QED
      BY <2>1, <3>2 DEF OutermostLive
  <2> QED
    BY <2>8, <2>9 DEF Blocks!Next
<1>9. CASE Ended /\ Last(s).type # "ELSE"
  <2>1. s # <<>> /\ f' = Last(s).enabled /\ s' = Front(s)
    BY <1>9 DEF Ended, WithoutElse
  <2> DEFINE b == BlocksOf(Front(s), Last(s).enabled)
  <2>2. StackBlocks = Append(b, [live |-> f, inElse |-> FALSE])
        /\ StackBlocks' = b
    BY <1>6, <1>9, <2>1 DEF StackBlocks
  <2>3. b \in Seq(Blocks!Block)
    BY <1>6, <1>9, <2>1, BlocksTyped
  <2> HIDE DEF b
  <2>4. Blocks!CloseBlock
    <3>1. Front(StackBlocks) = b /\ StackBlocks # <<>>
      BY <2>2, <2>3 DEF Front
    <3> QED
      BY <2>2, <3>1, SameEnds DEF Blocks!CloseBlock
  <2>5. OutermostLive'
    BY <1>1, <2>1, OnTop DEF OutermostLive
  <2> QED
    BY <2>4, <2>5 DEF Blocks!Next
<1>10. CASE Ended /\ Last(s).type = "ELSE"
  <2> DEFINE t == Front(s)
  <2>1. s # <<>> /\ f' = Last(t).enabled /\ s' = Front(t)
    BY <1>10 DEF Ended, WithoutElse
  <2>2. /\ t \in Seq(Entry) /\ Last(s) \in Entry /\ s = Append(t, Last(s))
        /\ t # <<>> /\ Last(t).type # "ELSE" /\ t[1] = s[1]
    <3>1. Len(s) > 1 /\ s[Len(s) - 1].type # "ELSE"
      BY <1>1, <1>10, <2>1, OnTop
    <3>2. t \in Seq(Entry) /\ Last(s) \in Entry /\ s = Append(t, Last(s))
      BY <1>1, <2>1, OnTop
    <3>3. t # <<>> /\ Last(t) = s[Len(s) - 1] /\ t[1] = s[1]
      BY <1>1, <2>1, <3>1, OnTop
    <3> HIDE DEF t
    <3> QED
      BY <3>1, <3>2, <3>3
  <2>3. /\ Front(t) \in Seq(Entry) /\ Last(t) \in Entry
        /\ t = Append(Front(t), Last(t))
    BY <2>2, OnTop
  <2> DEFINE b == BlocksOf(Front(t), Last(t).enabled)
  <2>4. StackBlocks = Append(b, [live |-> f, inElse |-> TRUE])
    <3>1. /\ Last(t) = [type |-> Last(t).type, enabled |-> Last(t).enabled]
          /\ Last(t).enabled \in BOOLEAN
      BY <2>3, EntryOf
    <3>2. /\ Last(s) = [type |-> "ELSE", enabled |-> Last(s).enabled]
          /\ Last(s).enabled \in BOOLEAN
      BY <1>10, <2>2, EntryOf
    <3>3. Last(t).type \in {"IFDEF", "IFNDEF"}
      BY <2>2, <2>3 DEF Entry
    <3> DEFINE u == Append(Front(t), [type |-> Last(t).type,
                                      enabled |-> Last(t).enabled])
    <3>4. BlocksOf(Append(u, [type |-> "ELSE", enabled |-> Last(s).enabled]), f)
            = Append(b, [live |-> f, inElse |-> TRUE])
      BY <1>1, <2>3, <3>1, <3>2, <3>3, ElseBlock
    <3>5. s = Append(u, [type |-> "ELSE", enabled |-> Last(s).enabled])
      BY <2>2, <2>3, <3>1, <3>2
    <3> QED
      BY <3>4, <3>5 DEF StackBlocks
  <2>5. StackBlocks' = b
    BY <2>1 DEF StackBlocks
  <2>6. b \in Seq(Blocks!Block)
    BY <2>3, BlocksTyped DEF Entry
  <2> HIDE DEF b
  <2>7. Blocks!CloseBlock
    <3>1. Front(StackBlocks) = b /\ StackBlocks # <<>>
      BY <2>4, <2>6 DEF Front
    <3> QED
      BY <2>5, <3>1, SameEnds DEF Blocks!CloseBlock
  <2>8. OutermostLive'
    BY <2>1, <2>2, OnTop DEF OutermostLive
  <2> QED
    BY <2>7, <2>8 DEF Blocks!Next
<1> QED
  BY <1>2, <1>5, <1>8, <1>9, <1>10, StackChanges

\* The flag that is saved and restored makes nested blocks with two branches.
THEOREM BlocksImplemented == Spec => ImplementsBlocks
<1>1. Init => OutermostLive /\ Blocks!Init
  <2> SUFFICES ASSUME Init PROVE OutermostLive /\ Blocks!Init
    OBVIOUS
  <2>1. conditionalsStack = <<>> /\ isEnabled = TRUE
    BY DEF Init
  <2>2. (StackBlocks = <<>>) <=> (conditionalsStack = <<>>)
    <3>1. conditionalsStack \in Seq(Entry)
      BY <2>1
    <3> QED
      BY <2>1, <3>1, InnermostLive DEF StackBlocks
  <2> QED
    BY <2>1, <2>2 DEF OutermostLive, Blocks!Init
<1>2. IInv /\ OutermostLive /\ [Next]_vars
        => OutermostLive' /\ [Blocks!Next]_StackBlocks
  BY BlocksStep
<1> QED
  BY <1>1, <1>2, InductiveInvariant, PTL
  DEF Spec, ImplementsBlocks, Blocks!Spec
-----------------------------------------------------------------------------
(***************************************************************************)
(* The order of the lines.  Every open file has its mark, the global       *)
(* number of the last line read of it: below the top that is the INCLUDE   *)
(* of the file above, whose first line, if one has been read, comes next   *)
(* and whose own mark is greater.  The marks are what makes IncludeInPlace *)
(* inductive: a file may have been included before, from the same line,    *)
(* and the rule file may include itself, so that neither the path nor the  *)
(* local number of a line says which reading of the file it belongs to.    *)
(***************************************************************************)
\* Line h is the last one read of the open file i, if any has been.
IsMark(h, i) ==
  frames[i].pos > 0 =>
    /\ h \in DOMAIN lineIndex
    /\ lineIndex[h] = [path |-> frames[i].path, local |-> frames[i].pos]

\* Line h includes the open file i, of which line g is the last one read.
IncludesFile(h, g, i) ==
  /\ frames[i - 1].pos > 0
  /\ LineAt(h).dir = "INCL"
  /\ LineAt(h).path = frames[i].path
  /\ frames[i].pos = 0 => h = Len(lineIndex)
  /\ frames[i].pos > 0 =>
       h < g /\ lineIndex[h + 1] = [path |-> frames[i].path, local |-> 1]

InOrder(mark) ==
  /\ \A i \in DOMAIN frames : IsMark(mark[i], i)
  /\ \A i \in 2..Len(frames) : IncludesFile(mark[i - 1], mark[i], i)
  /\ frames # <<>> /\ frames[Len(frames)].pos > 0 =>
       OnlyIncluded(mark[Len(frames)], Len(lineIndex))

PlaceInv == \E mark \in [1..Len(frames) -> 0..Len(lineIndex)] : InOrder(mark)

\* What every step does to the lines read: they stay, and so do the files.
Grown ==
  /\ UNCHANGED disk
  /\ Len(lineIndex) <= Len(lineIndex')
  /\ \A k \in 1..Len(lineIndex) : lineIndex'[k] = lineIndex[k]

LEMMA SameLine ==
  ASSUME Grown, NEW k \in 1..Len(lineIndex)
  PROVE  lineIndex'[k] = lineIndex[k] /\ LineAt(k)' = LineAt(k)
BY DEF Grown, LineAt, LinesOf

LEMMA SameIncluded ==
  ASSUME IInv, Grown, NEW h \in 1..Len(lineIndex), NEW m \in 1..Len(lineIndex),
         OnlyIncluded(h, m)
  PROVE  OnlyIncluded(h, m)'
<1> SUFFICES ASSUME h < m
             PROVE  OnlyIncluded(h, m)'
  BY DEF OnlyIncluded
<1>1. /\ LineAt(h)' = LineAt(h)
      /\ h + 1 \in 1..Len(lineIndex)
      /\ \A file : LinesOf(file)' = LinesOf(file)
  BY SameLine, LenProperties DEF Grown, LinesOf, IInv, TypeOK
<1>2. PICK j \in (h + 1)..m :
        lineIndex[j] = [path  |-> LineAt(h).path,
                        local |-> Len(LinesOf(LineAt(h).path))]
  BY DEF OnlyIncluded
<1>3. j \in 1..Len(lineIndex)
  BY <1>2, LenProperties DEF IInv, TypeOK
<1>4. LineAt(h).dir = "INCL"
      /\ lineIndex[h + 1] = [path |-> LineAt(h).path, local |-> 1]
  BY DEF OnlyIncluded
<1>5. lineIndex'[j] = lineIndex[j] /\ lineIndex'[h + 1] = lineIndex[h + 1]
  BY <1>1, <1>3 DEF Grown
<1> QED
  BY <1>1, <1>2, <1>4, <1>5 DEF OnlyIncluded

\* A step that counts a line adds the next line of the current file.
LEMMA CountedLine ==
  ASSUME IInv, status = "running", ~AtEnd, CountLine, UNCHANGED disk,
         NEW m, m = Len(lineIndex)
  PROVE  /\ m \in Nat
         /\ DOMAIN lineIndex = 1..m
         /\ DOMAIN lineIndex' = 1..(m + 1)
         /\ Len(lineIndex') = m + 1
         /\ Grown
         /\ lineIndex'[m + 1] = [path  |-> Current.path,
                                 local |-> Current.pos + 1]
         /\ LineAt(m + 1)' = CurrentLine
<1> DEFINE e == [path |-> Current.path, local |-> Current.pos + 1]
<1>1. e \in [path : Paths, local : Nat]
  BY CurrentTyped DEF Frame
<1>2. lineIndex \in Seq([path : Paths, local : Nat])
      /\ lineIndex' = Append(lineIndex, e)
  BY DEF IInv, TypeOK, CountLine
<1>3. e.path = Current.path /\ e.local = Current.pos + 1
  OBVIOUS
<1> HIDE DEF e
<1>4. /\ lineIndex' \in Seq([path : Paths, local : Nat])
      /\ Len(lineIndex') = m + 1
      /\ lineIndex'[m + 1] = e
      /\ \A k \in 1..m : lineIndex'[k] = lineIndex[k]
  BY <1>1, <1>2, PushOn
<1>5. /\ m \in Nat /\ DOMAIN lineIndex = 1..m
      /\ DOMAIN lineIndex' = 1..(m + 1)
  BY <1>2, <1>4, LenProperties
<1>6. Grown
  BY <1>4, <1>5 DEF Grown
<1>7. LineAt(m + 1)' = CurrentLine
  BY <1>3, <1>4 DEF LineAt, LinesOf, CurrentLine
<1> QED
  BY <1>4, <1>5, <1>6, <1>7 DEF e

LEMMA OneBefore ==
  ASSUME NEW r \in [path : Paths, local : Nat], r.local > 1
  PROVE  [r EXCEPT !.local = @ - 1] = [path |-> r.path, local |-> r.local - 1]
OBVIOUS

LEMMA CountedInPlace ==
  ASSUME IInv, PlaceInv, IncludeInPlace,
         status = "running", ~AtEnd, CountLine, UNCHANGED disk
  PROVE  IncludeInPlace'
<1>0. PICK m, n : m = Len(lineIndex) /\ n = Len(frames)
  OBVIOUS
<1>1. /\ m \in Nat
      /\ DOMAIN lineIndex = 1..m
      /\ DOMAIN lineIndex' = 1..(m + 1)
      /\ Len(lineIndex') = m + 1
      /\ Grown
      /\ lineIndex'[m + 1] = [path  |-> Current.path,
                              local |-> Current.pos + 1]
  BY <1>0, CountedLine
<1>2. /\ Current \in Frame /\ Current = frames[n] /\ n \in Nat \ {0}
      /\ frames # <<>> /\ n \in DOMAIN frames
  BY <1>0, CurrentTyped, LenProperties DEF IInv, TypeOK, FramesOK
<1>3. lineIndex \in Seq([path : Paths, local : Nat])
  BY DEF IInv, TypeOK
<1> SUFFICES ASSUME NEW g \in DOMAIN lineIndex', lineIndex'[g].local > 1
             PROVE  \E h \in 1..(g - 1) :
                      /\ lineIndex'[h] = [lineIndex'[g] EXCEPT !.local = @ - 1]
                      /\ OnlyIncluded(h, g - 1)'
  BY DEF IncludeInPlace
<1>4. CASE g \in 1..m
  <2>1. lineIndex'[g] = lineIndex[g]
    BY <1>0, <1>1, <1>4, SameLine
  <2>2. PICK h \in 1..(g - 1) :
          /\ lineIndex[h] = [lineIndex[g] EXCEPT !.local = @ - 1]
          /\ OnlyIncluded(h, g - 1)
    BY <1>1, <1>4, <2>1 DEF IncludeInPlace
  <2>3. h \in 1..m /\ g - 1 \in 1..m
    BY <1>1, <1>4, <2>2
  <2>4. lineIndex'[h] = lineIndex[h] /\ OnlyIncluded(h, g - 1)'
    BY <1>0, <1>1, <2>2, <2>3, SameLine, SameIncluded
  <2> QED
    BY <2>1, <2>2, <2>4
<1>5. CASE g = m + 1
  <2>1. Current.pos \in Nat /\ Current.pos > 0
    BY <1>1, <1>2, <1>5 DEF Frame
  <2>2. PICK mark \in [1..Len(frames) -> 0..Len(lineIndex)] : InOrder(mark)
    BY DEF PlaceInv
  <2>3. PICK h : h = mark[n] /\ IsMark(h, n) /\ OnlyIncluded(h, m)
    BY <1>0, <1>2, <2>1, <2>2 DEF InOrder
  <2>4. h \in 1..m
        /\ lineIndex[h] = [path |-> Current.path, local |-> Current.pos]
    BY <1>1, <1>2, <2>1, <2>3 DEF IsMark
  <2>5. lineIndex'[h] = lineIndex[h] /\ OnlyIncluded(h, m)'
    <3>1. m \in 1..Len(lineIndex) /\ h \in 1..Len(lineIndex)
      BY <1>0, <1>1, <2>4
    <3> QED
      BY <1>1, <2>3, <3>1, SameLine, SameIncluded
  <2>6. lineIndex'[h] = [lineIndex'[g] EXCEPT !.local = @ - 1]
    BY <1>1, <1>2, <1>5, <2>1, <2>4, <2>5
  <2>7. g - 1 = m /\ h \in 1..(g - 1)
    BY <1>1, <1>5, <2>4
  <2> QED
    BY <2>5, <2>6, <2>7
<1> QED
  BY <1>1, <1>4, <1>5

\* The marks after the top of the frames has read a line; a file opened on top
\* of it has no mark yet.
MarksAfter(mark, n, m, len) ==
  [i \in 1..len |-> IF i < n THEN mark[i] ELSE IF i = n THEN m + 1 ELSE 0]

\* A file that another one has been opened from has had a line read.
LEMMA ReadBelow ==
  ASSUME NEW mark, InOrder(mark), NEW i \in Nat, i + 1 \in 2..Len(frames)
  PROVE  frames[i].pos > 0
<1>1. (i + 1) - 1 = i
  OBVIOUS
<1>2. IncludesFile(mark[(i + 1) - 1], mark[i + 1], i + 1)
  BY DEF InOrder
<1> QED
  BY <1>1, <1>2 DEF IncludesFile

\* The step goes from these marks to a stack of len frames.
Moving(mark, n, m, len) ==
  /\ n = Len(frames) /\ m = Len(lineIndex)
  /\ mark \in [1..n -> 0..m] /\ InOrder(mark)
  /\ len \in Nat /\ len >= n /\ Len(frames') = len
  /\ \A i \in 1..(n - 1) : frames'[i] = frames[i]
  /\ frames'[n].path = Current.path
  /\ frames'[n].pos = Current.pos + 1

LEMMA MarksMoved ==
  ASSUME IInv, status = "running", ~AtEnd, CountLine, UNCHANGED disk,
         NEW mark, NEW n, NEW m, NEW len, Moving(mark, n, m, len),
         NEW next, next = MarksAfter(mark, n, m, len)
  PROVE  /\ next \in [1..len -> 0..(m + 1)]
         /\ next[n] = m + 1
         /\ \A i \in 1..n : IsMark(next[i], i)'
         /\ \A i \in 2..n : IncludesFile(next[i - 1], next[i], i)'
<1>0. /\ n = Len(frames) /\ m = Len(lineIndex)
      /\ mark \in [1..n -> 0..m] /\ InOrder(mark)
      /\ len \in Nat /\ len >= n /\ Len(frames') = len
      /\ \A i \in 1..(n - 1) : frames'[i] = frames[i]
      /\ frames'[n].path = Current.path
      /\ frames'[n].pos = Current.pos + 1
  BY DEF Moving
<1>1. /\ m \in Nat
      /\ DOMAIN lineIndex = 1..m
      /\ DOMAIN lineIndex' = 1..(m + 1)
      /\ Len(lineIndex') = m + 1
      /\ Grown
      /\ lineIndex'[m + 1] = [path  |-> Current.path,
                              local |-> Current.pos + 1]
  BY <1>0, CountedLine
<1>2. /\ Current \in Frame /\ Current = frames[n] /\ n \in Nat \ {0}
      /\ DOMAIN frames = 1..n /\ frames \in Seq(Frame)
  BY <1>0, CurrentTyped, LenProperties DEF IInv, TypeOK, FramesOK
<1>3. \A i \in 1..len : i \in 1..n => mark[i] \in 0..(m + 1)
  <2>1. mark \in [1..n -> 0..m] /\ m \in Nat
    BY <1>0, <1>1
  <2> QED
    BY <2>1
<1>4. /\ next \in [1..len -> 0..(m + 1)]
      /\ next[n] = m + 1
      /\ \A i \in 1..(n - 1) : next[i] = mark[i]
  BY <1>0, <1>1, <1>2, <1>3 DEF MarksAfter
<1>5. ASSUME NEW i \in 1..(n - 1)
      PROVE  i \in DOMAIN frames /\ i \in 1..n /\ i # n
             /\ frames'[i] = frames[i] /\ next[i] = mark[i]
  BY <1>0, <1>2, <1>4
<1>6. ASSUME NEW i \in 1..n
      PROVE  IsMark(next[i], i)'
  <2>1. CASE i = n
    BY <1>0, <1>1, <1>4, <2>1 DEF IsMark
  <2>2. CASE i # n
    <3>1. i \in 1..(n - 1)
      BY <1>0, <1>2, <2>2
    <3>2. IsMark(mark[i], i)
      BY <1>0, <1>5, <3>1 DEF InOrder
    <3>3. PICK h : h = mark[i]
      OBVIOUS
    <3>4. frames[i].pos > 0 =>
            /\ h \in 1..m
            /\ lineIndex[h] = [path |-> frames[i].path, local |-> frames[i].pos]
      BY <1>0, <1>1, <3>2, <3>3 DEF IsMark
    <3>5. h \in 1..m => h \in DOMAIN lineIndex' /\ lineIndex'[h] = lineIndex[h]
      BY <1>0, <1>1, SameLine
    <3>6. IsMark(h, i)'
      BY <1>0, <1>5, <3>1, <3>4, <3>5 DEF IsMark
    <3> QED
      BY <1>0, <1>5, <3>1, <3>3, <3>6
  <2> QED
    BY <1>0, <2>1, <2>2
<1>7. ASSUME NEW i \in 2..n
      PROVE  IncludesFile(next[i - 1], next[i], i)'
  <2>1. i - 1 \in 1..(n - 1) /\ i \in 1..n /\ i \in DOMAIN frames
        /\ i - 1 \in DOMAIN frames /\ i \in 2..Len(frames)
    BY <1>0, <1>2
  <2>2. PICK h, g : h = mark[i - 1] /\ g = mark[i]
    OBVIOUS
  <2>3. /\ IncludesFile(h, g, i)
        /\ IsMark(h, i - 1)
        /\ IsMark(g, i)
    BY <1>0, <2>1, <2>2 DEF InOrder
  <2>4. /\ frames[i - 1].pos > 0
        /\ h \in 1..m
        /\ LineAt(h)' = LineAt(h)
    BY <1>0, <1>1, <2>3, SameLine DEF IncludesFile, IsMark
  <2>5. /\ frames'[i - 1] = frames[i - 1]
        /\ next[i - 1] = h
        /\ frames'[i].path = frames[i].path
        /\ frames'[i].pos > 0
    <3>1. frames'[i - 1] = frames[i - 1] /\ next[i - 1] = h
      BY <1>0, <1>5, <2>1, <2>2
    <3>2. CASE i = n
      BY <1>0, <1>2, <3>1, <3>2 DEF Frame
    <3>3. CASE i # n
      <4>1. i \in 1..(n - 1) /\ i + 1 \in 2..Len(frames)
        BY <1>0, <1>2, <2>1, <3>3
      <4>2. frames[i].pos > 0
        BY <1>0, <4>1, ReadBelow
      <4> QED
        BY <1>0, <1>5, <3>1, <4>1, <4>2
    <3> QED
      BY <1>0, <3>2, <3>3
  <2>6. h < next[i]
        /\ lineIndex'[h + 1] = [path |-> frames[i].path, local |-> 1]
    <3>1. CASE frames[i].pos > 0
      <4>1. h < g /\ lineIndex[h + 1] = [path |-> frames[i].path, local |-> 1]
            /\ g \in 1..m
        BY <1>0, <1>1, <2>3, <3>1 DEF IncludesFile, IsMark
      <4>2. h + 1 \in 1..Len(lineIndex)
        BY <1>0, <1>1, <2>4, <4>1
      <4>3. next[i] = g \/ next[i] = m + 1
        <5>1. i = n \/ i \in 1..(n - 1)
          BY <1>0, <1>2, <2>1
        <5> QED
          BY <1>0, <1>4, <1>5, <2>2, <5>1
      <4> QED
        BY <1>0, <1>1, <2>4, <4>1, <4>2, <4>3, SameLine
    <3>2. CASE ~(frames[i].pos > 0)
      <4>1. frames[i].pos = 0
        <5>1. frames[i] \in Frame
          BY <1>0, <1>2, <2>1
        <5> QED
          BY <1>0, <3>2, <5>1 DEF Frame
      <4>2. i = n
        <5> SUFFICES ASSUME i # n
                     PROVE  FALSE
          OBVIOUS
        <5>1. i + 1 \in 2..Len(frames)
          BY <1>0, <1>2, <2>1
        <5> QED
          BY <1>0, <3>2, <5>1, ReadBelow
      <4>3. h = m
        BY <1>0, <2>3, <4>1 DEF IncludesFile
      <4> QED
        BY <1>0, <1>1, <1>2, <1>4, <4>1, <4>2, <4>3
    <3> QED
      BY <1>0, <3>1, <3>2
  <2>7. LineAt(h).dir = "INCL" /\ LineAt(h).path = frames[i].path
    BY <1>0, <2>3 DEF IncludesFile
  <2>8. PICK g2 : g2 = next[i]
    OBVIOUS
  <2>9. IncludesFile(h, g2, i)'
    BY <1>0, <2>4, <2>5, <2>6, <2>7, <2>8 DEF IncludesFile
  <2> QED
    BY <1>0, <2>5, <2>8, <2>9
<1> QED
  BY <1>0, <1>4, <1>6, <1>7

LEMMA SameIndex ==
  ASSUME UNCHANGED disk, UNCHANGED lineIndex, IncludeInPlace
  PROVE  IncludeInPlace'
<1>1. ASSUME NEW h, NEW m, OnlyIncluded(h, m)
      PROVE  OnlyIncluded(h, m)'
  BY <1>1 DEF OnlyIncluded, LineAt, LinesOf
<1> QED
  BY <1>1 DEF IncludeInPlace

LEMMA NextInPlace ==
  ASSUME IInv, PlaceInv, IncludeInPlace, [Next]_vars
  PROVE  PlaceInv' /\ IncludeInPlace'
<1>1. UNCHANGED disk
  BY DiskFixed
<1>2. CASE ReadsLine
  <2>1. PICK crypt \in BOOLEAN :
          frames' = [frames EXCEPT ![Len(frames)] = AdvancedFrame(crypt)]
    BY <1>2, ReadsOneLine
  <2>2. status = "running" /\ ~AtEnd /\ CountLine
    BY <1>2, ReadsOneLine
  <2>3. IncludeInPlace'
    BY <1>1, <2>2, CountedInPlace
  <2>4. PICK n, m : n = Len(frames) /\ m = Len(lineIndex)
    OBVIOUS
  <2>5. /\ frames' \in Seq(Frame)
        /\ Len(frames') = n
        /\ frames'[n] = AdvancedFrame(crypt)
        /\ \A i \in 1..(n - 1) : frames'[i] = frames[i]
        /\ n \in Nat \ {0}
        /\ AdvancedFrame(crypt).path = Current.path
        /\ AdvancedFrame(crypt).pos = Current.pos + 1
    BY <2>1, <2>2, <2>4, AdvanceTyped, CurrentTyped DEF AdvancedFrame
  <2>6. PICK mark \in [1..n -> 0..m] : InOrder(mark)
    BY <2>4 DEF PlaceInv
  <2>7. PICK next : next = MarksAfter(mark, n, m, n)
    OBVIOUS
  <2>8. /\ next \in [1..n -> 0..(m + 1)]
        /\ next[n] = m + 1
        /\ \A i \in 1..n : IsMark(next[i], i)'
        /\ \A i \in 2..n : IncludesFile(next[i - 1], next[i], i)'
    <3>1. Moving(mark, n, m, n)
      BY SMTT(30), <2>4, <2>5, <2>6 DEF Moving
    <3> QED
      BY <1>1, <2>2, <2>7, <3>1, MarksMoved
  <2>9. Len(lineIndex') = m + 1 /\ m \in Nat
    BY <1>1, <2>2, <2>4, CountedLine
  <2>10. OnlyIncluded(next[n], Len(lineIndex))'
    BY <2>4, <2>8, <2>9 DEF OnlyIncluded
  <2>11. InOrder(next)'
    <3>1. DOMAIN frames' = 1..n
      BY <2>5, LenProperties
    <3> QED
      BY <2>5, <2>8, <2>10, <3>1 DEF InOrder
  <2> QED
    BY <2>3, <2>5, <2>8, <2>9, <2>11 DEF PlaceInv
<1>3. CASE ProcessInclude
  <2>1. /\ status = "running" /\ ~AtEnd /\ CountLine
        /\ CurrentLine.dir = "INCL" /\ Included \in Paths
        /\ frames' = Append([frames EXCEPT ![Len(frames)] =
                               AdvancedFrame(FALSE)],
                            OpenFrame(Included))
    BY <1>3, IncludeFrameTyped DEF ProcessInclude, Accepts, IncludeFrame, Reads
  <2>2. IncludeInPlace'
    BY <1>1, <2>1, CountedInPlace
  <2>3. PICK n, m : n = Len(frames) /\ m = Len(lineIndex)
    OBVIOUS
  <2>4. PICK fs : fs = [frames EXCEPT ![Len(frames)] = AdvancedFrame(FALSE)]
    OBVIOUS
  <2>5. /\ fs \in Seq(Frame)
        /\ Len(fs) = n
        /\ fs[n] = AdvancedFrame(FALSE)
        /\ \A i \in 1..(n - 1) : fs[i] = frames[i]
        /\ n \in Nat \ {0}
        /\ AdvancedFrame(FALSE).path = Current.path
        /\ AdvancedFrame(FALSE).pos = Current.pos + 1
    BY <2>1, <2>3, <2>4, AdvanceTyped, CurrentTyped DEF AdvancedFrame
  <2>6. /\ OpenFrame(Included) \in Frame
        /\ OpenFrame(Included).path = Included
        /\ OpenFrame(Included).pos = 0
    BY <2>1 DEF OpenFrame, Frame
  <2>7. /\ frames' \in Seq(Frame)
        /\ Len(frames') = n + 1
        /\ frames'[n + 1] = OpenFrame(Included)
        /\ \A i \in 1..n : frames'[i] = fs[i]
    <3>1. frames' = Append(fs, OpenFrame(Included))
      BY <2>1, <2>4
    <3> QED
      BY <2>5, <2>6, <3>1, PushOn
  <2>8. /\ frames'[n].path = Current.path
        /\ frames'[n].pos = Current.pos + 1
        /\ \A i \in 1..(n - 1) : frames'[i] = frames[i]
    <3>1. n \in 1..n /\ \A i \in 1..(n - 1) : i \in 1..n
      BY <2>5
    <3> QED
      BY <2>5, <2>7, <3>1
  <2>9. PICK mark \in [1..n -> 0..m] : InOrder(mark)
    BY <2>3 DEF PlaceInv
  <2>10. PICK next : next = MarksAfter(mark, n, m, n + 1)
    OBVIOUS
  <2>11. /\ next \in [1..(n + 1) -> 0..(m + 1)]
         /\ next[n] = m + 1
         /\ \A i \in 1..n : IsMark(next[i], i)'
         /\ \A i \in 2..n : IncludesFile(next[i - 1], next[i], i)'
    <3>1. n + 1 \in Nat /\ n + 1 >= n
      BY <2>5
    <3> QED
      <4>1. Moving(mark, n, m, n + 1)
        BY <2>3, <2>7, <2>8, <2>9, <3>1 DEF Moving
      <4> QED
        BY <1>1, <2>1, <2>10, <4>1, MarksMoved
  <2>12. /\ Len(lineIndex') = m + 1 /\ m \in Nat
         /\ LineAt(m + 1)' = CurrentLine
    BY <1>1, <2>1, <2>3, CountedLine
  <2>13. IsMark(next[n + 1], n + 1)'
    BY <2>6, <2>7 DEF IsMark
  <2>14. IncludesFile(next[n], next[n + 1], n + 1)'
    <3>1. (n + 1) - 1 = n /\ Current.pos + 1 > 0
      BY <2>1, <2>5, CurrentTyped DEF Frame
    <3>2. PICK k : k = m + 1
      OBVIOUS
    <3>3. LineAt(k)'.dir = "INCL" /\ LineAt(k)'.path = Included
      BY <2>1, <2>12, <3>2 DEF Included
    <3>4. PICK g : g = next[n + 1]
      OBVIOUS
    <3>5. IncludesFile(k, g, n + 1)'
      BY <2>6, <2>7, <2>8, <2>12, <3>1, <3>2, <3>3 DEF IncludesFile
    <3> QED
      BY <2>11, <3>2, <3>4, <3>5
  <2>15. InOrder(next)'
    <3>1. DOMAIN frames' = 1..(n + 1)
      BY <2>7, LenProperties
    <3>2. ASSUME NEW i \in 1..(n + 1)
          PROVE  IsMark(next[i], i)'
      <4>1. i \in 1..n \/ i = n + 1
        BY <2>5
      <4> QED
        BY <2>11, <2>13, <4>1
    <3>3. ASSUME NEW i \in 2..(n + 1)
          PROVE  IncludesFile(next[i - 1], next[i], i)'
      <4>1. i \in 2..n \/ (i = n + 1 /\ i - 1 = n)
        BY <2>5
      <4> QED
        BY <2>11, <2>14, <4>1
    <3> QED
      BY <2>6, <2>7, <3>1, <3>2, <3>3 DEF InOrder
  <2> QED
    BY <2>2, <2>7, <2>11, <2>12, <2>15 DEF PlaceInv
<1>4. CASE EndOfFile
  <2>1. /\ status = "running" /\ AtEnd
        /\ frames' = Front(frames)
        /\ lineIndex' = lineIndex
    BY <1>4 DEF EndOfFile, ExhaustsFile, Return
  <2>2. PICK n, m : n = Len(frames) /\ m = Len(lineIndex)
    OBVIOUS
  <2>3. /\ Current \in Frame /\ Current = frames[n]
        /\ n \in Nat \ {0} /\ m \in Nat
        /\ frames \in Seq(Frame) /\ frames # <<>>
        /\ DOMAIN frames = 1..n /\ DOMAIN lineIndex = 1..m
    BY <2>1, <2>2, CurrentTyped, LenProperties DEF IInv, TypeOK, FramesOK
  <2>4. /\ frames' \in Seq(Frame)
        /\ Len(frames') = n - 1
        /\ DOMAIN frames' = 1..(n - 1)
        /\ \A i \in 1..(n - 1) : frames'[i] = frames[i]
    BY <2>1, <2>2, <2>3, Pop, LenProperties
  <2>5. PICK mark \in [1..n -> 0..m] : InOrder(mark)
    BY <2>2 DEF PlaceInv
  <2>6. PICK next : next = [i \in 1..(n - 1) |-> mark[i]]
    OBVIOUS
  <2>7. /\ next \in [1..(n - 1) -> 0..m]
        /\ \A i \in 1..(n - 1) : next[i] = mark[i]
    BY <2>3, <2>5, <2>6
  <2>8. ASSUME NEW i \in 1..(n - 1)
        PROVE  IsMark(next[i], i)'
    <3>1. IsMark(mark[i], i) /\ frames'[i] = frames[i] /\ next[i] = mark[i]
      <4>1. i \in DOMAIN frames
        BY <2>3
      <4>2. IsMark(mark[i], i)
        BY <2>5, <4>1 DEF InOrder
      <4> QED
        BY <2>4, <2>7, <4>2
    <3> QED
      BY <2>1, <3>1 DEF IsMark
  <2>9. ASSUME NEW i \in 2..(n - 1)
        PROVE  IncludesFile(next[i - 1], next[i], i)'
    <3>1. i - 1 \in 1..(n - 1) /\ i \in 1..(n - 1) /\ i \in 2..Len(frames)
      BY <2>2, <2>3
    <3>2. /\ IncludesFile(mark[i - 1], mark[i], i)
          /\ frames'[i] = frames[i] /\ next[i] = mark[i]
          /\ frames'[i - 1] = frames[i - 1] /\ next[i - 1] = mark[i - 1]
      BY <2>4, <2>5, <2>7, <3>1 DEF InOrder
    <3> QED
      BY <1>1, <2>1, <3>2 DEF IncludesFile, LineAt, LinesOf
  <2>10. ASSUME n - 1 > 0
         PROVE  OnlyIncluded(next[n - 1], Len(lineIndex))'
    <3>1. n \in 2..Len(frames) /\ n \in DOMAIN frames /\ n - 1 \in 1..(n - 1)
          /\ n - 1 \in DOMAIN frames
      BY <2>2, <2>3, <2>10
    <3>2. PICK h, g : h = mark[n - 1] /\ g = mark[n]
      OBVIOUS
    <3>3. /\ IncludesFile(h, g, n)
          /\ IsMark(h, n - 1)
          /\ IsMark(g, n)
      BY <2>5, <3>1, <3>2 DEF InOrder
    <3>4. OnlyIncluded(h, m)
      <4>1. CASE frames[n].pos = 0
        <5>1. h = m
          BY <2>2, <3>3, <4>1 DEF IncludesFile
        <5> QED
          BY <2>3, <5>1 DEF OnlyIncluded
      <4>2. CASE frames[n].pos # 0
        <5>1. frames[n].pos > 0
              /\ frames[n].pos = Len(LinesOf(frames[n].path))
          BY <2>1, <2>3, <4>2 DEF AtEnd, Frame
        <5>2. /\ h < g /\ g \in 1..m
              /\ lineIndex[h + 1] = [path |-> frames[n].path, local |-> 1]
              /\ lineIndex[g] = [path  |-> frames[n].path,
                                 local |-> Len(LinesOf(frames[n].path))]
              /\ LineAt(h).dir = "INCL" /\ LineAt(h).path = frames[n].path
          BY <2>3, <3>3, <5>1 DEF IncludesFile, IsMark
        <5>3. h \in 1..m
          BY <2>3, <3>1, <3>3 DEF IsMark, IncludesFile
        <5>4. g \in (h + 1)..m
          BY <2>3, <5>2, <5>3
        <5> QED
          BY <5>2, <5>4 DEF OnlyIncluded
      <4> QED
        BY <4>1, <4>2
    <3>5. next[n - 1] = h
      BY <2>7, <3>1, <3>2
    <3>6. OnlyIncluded(h, m)'
      BY <1>1, <2>1, <3>4 DEF OnlyIncluded, LineAt, LinesOf
    <3> QED
      BY <2>1, <2>2, <3>5, <3>6
  <2>11. InOrder(next)'
    <3>1. frames' # <<>> => n - 1 > 0
      BY <2>3, <2>4
    <3> QED
      BY <2>4, <2>8, <2>9, <2>10, <3>1 DEF InOrder
  <2>12. PlaceInv'
    BY <2>1, <2>2, <2>4, <2>7, <2>11 DEF PlaceInv
  <2>13. IncludeInPlace'
    BY <1>1, <2>1, SameIndex
  <2> QED
    BY <2>12, <2>13
<1>5. ASSUME lineIndex' = lineIndex, Len(frames') = Len(frames),
             DOMAIN frames' = DOMAIN frames, Len(frames) \in Nat,
             DOMAIN frames = 1..Len(frames),
             (frames' = <<>>) = (frames = <<>>),
             \A i \in 1..Len(frames) : /\ frames'[i].path = frames[i].path
                                       /\ frames'[i].pos = frames[i].pos
      PROVE  PlaceInv' /\ IncludeInPlace'
  <2>1. IncludeInPlace'
    BY <1>1, <1>5, SameIndex
  <2>2. PICK mark \in [1..Len(frames) -> 0..Len(lineIndex)] : InOrder(mark)
    BY DEF PlaceInv
  <2>3. PICK n : n = Len(frames)
    OBVIOUS
  <2>4. ASSUME NEW i \in 1..n
        PROVE  IsMark(mark[i], i)'
    <3>1. IsMark(mark[i], i)
      BY <1>5, <2>2, <2>3 DEF InOrder
    <3> QED
      BY <1>5, <2>3, <3>1 DEF IsMark
  <2>5. ASSUME NEW i \in 2..n
        PROVE  IncludesFile(mark[i - 1], mark[i], i)'
    <3>1. IncludesFile(mark[i - 1], mark[i], i)
          /\ i - 1 \in 1..n /\ i \in 1..n
      BY <1>5, <2>2, <2>3 DEF InOrder
    <3> QED
      BY <1>1, <1>5, <2>3, <3>1 DEF IncludesFile, LineAt, LinesOf
  <2>6. ASSUME frames' # <<>>, frames'[n].pos > 0
        PROVE  OnlyIncluded(mark[n], Len(lineIndex))'
    <3>1. n \in 1..n
      BY <1>5, <2>3, <2>6, EmptySeq
    <3>2. OnlyIncluded(mark[n], Len(lineIndex))
      BY <1>5, <2>2, <2>3, <2>6, <3>1 DEF InOrder
    <3> QED
      BY <1>1, <1>5, <3>2 DEF OnlyIncluded, LineAt, LinesOf
  <2>7. InOrder(mark)'
    BY <1>5, <2>3, <2>4, <2>5, <2>6 DEF InOrder
  <2> QED
    BY <1>5, <2>1, <2>2, <2>7 DEF PlaceInv
<1>6. CASE DecryptAtEndOfFile
  <2> DEFINE f == [path |-> Current.path, pos |-> Current.pos, crypt |-> FALSE]
  <2>1. /\ status = "running"
        /\ frames' = [frames EXCEPT ![Len(frames)] = f]
        /\ lineIndex' = lineIndex
    BY <1>6 DEF DecryptAtEndOfFile, InCrypt
  <2>2. /\ frames \in Seq(Frame) /\ frames # <<>>
        /\ f \in Frame
        /\ f.path = frames[Len(frames)].path /\ f.pos = frames[Len(frames)].pos
        /\ Len(frames) \in Nat
    BY <2>1, CurrentTyped DEF IInv, TypeOK, FramesOK, Frame
  <2> HIDE DEF f
  <2>3. /\ frames' \in Seq(Frame)
        /\ frames' # <<>>
        /\ Len(frames') = Len(frames)
        /\ frames'[Len(frames)] = f
        /\ \A i \in 1..(Len(frames) - 1) : frames'[i] = frames[i]
    BY <2>1, <2>2, ReplaceTop
  <2>4. \A i \in 1..Len(frames) : /\ frames'[i].path = frames[i].path
                                  /\ frames'[i].pos = frames[i].pos
    BY <2>2, <2>3
  <2> QED
    BY <1>5, <2>1, <2>2, <2>3, <2>4, LenProperties
<1>7. CASE UNCHANGED vars \/ Halted
  <2>1. UNCHANGED <<lineIndex, frames>>
    BY <1>7 DEF Halted, vars
  <2>2. Len(frames) \in Nat /\ DOMAIN frames = 1..Len(frames)
    BY LenProperties DEF IInv, TypeOK
  <2> QED
    BY <1>5, <2>1, <2>2
<1>8. CASE Start
  <2>1. /\ frames' = <<OpenFrame(Root)>>
        /\ lineIndex' = lineIndex
    BY <1>8 DEF Start
  <2>2. /\ Len(frames') = 1 /\ DOMAIN frames' = 1..1
        /\ frames'[1].pos = 0 /\ Len(lineIndex) \in Nat
    BY <2>1, LenProperties DEF OpenFrame, IInv, TypeOK
  <2>3. PICK mark : mark = [i \in 1..1 |-> 0]
    OBVIOUS
  <2>4. InOrder(mark)'
    BY <2>2 DEF InOrder, IsMark
  <2>5. PlaceInv'
    BY <2>1, <2>2, <2>3, <2>4 DEF PlaceInv
  <2> QED
    BY <1>1, <2>1, <2>5, SameIndex
<1> QED
  BY <1>2, <1>3, <1>4, <1>6, <1>7, <1>8 DEF Next, Step, ReadsLine

\* The lines of a file come in order, with all of an included file between the
\* INCLUDE and the line after it: the global line numbers the later stages
\* report are those of the rule deck as it is read.
THEOREM LinesInPlace == Spec => []IncludeInPlace
<1>1. Init => PlaceInv /\ IncludeInPlace
  <2> SUFFICES ASSUME Init
               PROVE  PlaceInv /\ IncludeInPlace
    OBVIOUS
  <2>1. frames = <<>> /\ lineIndex = <<>>
    BY DEF Init
  <2>2. PICK mark : mark = [i \in 1..0 |-> 0]
    OBVIOUS
  <2>3. InOrder(mark)
    BY <2>1 DEF InOrder
  <2>4. Len(frames) = 0 /\ mark \in [1..0 -> 0..Len(lineIndex)]
    BY <2>1, <2>2
  <2>5. PlaceInv
    BY <2>3, <2>4 DEF PlaceInv
  <2>6. DOMAIN lineIndex = {}
    BY <2>1
  <2> QED
    BY <2>5, <2>6 DEF IncludeInPlace
<1>2. IInv /\ (PlaceInv /\ IncludeInPlace) /\ [Next]_vars
      => (PlaceInv /\ IncludeInPlace)'
  BY NextInPlace
<1> QED
  BY <1>1, <1>2, InductiveInvariant, PTL DEF Spec

-----------------------------------------------------------------------------
(***************************************************************************)
(* EffectivePath.  First how the blocks around a line are counted: from    *)
(* one line to the next, for any verdicts.                                 *)
(***************************************************************************)
IfDirs == {"IFDEF", "IFNDEF"}

LEMMA CountTyped ==
  ASSUME NEW v, NEW lo \in Nat, NEW hi \in Nat, NEW dirs
  PROVE  Count(v, lo, hi, dirs) \in Nat
<1> DEFINE s == {k \in lo..hi : Plain(v, k, dirs)}
<1>1. IsFiniteSet(lo..hi) /\ s \subseteq lo..hi
  BY FS_Interval
<1>2. IsFiniteSet(s)
  BY <1>1, FS_Subset
<1> HIDE DEF s
<1>3. Cardinality(s) \in Nat
  BY <1>2, FS_CardinalityType
<1> QED
  BY <1>3 DEF Count, s

LEMMA CountNone ==
  ASSUME NEW v, NEW lo \in Nat, NEW hi \in Nat, hi < lo, NEW dirs
  PROVE  Count(v, lo, hi, dirs) = 0
<1>1. {k \in lo..hi : Plain(v, k, dirs)} = {}
  OBVIOUS
<1> QED
  BY <1>1, FS_EmptySet DEF Count

LEMMA CountNext ==
  ASSUME NEW v, NEW lo \in Nat, NEW hi \in Nat, lo <= hi, NEW dirs
  PROVE  Count(v, lo, hi, dirs) =
           IF Plain(v, hi, dirs) THEN Count(v, lo, hi - 1, dirs) + 1
                                 ELSE Count(v, lo, hi - 1, dirs)
<1> DEFINE s == {k \in lo..(hi - 1) : Plain(v, k, dirs)}
           t == {k \in lo..hi : Plain(v, k, dirs)}
<1>1. IsFiniteSet(s) /\ hi \notin s
  <2>1. IsFiniteSet(lo..(hi - 1)) /\ s \subseteq lo..(hi - 1)
    BY FS_Interval
  <2> QED
    BY <2>1, FS_Subset
<1>2. \A k : k \in lo..hi <=> k \in lo..(hi - 1) \/ k = hi
  OBVIOUS
<1>3. CASE Plain(v, hi, dirs)
  <2>1. t = s \cup {hi}
    BY <1>2, <1>3
  <2> HIDE DEF s, t
  <2>2. Cardinality(t) = Cardinality(s) + 1
    BY <1>1, <2>1, FS_AddElement
  <2> QED
    BY <1>3, <2>2 DEF Count, s, t
<1>4. CASE ~Plain(v, hi, dirs)
  <2>1. t = s
    BY <1>2, <1>4
  <2> QED
    BY <1>4, <2>1 DEF Count
<1> QED
  BY <1>3, <1>4

LEMMA PlainOnce ==
  ASSUME NEW v, NEW k, Plain(v, k, {"ENDIF"})
  PROVE  ~Plain(v, k, IfDirs) /\ ~Plain(v, k, {"ELSE"})
BY DEF Plain, IfDirs

Beyond(v, h, g) == {a \in Around(v, g) : a > h}

\* Behind the opening of a block that is open, as many others have been opened
\* and not closed as there are blocks inside of it.
Balanced(v, g) ==
  \A h \in Around(v, g) :
    Opens(v, h + 1, g - 1) =
      Closes(v, h + 1, g - 1) + Cardinality(Beyond(v, h, g))

LEMMA BeyondFinite ==
  ASSUME NEW v, NEW g \in Nat, NEW h
  PROVE  /\ IsFiniteSet(Beyond(v, h, g))
         /\ Cardinality(Beyond(v, h, g)) \in Nat
         /\ (Cardinality(Beyond(v, h, g)) = 0) <=> (Beyond(v, h, g) = {})
<1>1. IsFiniteSet(1..(g - 1)) /\ Beyond(v, h, g) \subseteq 1..(g - 1)
  BY FS_Interval DEF Beyond, Around
<1>2. IsFiniteSet(Beyond(v, h, g))
  BY <1>1, FS_Subset
<1> QED
  BY <1>2, FS_CardinalityType, FS_EmptySet

\* The blocks around the next line are those around line g and what line g
\* opens, without those that it closes.
LEMMA AroundNext ==
  ASSUME NEW v, NEW g \in Nat \ {0}, NEW h
  PROVE  h \in Around(v, g + 1) <=>
           \/ h = g /\ Plain(v, g, IfDirs)
           \/ /\ h \in Around(v, g)
              /\ Closes(v, h + 1, g) <= Opens(v, h + 1, g)
<1>1. (g + 1) - 1 = g
  OBVIOUS
<1>2. CASE h \in 1..(g - 1)
  <2>1. \A j : j \in (h + 1)..g <=> j \in (h + 1)..(g - 1) \/ j = g
    BY <1>2
  <2>2. h \in 1..g /\ h # g
    BY <1>2
  <2> QED
    BY <1>1, <1>2, <2>1, <2>2 DEF Around, IfDirs
<1>3. CASE h = g
  <2>1. \A j : j \notin (g + 1)..g
    OBVIOUS
  <2>2. h \in 1..g /\ h \notin 1..(g - 1)
    BY <1>3
  <2> QED
    BY <1>1, <1>3, <2>1, <2>2 DEF Around, IfDirs
<1>4. CASE h \notin 1..(g - 1) /\ h # g
  <2>1. h \notin 1..g
    BY <1>4
  <2> QED
    BY <1>1, <1>4, <2>1 DEF Around
<1> QED
  BY <1>2, <1>3, <1>4

\* Inside of an open block, counting up to line g.
LEMMA InnerCounts ==
  ASSUME NEW v, NEW g \in Nat \ {0}, Balanced(v, g), NEW h \in Around(v, g)
  PROVE  /\ Opens(v, h + 1, g - 1) \in Nat
         /\ Closes(v, h + 1, g - 1) \in Nat
         /\ Cardinality(Beyond(v, h, g)) \in Nat
         /\ Opens(v, h + 1, g - 1) =
              Closes(v, h + 1, g - 1) + Cardinality(Beyond(v, h, g))
         /\ Opens(v, h + 1, g) = Opens(v, h + 1, g - 1)
              + (IF Plain(v, g, IfDirs) THEN 1 ELSE 0)
         /\ Closes(v, h + 1, g) = Closes(v, h + 1, g - 1)
              + (IF Plain(v, g, {"ENDIF"}) THEN 1 ELSE 0)
<1>1. h \in 1..(g - 1)
  BY DEF Around
<1>2. h + 1 \in Nat /\ g - 1 \in Nat /\ h + 1 <= g
  BY <1>1
<1>3. Opens(v, h + 1, g - 1) \in Nat /\ Closes(v, h + 1, g - 1) \in Nat
  BY <1>2, CountTyped DEF Opens, Closes
<1>4. /\ Opens(v, h + 1, g) = IF Plain(v, g, IfDirs)
                              THEN Opens(v, h + 1, g - 1) + 1
                              ELSE Opens(v, h + 1, g - 1)
      /\ Closes(v, h + 1, g) = IF Plain(v, g, {"ENDIF"})
                               THEN Closes(v, h + 1, g - 1) + 1
                               ELSE Closes(v, h + 1, g - 1)
  BY <1>2, CountNext DEF Opens, Closes, IfDirs
<1>5. Opens(v, h + 1, g - 1) =
        Closes(v, h + 1, g - 1) + Cardinality(Beyond(v, h, g))
  BY DEF Balanced
<1>6. Cardinality(Beyond(v, h, g)) \in Nat
  BY BeyondFinite
<1> QED
  BY <1>3, <1>4, <1>5, <1>6

LEMMA KeepsAround ==
  ASSUME NEW v, NEW g \in Nat \ {0}, Balanced(v, g),
         ~Plain(v, g, IfDirs), ~Plain(v, g, {"ENDIF"})
  PROVE  Around(v, g + 1) = Around(v, g) /\ Balanced(v, g + 1)
<1>1. Around(v, g + 1) = Around(v, g)
  <2>1. ASSUME NEW h \in Around(v, g)
        PROVE  Closes(v, h + 1, g) <= Opens(v, h + 1, g)
    BY InnerCounts
  <2>2. \A h : h \in Around(v, g + 1) <=> h \in Around(v, g)
    BY <2>1, AroundNext
  <2> QED
    BY <2>2
<1>2. ASSUME NEW h \in Around(v, g)
      PROVE  Opens(v, h + 1, g) =
               Closes(v, h + 1, g) + Cardinality(Beyond(v, h, g))
  BY InnerCounts
<1>3. \A h : Beyond(v, h, g + 1) = Beyond(v, h, g)
  BY <1>1 DEF Beyond
<1>4. (g + 1) - 1 = g
  OBVIOUS
<1> QED
  BY <1>1, <1>2, <1>3, <1>4 DEF Balanced

LEMMA OpensAround ==
  ASSUME NEW v, NEW g \in Nat \ {0}, Balanced(v, g), Plain(v, g, IfDirs)
  PROVE  Around(v, g + 1) = Around(v, g) \cup {g} /\ Balanced(v, g + 1)
<1>0. ~Plain(v, g, {"ENDIF"}) /\ (g + 1) - 1 = g
  BY PlainOnce
<1>1. Around(v, g + 1) = Around(v, g) \cup {g}
  <2>1. ASSUME NEW h \in Around(v, g)
        PROVE  Closes(v, h + 1, g) <= Opens(v, h + 1, g)
    BY <1>0, InnerCounts
  <2> QED
    BY <2>1, AroundNext
<1>2. ASSUME NEW h \in Around(v, g)
      PROVE  Opens(v, h + 1, g) =
               Closes(v, h + 1, g) + Cardinality(Beyond(v, h, g + 1))
  <2>1. h < g /\ \A a \in Around(v, g) : a # g
    BY DEF Around
  <2>2. Beyond(v, h, g + 1) = Beyond(v, h, g) \cup {g} /\ g \notin Beyond(v, h, g)
    BY <1>1, <2>1 DEF Beyond
  <2>3. Cardinality(Beyond(v, h, g + 1)) = Cardinality(Beyond(v, h, g)) + 1
    BY <2>2, BeyondFinite, FS_AddElement
  <2> QED
    BY <1>0, <2>3, InnerCounts
<1>3. Opens(v, g + 1, g) = Closes(v, g + 1, g) + Cardinality(Beyond(v, g, g + 1))
  <2>1. Opens(v, g + 1, g) = 0 /\ Closes(v, g + 1, g) = 0
    BY CountNone DEF Opens, Closes
  <2>2. \A a \in Around(v, g + 1) : ~(a > g)
    BY DEF Around
  <2>3. Beyond(v, g, g + 1) = {}
    BY <2>2 DEF Beyond
  <2> QED
    BY <2>1, <2>3, FS_EmptySet
<1> QED
  BY <1>0, <1>1, <1>2, <1>3 DEF Balanced

LEMMA ClosesAround ==
  ASSUME NEW v, NEW g \in Nat \ {0}, Balanced(v, g), Plain(v, g, {"ENDIF"}),
         NEW t \in Around(v, g), \A a \in Around(v, g) : a <= t
  PROVE  Around(v, g + 1) = Around(v, g) \ {t} /\ Balanced(v, g + 1)
<1>0. ~Plain(v, g, IfDirs) /\ (g + 1) - 1 = g
  BY PlainOnce
<1>1. \A a \in Around(v, g) : a \in Nat
  BY DEF Around
<1>2. Closes(v, t + 1, g) > Opens(v, t + 1, g)
  <2>1. Beyond(v, t, g) = {}
    BY <1>1 DEF Beyond
  <2>2. Cardinality(Beyond(v, t, g)) = 0
    BY <2>1, FS_EmptySet
  <2> QED
    BY <1>0, <2>2, InnerCounts
<1>3. ASSUME NEW h \in Around(v, g), h # t
      PROVE  /\ Closes(v, h + 1, g) <= Opens(v, h + 1, g)
             /\ Opens(v, h + 1, g) =
                  Closes(v, h + 1, g) + Cardinality(Beyond(v, h, g) \ {t})
  <2>1. t \in Beyond(v, h, g)
    BY <1>1, <1>3 DEF Beyond
  <2>2. /\ Cardinality(Beyond(v, h, g) \ {t}) = Cardinality(Beyond(v, h, g)) - 1
        /\ Cardinality(Beyond(v, h, g)) \in Nat
        /\ Cardinality(Beyond(v, h, g)) # 0
    BY <2>1, BeyondFinite, FS_RemoveElement
  <2> QED
    BY <1>0, <2>2, InnerCounts
<1>4. ~(Closes(v, t + 1, g) <= Opens(v, t + 1, g))
  BY <1>0, <1>2, InnerCounts
<1>5. Around(v, g + 1) = Around(v, g) \ {t}
  BY <1>0, <1>3, <1>4, AroundNext
<1>6. \A h : Beyond(v, h, g + 1) = Beyond(v, h, g) \ {t}
  BY <1>5 DEF Beyond
<1> QED
  BY <1>0, <1>3, <1>5, <1>6 DEF Balanced

\* The #else of the innermost block, and no other line, turns a block over.
LEMMA ElseNext ==
  ASSUME NEW v, NEW g \in Nat \ {0}, Balanced(v, g), NEW h \in Around(v, g)
  PROVE  InElse(v, h, g + 1) <=>
           \/ InElse(v, h, g)
           \/ Plain(v, g, {"ELSE"}) /\ \A a \in Around(v, g) : a <= h
<1>0. h \in 1..(g - 1) /\ (g + 1) - 1 = g /\ \A a \in Around(v, g) : a \in Nat
  BY DEF Around
<1>1. \A j : j \in (h + 1)..g <=> j \in (h + 1)..(g - 1) \/ j = g
  BY <1>0
<1>2. InElse(v, h, g + 1) <=>
        \/ InElse(v, h, g)
        \/ Plain(v, g, {"ELSE"}) /\ Closes(v, h + 1, g) = Opens(v, h + 1, g)
  BY <1>0, <1>1 DEF InElse
<1>3. ASSUME Plain(v, g, {"ELSE"})
      PROVE  (Closes(v, h + 1, g) = Opens(v, h + 1, g)) <=>
               \A a \in Around(v, g) : a <= h
  <2>1. ~Plain(v, g, IfDirs) /\ ~Plain(v, g, {"ENDIF"})
    BY <1>3 DEF Plain, IfDirs
  <2>2. (Closes(v, h + 1, g) = Opens(v, h + 1, g)) <=>
          (Cardinality(Beyond(v, h, g)) = 0)
    BY <2>1, InnerCounts
  <2>3. (Beyond(v, h, g) = {}) <=> \A a \in Around(v, g) : a <= h
    <3>1. \A a \in Around(v, g) : ~(a > h) <=> a <= h
      BY <1>0
    <3> QED
      BY <3>1 DEF Beyond
  <2> QED
    BY <2>2, <2>3, BeyondFinite
<1> QED
  BY <1>2, <1>3

-----------------------------------------------------------------------------
(***************************************************************************)
(* The verdict on a line depends on the lines up to it and on the verdicts *)
(* on those before it.                                                     *)
(***************************************************************************)
Agree(v, w, m) == \A k \in 1..m : w[k] = v[k]

LEMMA AgreeOnBlocks ==
  ASSUME NEW v, NEW w, NEW m \in Nat, Agree(v, w, m)
  PROVE  /\ \A k \in 1..m : \A dirs : Plain(w, k, dirs) <=> Plain(v, k, dirs)
         /\ \A g \in 1..(m + 1) : /\ Around(w, g) = Around(v, g)
                                  /\ Balanced(w, g) <=> Balanced(v, g)
         /\ \A g \in 1..(m + 1) : \A h \in 1..(g - 1) :
              InElse(w, h, g) = InElse(v, h, g)
<1>1. \A k \in 1..m : \A dirs : Plain(w, k, dirs) <=> Plain(v, k, dirs)
  BY DEF Agree, Plain
<1>2. ASSUME NEW lo \in Nat \ {0}, NEW hi \in Nat, hi <= m, NEW dirs
      PROVE  Count(w, lo, hi, dirs) = Count(v, lo, hi, dirs)
  <2>1. \A k \in lo..hi : k \in 1..m
    BY <1>2
  <2>2. {k \in lo..hi : Plain(w, k, dirs)} = {k \in lo..hi : Plain(v, k, dirs)}
    BY <1>1, <2>1
  <2> QED
    BY <2>2 DEF Count
<1>3. ASSUME NEW lo \in Nat \ {0}, NEW hi \in Nat, hi <= m
      PROVE  /\ Opens(w, lo, hi) = Opens(v, lo, hi)
             /\ Closes(w, lo, hi) = Closes(v, lo, hi)
  BY <1>2, <1>3 DEF Opens, Closes
<1>4. ASSUME NEW g \in 1..(m + 1)
      PROVE  Around(w, g) = Around(v, g)
  <2>1. ASSUME NEW h \in 1..(g - 1)
        PROVE  /\ Plain(w, h, {"IFDEF", "IFNDEF"})
                    <=> Plain(v, h, {"IFDEF", "IFNDEF"})
               /\ \A j \in (h + 1)..(g - 1) :
                    /\ Closes(w, h + 1, j) = Closes(v, h + 1, j)
                    /\ Opens(w, h + 1, j) = Opens(v, h + 1, j)
    <3>1. h \in 1..m /\ h + 1 \in Nat \ {0}
      BY <1>4, <2>1
    <3>2. \A j \in (h + 1)..(g - 1) : j \in Nat /\ j <= m
      BY <1>4, <2>1
    <3> QED
      BY <1>1, <1>3, <3>1, <3>2
  <2> QED
    BY <2>1 DEF Around
<1>5. ASSUME NEW g \in 1..(m + 1)
      PROVE  Balanced(w, g) <=> Balanced(v, g)
  <2>1. \A h : Beyond(w, h, g) = Beyond(v, h, g)
    BY <1>4, <1>5 DEF Beyond
  <2>2. \A h \in Around(v, g) : /\ Opens(w, h + 1, g - 1) = Opens(v, h + 1, g - 1)
                                /\ Closes(w, h + 1, g - 1) = Closes(v, h + 1, g - 1)
    <3>1. \A h \in Around(v, g) : h + 1 \in Nat \ {0}
      BY DEF Around
    <3>2. g - 1 \in Nat /\ g - 1 <= m
      BY <1>5
    <3> QED
      BY <1>3, <3>1, <3>2
  <2> QED
    BY <1>4, <1>5, <2>1, <2>2 DEF Balanced
<1>6. ASSUME NEW g \in 1..(m + 1), NEW h \in 1..(g - 1)
      PROVE  InElse(w, h, g) = InElse(v, h, g)
  <2>1. ASSUME NEW j \in (h + 1)..(g - 1)
        PROVE  /\ Plain(w, j, {"ELSE"}) <=> Plain(v, j, {"ELSE"})
               /\ Closes(w, h + 1, j) = Closes(v, h + 1, j)
               /\ Opens(w, h + 1, j) = Opens(v, h + 1, j)
    <3>1. j \in 1..m /\ j \in Nat /\ j <= m /\ h + 1 \in Nat \ {0}
      BY <1>6, <2>1
    <3> QED
      BY <1>1, <1>3, <3>1
  <2> QED
    BY <2>1 DEF InElse
<1> QED
  BY <1>1, <1>4, <1>5, <1>6

LEMMA LastOfSegment ==
  ASSUME NEW n \in Nat, NEW S \in SUBSET 1..n, S # {}
  PROVE  Max(S) \in S /\ \A y \in S : y <= Max(S)
<1>1. S \in SUBSET 0..n
  OBVIOUS
<1>2. \E x \in S : \A y \in S : y <= x
  BY <1>1, MaxOfSegment
<1> QED
  BY <1>2 DEF Max

LEMMA AgreeOnNames ==
  ASSUME NEW v, NEW w, NEW m \in Nat, Agree(v, w, m)
  PROVE  /\ \A j \in 1..m : \A n :
              /\ NamesLive(w, j, n, MarkDirs) <=> NamesLive(v, j, n, MarkDirs)
              /\ Sets(w, j, n) <=> Sets(v, j, n)
         /\ \A h \in 1..(m + 1) : \A n : /\ EnvAt(w, h, n) = EnvAt(v, h, n)
                                        /\ ValueAt(w, h, n) = ValueAt(v, h, n)
         /\ \A h \in 1..m : Selects(w, h) = Selects(v, h)
<1>1. \A k \in 1..m : \A dirs : Plain(w, k, dirs) <=> Plain(v, k, dirs)
  BY AgreeOnBlocks
<1>2. \A j \in 1..m : \A n, dirs :
        NamesLive(w, j, n, dirs) <=> NamesLive(v, j, n, dirs)
  BY <1>1 DEF Agree, NamesLive
<1>3. ASSUME NEW j \in 1..m, NEW n
      PROVE  Sets(w, j, n) <=> Sets(v, j, n)
  <2>1. \A k \in 1..(j - 1) : k \in 1..m
    BY <1>3
  <2>2. Around(w, j) = Around(v, j) /\ w[j] = v[j]
    BY <1>3, AgreeOnBlocks DEF Agree
  <2> QED
    BY <1>2, <1>3, <2>1, <2>2 DEF Sets
<1>4. ASSUME NEW h \in 1..(m + 1), NEW n
      PROVE  EnvAt(w, h, n) = EnvAt(v, h, n)
  <2> DEFINE sets == {j \in 1..(h - 1) : /\ Plain(v, j, {"COND_PRAGMA"})
                                         /\ v[j].line.name = n}
  <2>1. \A k \in 1..(h - 1) : k \in 1..m /\ w[k] = v[k]
    BY <1>4 DEF Agree
  <2>2. {j \in 1..(h - 1) : /\ Plain(w, j, {"COND_PRAGMA"})
                            /\ w[j].line.name = n} = sets
    BY <1>1, <2>1
  <2>3. ASSUME sets # {}
        PROVE  w[Min(sets)] = v[Min(sets)]
    <3>1. sets \in SUBSET Nat /\ sets \subseteq 1..(h - 1)
      OBVIOUS
    <3> HIDE DEF sets
    <3>2. Min(sets) \in sets
      BY <2>3, <3>1, MinIn
    <3> QED
      BY <2>1, <3>1, <3>2
  <2>4. EnvAt(w, h, n) =
          IF Env[n] # NoValue THEN Env[n]
          ELSE IF sets = {} THEN NoValue ELSE w[Min(sets)].line.value
    BY <2>2 DEF EnvAt
  <2>5. EnvAt(v, h, n) =
          IF Env[n] # NoValue THEN Env[n]
          ELSE IF sets = {} THEN NoValue ELSE v[Min(sets)].line.value
    BY DEF EnvAt
  <2> HIDE DEF sets
  <2> QED
    BY <2>3, <2>4, <2>5
<1>5. ASSUME NEW h \in 1..(m + 1), NEW n
      PROVE  ValueAt(w, h, n) = ValueAt(v, h, n)
  <2> DEFINE sets == {j \in 1..(h - 1) : Sets(v, j, n)}
             Value(last) ==
               IF sets = {} THEN IF n \in DollarNames THEN EnvAt(v, h, n)
                                                       ELSE NoValue
               ELSE IF last.dir \in {"UNDEFINE", "REUNDEFINE"} THEN NoValue
               ELSE IF last.ops = 2 THEN last.value ELSE EmptyValue
  <2>1. \A k \in 1..(h - 1) : k \in 1..m /\ w[k] = v[k]
    BY <1>5 DEF Agree
  <2>2. {j \in 1..(h - 1) : Sets(w, j, n)} = sets
    BY <1>3, <2>1
  <2>3. ASSUME sets # {}
        PROVE  w[Max(sets)] = v[Max(sets)]
    <3>1. sets \subseteq 1..(h - 1) /\ h - 1 \in Nat
      OBVIOUS
    <3> HIDE DEF sets
    <3>2. Max(sets) \in sets
      BY <2>3, <3>1, LastOfSegment
    <3> QED
      BY <2>1, <3>1, <3>2
  <2>4. ValueAt(w, h, n) = Value(w[Max(sets)].line)
    BY <1>4, <2>2 DEF ValueAt
  <2>5. ValueAt(v, h, n) = Value(v[Max(sets)].line)
    BY DEF ValueAt
  <2>6. \A a, b : sets = {} => Value(a) = Value(b)
    OBVIOUS
  <2> HIDE DEF sets, Value
  <2> QED
    BY <2>3, <2>4, <2>5, <2>6
<1>6. ASSUME NEW h \in 1..m
      PROVE  Selects(w, h) = Selects(v, h)
  <2>1. /\ \A k \in 1..(h - 1) : k \in 1..m
        /\ h \in 1..(m + 1) /\ w[h] = v[h]
    BY DEF Agree
  <2>2. \A n : ValueAt(w, h, n) = ValueAt(v, h, n)
    BY <1>5, <2>1
  <2>3. \A n : (\E j \in 1..(h - 1) : Sets(w, j, n)) <=>
                \E j \in 1..(h - 1) : Sets(v, j, n)
    BY <1>3, <2>1
  <2> QED
    BY <2>1, <2>2, <2>3 DEF Selects
<1> QED
  BY <1>2, <1>3, <1>4, <1>5, <1>6

LEMMA AgreeOnVerdict ==
  ASSUME NEW v, NEW w, NEW m \in Nat, Agree(v, w, m), NEW g \in 1..(m + 1)
  PROVE  Verdict(w, g) = Verdict(v, g)
<1>1. \A k \in 1..(g - 1) : k \in 1..m /\ w[k] = v[k]
  BY DEF Agree
<1>2. \A h \in 1..(g - 1) : Plain(w, h, {"DECRYPT"}) <=> Plain(v, h, {"DECRYPT"})
  BY <1>1, AgreeOnBlocks
<1>3. /\ Around(w, g) = Around(v, g)
      /\ \A h \in Around(v, g) : /\ Selects(w, h) = Selects(v, h)
                                 /\ InElse(w, h, g) = InElse(v, h, g)
  <2>1. \A h \in Around(v, g) : h \in 1..(g - 1) /\ h \in 1..m
    BY <1>1 DEF Around
  <2> QED
    BY <2>1, AgreeOnBlocks, AgreeOnNames
<1>4. InBlock(w, g) = InBlock(v, g)
  <2>1. ASSUME NEW h \in 1..(g - 1)
        PROVE  \A j \in (h + 1)..(g - 1) : w[j] = v[j]
    BY <1>1
  <2>2. ASSUME NEW h \in 1..(g - 1)
        PROVE  (\A j \in (h + 1)..(g - 1) : w[j].line.dir # "ENDCRYPT")
                 <=> \A j \in (h + 1)..(g - 1) : v[j].line.dir # "ENDCRYPT"
    BY <2>1
  <2> QED
    BY <1>2, <2>2 DEF InBlock
<1>5. (\A h \in Around(w, g) : Selects(w, h) # InElse(w, h, g))
        = \A h \in Around(v, g) : Selects(v, h) # InElse(v, h, g)
  BY <1>3
<1> QED
  BY <1>4, <1>5 DEF Verdict

-----------------------------------------------------------------------------
(***************************************************************************)
(* The inductive invariant of EffectivePath: there are verdicts v, one for *)
(* every line read, from which what has been written, the stack, the flag, *)
(* the names, the variables and the #decrypt block can be told.            *)
(***************************************************************************)
Judgement == [line : Line, crypted : BOOLEAN, live : BOOLEAN]

Judged(v) ==
  /\ v \in Seq(Judgement)
  /\ Len(v) = globalLineNo
  /\ Len(lineIndex) = globalLineNo
  /\ \A g \in 1..globalLineNo : v[g] = Verdict(v, g)

\* The line at which a run stops is not written.
Stopped == status \in {"exited", "aborted"}
Done    == IF Stopped THEN globalLineNo - 1 ELSE globalLineNo

Written(v) ==
  {out[i].global : i \in DOMAIN out} = {g \in 1..Done : Expected(v, g)}

\* Line h begins a #decrypt block that goes on up to the last line read.
OpenCrypt(v, h) ==
  /\ Plain(v, h, {"DECRYPT"})
  /\ \A j \in (h + 1)..globalLineNo :
       /\ lineIndex[j] = [lineIndex[h] EXCEPT !.local = @ + (j - h)]
       /\ v[j].line.dir # "ENDCRYPT"

Place(frame) == [path |-> frame.path, local |-> frame.pos]

CryptOf(v) ==
  /\ status = "running" /\ Current.crypt =>
       \E h \in 1..globalLineNo :
         OpenCrypt(v, h) /\ lineIndex[globalLineNo] = Place(Current)
  /\ \A h \in 1..globalLineNo :
       OpenCrypt(v, h) =>
         \/ status = "running" /\ Current.crypt
         \/ lineIndex[globalLineNo].local =
              Len(LinesOf(lineIndex[globalLineNo].path))
  /\ \A i \in 1..(Len(frames) - 1) : ~frames[i].crypt

\* The variables that #pragma env has set.
EnvOf(v) ==
  \A n \in DollarNames :
    /\ \A j \in 1..Len(v) :
         Plain(v, j, {"COND_PRAGMA"}) /\ v[j].line.name = n =>
           v[j].line.value = envMap[n]
    /\ (\A j \in 1..Len(v) :
          ~(Plain(v, j, {"COND_PRAGMA"}) /\ v[j].line.name = n))
         => envMap[n] = NoValue

\* Line j is the last one that sets name n.
LastSets(v, j, n) ==
  /\ j \in 1..Len(v)
  /\ Sets(v, j, n)
  /\ \A k \in 1..Len(v) : Sets(v, k, n) => k <= j

UndefDirs == {"UNDEFINE", "REUNDEFINE"}

\* The entry of a name is what the last line that sets it has made of it.
NameOf(v, n) ==
  /\ nameDefinition[n].known <=> \E j \in 1..Len(v) : Sets(v, j, n)
  /\ \A j : LastSets(v, j, n) =>
       LET line == v[j].line IN
       /\ nameDefinition[n].isDefined <=> line.dir \notin UndefDirs
       /\ line.dir \notin UndefDirs =>
            nameDefinition[n].sValue =
              (IF line.ops = 2 THEN line.value ELSE EmptyValue)
  /\ Marked(n) <=> \E j \in 1..Len(v) : NamesLive(v, j, n, MarkDirs)

LiveBlock(v, a, g) == Selects(v, a) # InElse(v, a, g)

\* Entry i of the stack belongs to the block that line at[i] opens: the blocks
\* around the next line are the ones on the stack, in order, an #else has an
\* entry on top of the one of its block, and the flag that an #ifdef has saved
\* says whether the blocks outside of its own are live.
StackedOn(s, v, at, g) ==
  /\ at \in [1..Len(s) -> Around(v, g)]
  /\ \A a \in Around(v, g) : \E i \in 1..Len(s) : at[i] = a
  /\ \A i, j \in 1..Len(s) :
       i < j => at[i] <= at[j] /\ (s[j].type # "ELSE" => at[i] < at[j])
  /\ \A i \in 1..Len(s) :
       s[i].type = "ELSE" => i > 1 /\ at[i] = at[i - 1] /\ InElse(v, at[i], g)
  /\ \A i \in 1..Len(s) :
       /\ s[i].type # "ELSE"
       /\ i < Len(s) => s[i + 1].type # "ELSE"
       => ~InElse(v, at[i], g)
  /\ \A i \in 1..Len(s) :
       s[i].type # "ELSE" =>
         (s[i].enabled <=>
            \A a \in Around(v, g) : a < at[i] => LiveBlock(v, a, g))

AllLive(v, g) == \A a \in Around(v, g) : LiveBlock(v, a, g)

\* Under convertSwitch the directives are not obeyed.
ConditionsOf(v) ==
  IF mode.convertSwitch
  THEN conditionalsStack = <<>> /\ isEnabled
  ELSE /\ Balanced(v, Len(v) + 1)
       /\ isEnabled <=> AllLive(v, Len(v) + 1)
       /\ \E at : StackedOn(conditionalsStack, v, at, Len(v) + 1)
       /\ \A n \in Names : NameOf(v, n)

StateOfLines(v) == CryptOf(v) /\ EnvOf(v) /\ ConditionsOf(v)

PathInv ==
  \E v : Judged(v) /\ Written(v) /\ (~Stopped => StateOfLines(v))

-----------------------------------------------------------------------------
(***************************************************************************)
(* A step that reads a line adds the verdict on it.                        *)
(***************************************************************************)
Pending == [line |-> CurrentLine, crypted |-> Current.crypt, live |-> isEnabled]

\* The verdicts w after the step are v and the one on the line it reads.
Reading(v, w) ==
  /\ status = "running"
  /\ ~AtEnd
  /\ CountLine
  /\ UNCHANGED <<disk, mode>>
  /\ Judged(v)
  /\ w = Append(v, Pending)

LEMMA ReadingFacts ==
  ASSUME IInv, NEW v, NEW w, Reading(v, w), NEW m, m = globalLineNo
  PROVE  /\ m \in Nat /\ Len(lineIndex) = m /\ Len(lineIndex') = m + 1
         /\ globalLineNo' = m + 1
         /\ v \in Seq(Judgement) /\ Len(v) = m
         /\ w \in Seq(Judgement) /\ Len(w) = m + 1
         /\ Agree(v, w, m)
         /\ \A k \in 1..m : /\ w[k] = v[k] /\ v[k] \in Judgement
                            /\ lineIndex'[k] = lineIndex[k]
                            /\ LineAt(k)' = LineAt(k)
                            /\ lineIndex[k] \in [path : Paths, local : Nat]
         /\ lineIndex'[m + 1] = [path  |-> Current.path,
                                 local |-> Current.pos + 1]
         /\ LineAt(m + 1)' = CurrentLine
         /\ w[m + 1] \in Judgement
         /\ w[m + 1].line = CurrentLine
         /\ w[m + 1].crypted = Current.crypt
         /\ w[m + 1].live = isEnabled
         /\ CurrentLine \in Line /\ Current \in Frame
         /\ isEnabled \in BOOLEAN
<1>1. PICK x : x = Pending
  OBVIOUS
<1>2. /\ status = "running" /\ ~AtEnd /\ CountLine /\ UNCHANGED <<disk, mode>>
      /\ v \in Seq(Judgement) /\ Len(v) = m /\ Len(lineIndex) = m
      /\ w = Append(v, x)
  BY <1>1 DEF Reading, Judged
<1>3. /\ CurrentLine \in Line /\ Current \in Frame
      /\ Current.crypt \in BOOLEAN /\ isEnabled \in BOOLEAN
  BY <1>2, CurrentTyped, CurrentLineTyped DEF Frame, IInv, TypeOK
<1>4. /\ x \in Judgement
      /\ x.line = CurrentLine
      /\ x.crypted = Current.crypt
      /\ x.live = isEnabled
  BY <1>1, <1>3, Zenon DEF Pending, Judgement
<1>5. /\ m \in Nat
      /\ w \in Seq(Judgement) /\ Len(w) = m + 1 /\ w[m + 1] = x
      /\ \A k \in 1..m : w[k] = v[k] /\ v[k] \in Judgement
      /\ Agree(v, w, m)
  <2>1. /\ v \in Seq(Judgement) /\ x \in Judgement
        /\ w = Append(v, x) /\ m = Len(v)
    BY <1>2, <1>4
  <2>2. /\ w \in Seq(Judgement) /\ Len(w) = m + 1 /\ w[m + 1] = x
        /\ \A k \in 1..m : w[k] = v[k]
    BY <2>1, PushOn
  <2>3. m \in Nat /\ \A k \in 1..m : v[k] \in Judgement
    BY <2>1, ElementOfSeq, LenProperties
  <2> QED
    BY <2>2, <2>3 DEF Agree
<1>6. /\ Len(lineIndex') = m + 1
      /\ Grown
      /\ lineIndex'[m + 1] = [path  |-> Current.path,
                              local |-> Current.pos + 1]
      /\ LineAt(m + 1)' = CurrentLine
  BY <1>2, CountedLine
<1>7. \A k \in 1..m : /\ lineIndex'[k] = lineIndex[k]
                      /\ LineAt(k)' = LineAt(k)
                      /\ lineIndex[k] \in [path : Paths, local : Nat]
  <2>1. lineIndex \in Seq([path : Paths, local : Nat])
    BY DEF IInv, TypeOK
  <2>2. \A k \in 1..m : lineIndex[k] \in [path : Paths, local : Nat]
    BY <1>2, <2>1, ElementOfSeq
  <2> QED
    BY <1>2, <1>6, <2>2, SameLine
<1>8. globalLineNo' = m + 1
  BY <1>2 DEF CountLine
<1> QED
  BY <1>2, <1>3, <1>4, <1>5, <1>6, <1>7, <1>8

LEMMA LocalsMove ==
  ASSUME NEW r \in [path : Paths, local : Nat],
         NEW q \in [path : Paths, local : Nat], NEW d \in Nat,
         q = [r EXCEPT !.local = @ + d],
         NEW path \in Paths, NEW pos \in Nat
  PROVE  ([path |-> path, local |-> pos + 1] = [r EXCEPT !.local = @ + (d + 1)])
           <=> q = [path |-> path, local |-> pos]
<1>1. /\ [r EXCEPT !.local = @ + d] = [path |-> r.path, local |-> r.local + d]
      /\ [r EXCEPT !.local = @ + (d + 1)]
           = [path |-> r.path, local |-> r.local + (d + 1)]
      /\ r.local \in Nat
  OBVIOUS
<1>2. ([path |-> path, local |-> pos + 1]
         = [path |-> r.path, local |-> r.local + (d + 1)])
        <=> path = r.path /\ pos = r.local + d
  BY <1>1
<1>3. ([path |-> r.path, local |-> r.local + d] = [path |-> path, local |-> pos])
        <=> path = r.path /\ pos = r.local + d
  BY <1>1
<1> QED
  BY <1>1, <1>2, <1>3

\* A #decrypt block goes on to the line read if that follows it in its file.
LEMMA BlockGoesOn ==
  ASSUME IInv, NEW v, NEW w, Reading(v, w), NEW m, m = globalLineNo,
         NEW h \in 1..m
  PROVE  /\ (/\ Plain(w, h, {"DECRYPT"})
             /\ \A j \in (h + 1)..(m + 1) :
                  lineIndex'[j] = [lineIndex'[h] EXCEPT !.local = @ + (j - h)]
             /\ \A j \in (h + 1)..m : w[j].line.dir # "ENDCRYPT")
           <=> OpenCrypt(v, h) /\ lineIndex[m] = Place(Current)
         /\ OpenCrypt(w, h)' <=>
              /\ OpenCrypt(v, h) /\ lineIndex[m] = Place(Current)
              /\ CurrentLine.dir # "ENDCRYPT"
<1>1. /\ m \in Nat /\ globalLineNo' = m + 1
      /\ Agree(v, w, m)
      /\ \A k \in 1..m : /\ w[k] = v[k]
                         /\ lineIndex'[k] = lineIndex[k]
                         /\ lineIndex[k] \in [path : Paths, local : Nat]
      /\ lineIndex'[m + 1] = [path  |-> Current.path,
                              local |-> Current.pos + 1]
      /\ w[m + 1].line = CurrentLine
      /\ Current.path \in Paths /\ Current.pos \in Nat
  BY ReadingFacts DEF Frame
<1>2. Plain(w, h, {"DECRYPT"}) <=> Plain(v, h, {"DECRYPT"})
  BY <1>1, AgreeOnBlocks
<1>3. \A j : j \in (h + 1)..(m + 1) <=> j \in (h + 1)..m \/ j = m + 1
  BY <1>1
<1>4. \A j \in (h + 1)..m : j \in 1..m
  BY <1>1
<1> DEFINE Follows == \A j \in (h + 1)..m :
                        lineIndex[j] = [lineIndex[h] EXCEPT !.local = @ + (j - h)]
           Closed  == \E j \in (h + 1)..m : v[j].line.dir = "ENDCRYPT"
           Joins   == [path |-> Current.path, local |-> Current.pos + 1]
                        = [lineIndex[h] EXCEPT !.local = @ + ((m + 1) - h)]
<1>5. (\A j \in (h + 1)..(m + 1) :
         lineIndex'[j] = [lineIndex'[h] EXCEPT !.local = @ + (j - h)])
      <=> Follows /\ Joins
  BY <1>1, <1>3, <1>4
<1>6. (\A j \in (h + 1)..m : w[j].line.dir # "ENDCRYPT") <=> ~Closed
  BY <1>1, <1>4
<1>7. Follows => (Joins <=> lineIndex[m] = Place(Current))
  <2> SUFFICES ASSUME Follows
               PROVE  Joins <=> lineIndex[m] = Place(Current)
    OBVIOUS
  <2>1. PICK r, q, d : r = lineIndex[h] /\ q = lineIndex[m] /\ d = m - h
    OBVIOUS
  <2>2. /\ r \in [path : Paths, local : Nat]
        /\ q \in [path : Paths, local : Nat]
        /\ d \in Nat /\ (m + 1) - h = d + 1
    BY <1>1, <2>1
  <2>3. q = [r EXCEPT !.local = @ + d]
    <3>1. CASE h = m
      <4>1. d = 0 /\ q = r
        BY <1>1, <2>1, <3>1
      <4>2. [r EXCEPT !.local = @ + 0] = r
        BY <2>2
      <4> QED
        BY <4>1, <4>2
    <3>2. CASE h # m
      <4>1. m \in (h + 1)..m
        BY <1>1, <3>2
      <4> QED
        BY <2>1, <4>1
    <3> QED
      BY <3>1, <3>2
  <2> HIDE DEF Follows
  <2>4. Joins <=> q = [path |-> Current.path, local |-> Current.pos]
    BY <1>1, <2>1, <2>2, <2>3, LocalsMove
  <2> QED
    BY <2>1, <2>4 DEF Place
<1>8. OpenCrypt(v, h) <=> Plain(v, h, {"DECRYPT"}) /\ Follows /\ ~Closed
  BY DEF OpenCrypt
<1>9. OpenCrypt(w, h)' <=>
        /\ Plain(w, h, {"DECRYPT"})
        /\ \A j \in (h + 1)..(m + 1) :
             lineIndex'[j] = [lineIndex'[h] EXCEPT !.local = @ + (j - h)]
        /\ ~Closed
        /\ CurrentLine.dir # "ENDCRYPT"
  <2>1. OpenCrypt(w, h)' <=>
        /\ Plain(w, h, {"DECRYPT"})
        /\ \A j \in (h + 1)..(m + 1) :
             lineIndex'[j] = [lineIndex'[h] EXCEPT !.local = @ + (j - h)]
        /\ \A j \in (h + 1)..(m + 1) : w[j].line.dir # "ENDCRYPT"
    BY <1>1 DEF OpenCrypt
  <2>2. (\A j \in (h + 1)..(m + 1) : w[j].line.dir # "ENDCRYPT")
          <=> ~Closed /\ CurrentLine.dir # "ENDCRYPT"
    <3>1. m + 1 \in (h + 1)..(m + 1)
      BY <1>1
    <3> HIDE DEF Closed
    <3> QED
      BY <1>1, <1>3, <1>6, <3>1
  <2> QED
    BY <2>1, <2>2
<1> HIDE DEF Follows, Closed, Joins
<1> QED
  BY <1>2, <1>5, <1>6, <1>7, <1>8, <1>9

LEMMA BlockOfLine ==
  ASSUME IInv, NEW v, NEW w, Reading(v, w), NEW m, m = globalLineNo, CryptOf(v)
  PROVE  /\ InBlock(w, m + 1)' = Current.crypt
         /\ Current.crypt => \E h \in 1..m : OpenCrypt(v, h)
                                             /\ lineIndex[m] = Place(Current)
         /\ \A h \in 1..m : OpenCrypt(v, h) /\ lineIndex[m] = Place(Current)
                              => Current.crypt
<1>1. status = "running" /\ ~AtEnd
  BY DEF Reading
<1>2. Current.crypt \in BOOLEAN /\ m \in Nat
  BY ReadingFacts DEF Frame
<1>3. Current.crypt => \E h \in 1..m : OpenCrypt(v, h)
                                       /\ lineIndex[m] = Place(Current)
  BY <1>1 DEF CryptOf
<1>4. ASSUME NEW h \in 1..m, OpenCrypt(v, h), lineIndex[m] = Place(Current)
      PROVE  Current.crypt
  <2>1. \/ Current.crypt
        \/ lineIndex[m].local = Len(LinesOf(lineIndex[m].path))
    BY <1>1, <1>4 DEF CryptOf
  <2>2. lineIndex[m].local = Current.pos /\ lineIndex[m].path = Current.path
    BY <1>4 DEF Place
  <2> QED
    BY <1>1, <2>1, <2>2 DEF AtEnd
<1>5. InBlock(w, m + 1)' <=>
        \E h \in 1..m : OpenCrypt(v, h) /\ lineIndex[m] = Place(Current)
  <2>1. (m + 1) - 1 = m
    BY <1>2
  <2>2. InBlock(w, m + 1)' <=>
          \E h \in 1..m :
            /\ Plain(w, h, {"DECRYPT"})
            /\ \A j \in (h + 1)..(m + 1) :
                 lineIndex'[j] = [lineIndex'[h] EXCEPT !.local = @ + (j - h)]
            /\ \A j \in (h + 1)..m : w[j].line.dir # "ENDCRYPT"
    BY <2>1 DEF InBlock
  <2> QED
    BY <2>2, BlockGoesOn
<1>6. InBlock(w, m + 1)' \in BOOLEAN
  BY DEF InBlock
<1> QED
  BY <1>2, <1>3, <1>4, <1>5, <1>6

\* Whether the lines after the one that is read are in a #decrypt block.
CryptAfter == IF Current.crypt THEN CurrentLine.dir # "ENDCRYPT"
                               ELSE CurrentLine.dir = "DECRYPT"

LEMMA BlockAfter ==
  ASSUME IInv, NEW v, NEW w, Reading(v, w), NEW m, m = globalLineNo, CryptOf(v)
  PROVE  /\ \A h \in 1..(m + 1) : OpenCrypt(w, h)' => CryptAfter
         /\ CryptAfter => \E h \in 1..(m + 1) : OpenCrypt(w, h)'
<1>1. /\ m \in Nat /\ globalLineNo' = m + 1
      /\ w[m + 1].line = CurrentLine /\ w[m + 1].crypted = Current.crypt
  BY ReadingFacts
<1>2. ASSUME NEW h \in 1..m
      PROVE  OpenCrypt(w, h)' <=>
               /\ OpenCrypt(v, h) /\ lineIndex[m] = Place(Current)
               /\ CurrentLine.dir # "ENDCRYPT"
  BY BlockGoesOn
<1>3. /\ Current.crypt => \E h \in 1..m : OpenCrypt(v, h)
                                          /\ lineIndex[m] = Place(Current)
      /\ \A h \in 1..m : OpenCrypt(v, h) /\ lineIndex[m] = Place(Current)
                           => Current.crypt
  BY BlockOfLine
<1>4. OpenCrypt(w, m + 1)' <=> ~Current.crypt /\ CurrentLine.dir = "DECRYPT"
  <2>1. \A j : j \notin ((m + 1) + 1)..(m + 1)
    BY <1>1
  <2>2. OpenCrypt(w, m + 1)' <=> Plain(w, m + 1, {"DECRYPT"})
    BY <1>1, <2>1 DEF OpenCrypt
  <2> QED
    BY <1>1, <2>2 DEF Plain
<1>5. \A h : h \in 1..(m + 1) <=> h \in 1..m \/ h = m + 1
  BY <1>1
<1> QED
  BY <1>2, <1>3, <1>4, <1>5 DEF CryptAfter

\* A step that reads a line and stays in the file.
LEMMA CryptOfLine ==
  ASSUME IInv, NEW v, NEW w, Reading(v, w), CryptOf(v),
         NEW c \in BOOLEAN, c = CryptAfter, status' = "running",
         frames' = [frames EXCEPT ![Len(frames)] = AdvancedFrame(c)]
  PROVE  CryptOf(w)'
<1>1. PICK m, n : m = globalLineNo /\ n = Len(frames)
  OBVIOUS
<1>2. /\ m \in Nat /\ globalLineNo' = m + 1
      /\ lineIndex'[m + 1] = [path  |-> Current.path,
                              local |-> Current.pos + 1]
  BY <1>1, ReadingFacts
<1>3. status = "running" /\ ~AtEnd
  BY DEF Reading
<1>4. /\ frames' \in Seq(Frame) /\ frames' # <<>>
      /\ Len(frames') = n
      /\ frames'[n] = AdvancedFrame(c)
      /\ \A i \in 1..(n - 1) : frames'[i] = frames[i]
  BY <1>1, <1>3, AdvanceTyped
<1>5. Current' = AdvancedFrame(c)
  BY <1>4, TopOf DEF Current
<1>6. /\ Current'.crypt = c
      /\ Place(Current)' = lineIndex'[m + 1]
  BY <1>2, <1>5 DEF AdvancedFrame, Place
<1>7. \A i \in 1..(n - 1) : ~frames'[i].crypt
  BY <1>1, <1>4 DEF CryptOf
<1>8. /\ \A h \in 1..(m + 1) : OpenCrypt(w, h)' => c
      /\ c => \E h \in 1..(m + 1) : OpenCrypt(w, h)'
  BY <1>1, BlockAfter
<1> QED
  BY <1>2, <1>4, <1>6, <1>7, <1>8 DEF CryptOf

\* A step that opens an included file.
LEMMA CryptOfInclude ==
  ASSUME IInv, NEW v, NEW w, Reading(v, w), CryptOf(v), ~CryptAfter,
         NEW path \in Paths,
         frames' = Append([frames EXCEPT ![Len(frames)] = AdvancedFrame(FALSE)],
                          OpenFrame(path))
  PROVE  CryptOf(w)'
<1>1. PICK m, n : m = globalLineNo /\ n = Len(frames)
  OBVIOUS
<1>2. m \in Nat /\ globalLineNo' = m + 1
  BY <1>1, ReadingFacts
<1>3. status = "running" /\ ~AtEnd
  BY DEF Reading
<1>4. PICK fs : fs = [frames EXCEPT ![Len(frames)] = AdvancedFrame(FALSE)]
  OBVIOUS
<1>5. /\ fs \in Seq(Frame)
      /\ Len(fs) = n /\ n \in Nat
      /\ fs[n] = AdvancedFrame(FALSE)
      /\ \A i \in 1..(n - 1) : fs[i] = frames[i]
  BY <1>1, <1>3, <1>4, AdvanceTyped, CurrentTyped
<1>6. /\ OpenFrame(path) \in Frame /\ ~OpenFrame(path).crypt
      /\ ~AdvancedFrame(FALSE).crypt
  BY DEF OpenFrame, AdvancedFrame, Frame
<1>7. /\ frames' \in Seq(Frame) /\ frames' # <<>>
      /\ Len(frames') = n + 1
      /\ frames'[n + 1] = OpenFrame(path)
      /\ \A i \in 1..n : frames'[i] = fs[i]
  <2>1. PICK f : f = OpenFrame(path)
    OBVIOUS
  <2>2. frames' = Append(fs, f) /\ f \in Frame
    BY <1>4, <1>6, <2>1
  <2>3. fs \in Seq(Frame) /\ Len(fs) = n
    BY <1>5
  <2>4. /\ Append(fs, f) \in Seq(Frame)
        /\ Append(fs, f) # <<>>
        /\ Len(Append(fs, f)) = n + 1
        /\ Append(fs, f)[n + 1] = f
        /\ \A i \in 1..n : Append(fs, f)[i] = fs[i]
    BY <2>2, <2>3, PushOn
  <2> QED
    BY <2>1, <2>2, <2>4
<1>8. ~Current'.crypt
  <2>1. Current' = OpenFrame(path)
    BY <1>7, TopOf DEF Current
  <2> QED
    BY <1>6, <2>1
<1>9. ASSUME NEW i \in 1..n
      PROVE  ~frames'[i].crypt
  <2>1. CASE i = n
    BY <1>5, <1>6, <1>7, <2>1
  <2>2. CASE i # n
    <3>1. i \in 1..(n - 1)
      BY <1>5, <2>2
    <3>2. ~frames[i].crypt
      BY <1>1, <3>1 DEF CryptOf
    <3> QED
      BY <1>5, <1>7, <3>1, <3>2
  <2> QED
    BY <2>1, <2>2
<1>10. \A h \in 1..(m + 1) : ~OpenCrypt(w, h)'
  BY <1>1, BlockAfter
<1>11. (n + 1) - 1 = n
  BY <1>5
<1> QED
  BY <1>2, <1>7, <1>8, <1>9, <1>10, <1>11 DEF CryptOf

\* A step that reads no line: a file ends, in a #decrypt block or not.
LEMMA CryptAtEnd ==
  ASSUME IInv, NEW v, CryptOf(v), UNCHANGED <<disk, lineIndex, globalLineNo>>,
         EndOfFile \/ DecryptAtEndOfFile
  PROVE  CryptOf(v)'
<1>1. PICK m, n : m = globalLineNo /\ n = Len(frames)
  OBVIOUS
<1>2. status = "running" /\ AtEnd
  BY DEF EndOfFile, ExhaustsFile, DecryptAtEndOfFile, InCrypt
<1>3. \A h : OpenCrypt(v, h)' <=> OpenCrypt(v, h)
  BY DEF OpenCrypt
<1>4. LinesOf(lineIndex[m].path)' = LinesOf(lineIndex[m].path)
  BY DEF LinesOf
<1>5. /\ frames \in Seq(Frame) /\ frames # <<>>
      /\ n \in Nat \ {0}
      /\ Current \in Frame
  BY <1>1, <1>2, CurrentTyped DEF IInv, TypeOK, FramesOK
<1>6. \A i \in 1..(n - 1) : ~frames[i].crypt
  BY <1>1 DEF CryptOf
<1>7. \A h \in 1..m :
        OpenCrypt(v, h) =>
          lineIndex[m].local = Len(LinesOf(lineIndex[m].path))
  <2>1. CASE EndOfFile
    <3>1. ~Current.crypt
      BY <2>1 DEF EndOfFile, ExhaustsFile
    <3> QED
      BY <1>1, <3>1 DEF CryptOf
  <2>2. CASE DecryptAtEndOfFile
    <3>1. Current.crypt
      BY <2>2 DEF DecryptAtEndOfFile, InCrypt
    <3>2. lineIndex[m] = Place(Current)
      BY <1>1, <1>2, <3>1 DEF CryptOf
    <3>3. lineIndex[m].local = Current.pos /\ lineIndex[m].path = Current.path
      BY <3>2 DEF Place
    <3> QED
      BY <1>2, <3>3 DEF AtEnd
  <2> QED
    BY <2>1, <2>2
<1>8. /\ status' = "running" => ~Current'.crypt
      /\ \A i \in 1..(Len(frames') - 1) : ~frames'[i].crypt
  <2>1. CASE EndOfFile
    <3>1. /\ frames' = Front(frames)
          /\ n = 1 => status' = "done"
      BY <1>1, <2>1 DEF EndOfFile, Return
    <3>2. /\ frames' \in Seq(Frame)
          /\ Len(frames') = n - 1
          /\ \A i \in 1..(n - 1) : frames'[i] = frames[i]
      BY <1>1, <1>5, <3>1, Pop
    <3>3. ASSUME n # 1
          PROVE  ~Current'.crypt
      <4>1. frames' # <<>> /\ n - 1 \in 1..(n - 1)
        BY <1>5, <3>2, <3>3
      <4>2. Current' = frames'[n - 1]
        BY <3>2, <4>1, TopOf DEF Current
      <4> QED
        BY <1>6, <3>2, <4>1, <4>2
    <3>4. \A i \in 1..((n - 1) - 1) : i \in 1..(n - 1)
      BY <1>5
    <3> QED
      BY <1>6, <3>1, <3>2, <3>3, <3>4
  <2>2. CASE DecryptAtEndOfFile
    <3>1. PICK f : f = [path |-> Current.path, pos |-> Current.pos,
                        crypt |-> FALSE]
      OBVIOUS
    <3>2. frames' = [frames EXCEPT ![Len(frames)] = f]
      BY <2>2, <3>1 DEF DecryptAtEndOfFile
    <3>3. f \in Frame /\ ~f.crypt
      BY <1>5, <3>1 DEF Frame
    <3>4. /\ frames' \in Seq(Frame) /\ frames' # <<>>
          /\ Len(frames') = n
          /\ frames'[n] = f
          /\ \A i \in 1..(n - 1) : frames'[i] = frames[i]
      BY <1>1, <1>5, <3>2, <3>3, ReplaceTop
    <3>5. Current' = f
      BY <3>4, TopOf DEF Current
    <3> QED
      BY <1>6, <3>3, <3>4, <3>5
  <2> QED
    BY <2>1, <2>2
<1> QED
  BY <1>1, <1>3, <1>4, <1>7, <1>8 DEF CryptOf

LEMMA LiveOfLine ==
  ASSUME IInv, NEW v, NEW w, Reading(v, w), NEW m, m = globalLineNo,
         ConditionsOf(v)
  PROVE  (mode.convertSwitch \/ \A h \in Around(w, m + 1) :
                                  Selects(w, h) # InElse(w, h, m + 1))
           <=> isEnabled
<1>1. m \in Nat /\ Len(v) = m /\ Agree(v, w, m)
  BY ReadingFacts
<1>2. CASE mode.convertSwitch
  BY <1>2 DEF ConditionsOf
<1>3. CASE ~mode.convertSwitch
  <2>1. isEnabled <=> \A a \in Around(v, m + 1) : LiveBlock(v, a, m + 1)
    BY <1>1, <1>3 DEF ConditionsOf, AllLive
  <2>2. m + 1 \in 1..(m + 1) /\ \A a \in Around(v, m + 1) :
                                  a \in 1..m /\ a \in 1..((m + 1) - 1)
    BY <1>1 DEF Around
  <2>3. /\ Around(w, m + 1) = Around(v, m + 1)
        /\ \A a \in Around(v, m + 1) :
             /\ Selects(w, a) = Selects(v, a)
             /\ InElse(w, a, m + 1) = InElse(v, a, m + 1)
    BY <1>1, <2>2, AgreeOnBlocks, AgreeOnNames
  <2> QED
    BY <1>3, <2>1, <2>3 DEF LiveBlock
<1> QED
  BY <1>2, <1>3

LEMMA SameVerdict ==
  ASSUME IInv, NEW v, NEW w, Reading(v, w), NEW m, m = globalLineNo,
         NEW g \in 1..m
  PROVE  Verdict(w, g)' = Verdict(w, g)
<1>1. /\ \A k \in 1..m : lineIndex'[k] = lineIndex[k] /\ LineAt(k)' = LineAt(k)
      /\ m \in Nat /\ mode' = mode
  BY ReadingFacts DEF Reading
<1>2. \A k \in 1..g : lineIndex'[k] = lineIndex[k]
  BY <1>1
<1>3. ASSUME NEW h \in 1..(g - 1)
      PROVE  (\A j \in (h + 1)..g :
                lineIndex'[j] = [lineIndex'[h] EXCEPT !.local = @ + (j - h)])
             <=> \A j \in (h + 1)..g :
                   lineIndex[j] = [lineIndex[h] EXCEPT !.local = @ + (j - h)]
  <2>1. h \in 1..g /\ \A j \in (h + 1)..g : j \in 1..g
    BY <1>1
  <2> QED
    BY <1>2, <2>1
<1>4. InBlock(w, g)' = InBlock(w, g)
  BY <1>3 DEF InBlock
<1> QED
  BY <1>1, <1>4 DEF Verdict

LEMMA JudgedNext ==
  ASSUME IInv, NEW v, NEW w, Reading(v, w), CryptOf(v), ConditionsOf(v)
  PROVE  Judged(w)'
<1>1. PICK m : m = globalLineNo
  OBVIOUS
<1>2. /\ m \in Nat /\ Len(v) = m /\ Agree(v, w, m)
      /\ w \in Seq(Judgement) /\ Len(w) = m + 1
      /\ globalLineNo' = m + 1 /\ Len(lineIndex') = m + 1
      /\ LineAt(m + 1)' = CurrentLine
      /\ w[m + 1] \in Judgement
      /\ w[m + 1].line = CurrentLine
      /\ w[m + 1].crypted = Current.crypt
      /\ w[m + 1].live = isEnabled
      /\ \A k \in 1..m : w[k] = v[k]
      /\ isEnabled \in BOOLEAN
  BY <1>1, ReadingFacts
<1>3. ASSUME NEW g \in 1..m
      PROVE  w[g] = Verdict(w, g)'
  <2>1. v[g] = Verdict(v, g)
    BY <1>1 DEF Reading, Judged
  <2>2. Verdict(w, g) = Verdict(v, g)
    <3>1. g \in 1..(m + 1)
      BY <1>2
    <3> QED
      BY <1>2, <3>1, AgreeOnVerdict
  <2>3. Verdict(w, g)' = Verdict(w, g)
    BY <1>1, SameVerdict
  <2> QED
    BY <1>2, <2>1, <2>2, <2>3
<1>4. w[m + 1] = Verdict(w, m + 1)'
  <2>1. PICK g : g = m + 1
    OBVIOUS
  <2>2. InBlock(w, g)' = Current.crypt
    BY <1>1, <2>1, BlockOfLine
  <2>3. (mode.convertSwitch \/ \A h \in Around(w, g) :
                                 Selects(w, h) # InElse(w, h, g)) = isEnabled
    BY <1>1, <1>2, <2>1, LiveOfLine
  <2>4. mode' = mode
    BY DEF Reading
  <2>5. Verdict(w, g)' = [line |-> CurrentLine, crypted |-> Current.crypt,
                          live |-> isEnabled]
    BY <1>2, <2>1, <2>2, <2>3, <2>4 DEF Verdict
  <2>6. w[g] = [line |-> CurrentLine, crypted |-> Current.crypt,
                live |-> isEnabled]
    BY <1>2, <2>1 DEF Judgement
  <2> QED
    BY <2>1, <2>5, <2>6
<1>5. \A g \in 1..(m + 1) : w[g] = Verdict(w, g)'
  <2>1. \A g \in 1..(m + 1) : g \in 1..m \/ g = m + 1
    BY <1>2
  <2> QED
    BY <1>3, <1>4, <2>1
<1> QED
  BY <1>2, <1>5 DEF Judged

-----------------------------------------------------------------------------
(***************************************************************************)
(* What a step that reads a line does to the rest of the state, said by    *)
(* the line's directive.                                                   *)
(***************************************************************************)
TextOfLine ==
  /\ ~Current.crypt
  /\ CASE CurrentLine.dir = "INVALID"     -> isEnabled
       [] CurrentLine.dir = "COND_PRAGMA" -> TRUE
       [] CurrentLine.dir = "INCL"        -> mode.convertIncludeFile
       [] CurrentLine.dir = "DECRYPT"     -> FALSE
       [] OTHER                           -> mode.convertSwitch

TextEffect == \E n : Write(TextOfLine, n)

Obeyed(dirs) ==
  ~Current.crypt /\ ~mode.convertSwitch /\ CurrentLine.dir \in dirs

StackEffect ==
  /\ Obeyed(IfDirs) =>
       /\ CurrentLine.ops \in {1, 2}
       /\ Push(CurrentLine.dir, isEnabled)
       /\ isEnabled' = Selected(IfdefHolds = (CurrentLine.dir = "IFDEF"))
  /\ Obeyed({"ELSE"}) => Turned
  /\ Obeyed({"ENDIF"}) => Ended
  /\ ~Obeyed(ConditionalDirs) => UNCHANGED condVars

NameMade ==
  LET n   == CurrentLine.name
      dir == CurrentLine.dir
  IN  IF dir \in MarkDirs \/ InConditional \/ ~Marked(n)
      THEN SetName(n, dir \notin UndefDirs,
                   IF dir \in UndefDirs THEN EmptyValue ELSE ValueOperand,
                   IF dir \in MarkDirs THEN dir ELSE nameDefinition[n].guiPro)
      ELSE nameDefinition

NamesEffect ==
  nameDefinition' = IF Obeyed(DefinitionDirs) /\ isEnabled THEN NameMade
                    ELSE nameDefinition

EnvEffect ==
  IF ~Current.crypt /\ CurrentLine.dir = "COND_PRAGMA"
  THEN /\ CurrentLine.ops = 2 /\ ~PragmaClashes
       /\ envMap' = [envMap EXCEPT ![CurrentLine.name] = CurrentLine.value]
  ELSE UNCHANGED envMap

FrameEffect ==
  \/ frames' = [frames EXCEPT ![Len(frames)] = AdvancedFrame(CryptAfter)]
  \/ /\ ~CryptAfter
     /\ \E path \in Paths :
          frames' = Append([frames EXCEPT ![Len(frames)] = AdvancedFrame(FALSE)],
                           OpenFrame(path))

LineEffects == TextEffect /\ StackEffect /\ NamesEffect /\ EnvEffect
               /\ FrameEffect

\* A line that no #decrypt block comes before or after.
LEMMA StaysOut ==
  ASSUME ~CryptAfter, TakeLine \/ StayInFile
  PROVE  FrameEffect
<1>1. CryptAfter = FALSE
  BY DEF CryptAfter
<1> QED
  BY <1>1 DEF FrameEffect, TakeLine, StayInFile

LEMMA DefinitionEffects ==
  ASSUME IInv, ~(status' \in {"exited", "aborted"}),
         ProcessDefine \/ ProcessUndefine \/ ProcessRedefine \/ ProcessReundefine
  PROVE  LineEffects /\ status' = "running"
<1>1. PICK dirs, most, effect :
        /\ Definition(dirs, most, effect)
        /\ dirs \subseteq DefinitionDirs
        /\ CurrentLine.dir \in dirs => effect = NameMade
  <2>1. CASE ProcessDefine
    BY <2>1 DEF ProcessDefine, DefinitionDirs, NameMade, MarkDirs, UndefDirs,
                insert_def, insert_def_force
  <2>2. CASE ProcessUndefine
    BY <2>2 DEF ProcessUndefine, DefinitionDirs, NameMade, MarkDirs, UndefDirs,
                insert_undef, insert_undef_force
  <2>3. CASE ProcessRedefine
    BY <2>3 DEF ProcessRedefine, DefinitionDirs, NameMade, MarkDirs, UndefDirs,
                insert_redef
  <2>4. CASE ProcessReundefine
    BY <2>4 DEF ProcessReundefine, DefinitionDirs, NameMade, MarkDirs,
                UndefDirs, insert_reundef
  <2> QED
    BY <2>1, <2>2, <2>3, <2>4
<1>2. /\ Reads(dirs) /\ ~mode.convertSwitch /\ TakeLine
      /\ UNCHANGED envMap /\ UNCHANGED condVars
      /\ nameDefinition' = IF isEnabled THEN effect ELSE nameDefinition
      /\ Write(FALSE, 1)
      /\ NoError
  BY <1>1 DEF Definition, Obeys, Fatal
<1>3. /\ status = "running" /\ ~Current.crypt /\ CurrentLine.dir \in dirs
      /\ CurrentLine.dir \in DefinitionDirs
  BY <1>1, <1>2 DEF Reads
<1>4. ~TextOfLine /\ ~CryptAfter
  BY <1>2, <1>3 DEF TextOfLine, CryptAfter, DefinitionDirs
<1>5. TextEffect
  BY <1>2, <1>4 DEF TextEffect, Write
<1>6. Obeyed(DefinitionDirs) /\ ~Obeyed(ConditionalDirs)
      /\ ~Obeyed(IfDirs) /\ ~Obeyed({"ELSE"}) /\ ~Obeyed({"ENDIF"})
  BY <1>2, <1>3 DEF Obeyed, DefinitionDirs, ConditionalDirs, IfDirs
<1>7. StackEffect
  BY <1>2, <1>6 DEF StackEffect
<1>8. NamesEffect
  BY <1>1, <1>2, <1>3, <1>6 DEF NamesEffect
<1>9. EnvEffect
  BY <1>2, <1>3 DEF EnvEffect, DefinitionDirs
<1>10. FrameEffect
  BY <1>2, <1>4, StaysOut
<1> QED
  BY <1>2, <1>3, <1>5, <1>7, <1>8, <1>9, <1>10 DEF LineEffects, NoError

LEMMA ConditionalEffects ==
  ASSUME IInv, ~(status' \in {"exited", "aborted"}),
         ProcessIfdef \/ ProcessIfndef
  PROVE  LineEffects /\ status' = "running"
<1>1. PICK type, holds : /\ Conditional(type, holds)
                         /\ type \in IfDirs
                         /\ holds = (IfdefHolds = (type = "IFDEF"))
  <2>1. IfdefHolds \in BOOLEAN
    BY DEF IfdefHolds, IInv, TypeOK, NameValue
  <2>2. CASE ProcessIfdef
    <3>1. Conditional("IFDEF", IfdefHolds) /\ "IFDEF" \in IfDirs
          /\ IfdefHolds = (IfdefHolds = ("IFDEF" = "IFDEF"))
      BY <2>1, <2>2 DEF ProcessIfdef, IfDirs
    <3> QED
      BY <3>1
  <2>3. CASE ProcessIfndef
    <3>1. Conditional("IFNDEF", ~IfdefHolds) /\ "IFNDEF" \in IfDirs
          /\ (~IfdefHolds) = (IfdefHolds = ("IFNDEF" = "IFDEF"))
      BY <2>1, <2>3 DEF ProcessIfndef, IfDirs
    <3> QED
      BY <3>1
  <2> QED
    BY <2>2, <2>3
<1>2. /\ Reads({type}) /\ ~mode.convertSwitch /\ TakeLine
      /\ UNCHANGED envMap /\ UNCHANGED nameDefinition
      /\ Push(type, isEnabled)
      /\ CurrentLine.ops \in {1, 2}
      /\ isEnabled' = Selected(holds)
      /\ Write(FALSE, 1)
      /\ NoError
  BY <1>1 DEF Conditional, Obeys, Fatal
<1>3. /\ status = "running" /\ ~Current.crypt /\ CurrentLine.dir = type
  BY <1>1, <1>2 DEF Reads
<1>4. ~TextOfLine /\ ~CryptAfter
  BY <1>1, <1>2, <1>3 DEF TextOfLine, CryptAfter, IfDirs
<1>5. TextEffect
  BY <1>2, <1>4 DEF TextEffect, Write
<1>6. /\ ~Obeyed({"ELSE"}) /\ ~Obeyed({"ENDIF"}) /\ ~Obeyed(DefinitionDirs)
      /\ Obeyed(ConditionalDirs)
  BY <1>1, <1>2, <1>3 DEF Obeyed, DefinitionDirs, ConditionalDirs, IfDirs
<1>7. StackEffect
  BY <1>1, <1>2, <1>3, <1>6 DEF StackEffect
<1>8. NamesEffect
  BY <1>2, <1>6 DEF NamesEffect
<1>9. EnvEffect
  BY <1>1, <1>2, <1>3 DEF EnvEffect, IfDirs
<1>10. FrameEffect
  BY <1>2, <1>4, StaysOut
<1> QED
  BY <1>2, <1>3, <1>5, <1>7, <1>8, <1>9, <1>10 DEF LineEffects, NoError

LEMMA BranchEffects ==
  ASSUME IInv, ~(status' \in {"exited", "aborted"}),
         ProcessElse \/ ProcessEndif
  PROVE  LineEffects /\ status' = "running"
<1>1. PICK dir \in {"ELSE", "ENDIF"} :
        /\ Obeys({dir}) /\ UNCHANGED nameDefinition
        /\ Write(FALSE, 1)
        /\ NoError
        /\ dir = "ELSE" => Turned
        /\ dir = "ENDIF" => Ended
  <2>1. CASE ProcessElse
    <3>1. /\ Obeys({"ELSE"}) /\ UNCHANGED nameDefinition
          /\ Write(FALSE, 1) /\ NoError /\ Turned
      BY <2>1 DEF ProcessElse, Fatal, Turned
    <3> QED
      BY <3>1
  <2>2. CASE ProcessEndif
    <3>1. /\ Obeys({"ENDIF"}) /\ UNCHANGED nameDefinition
          /\ Write(FALSE, 1) /\ NoError /\ Ended
      BY <2>2 DEF ProcessEndif, Fatal, Ended
    <3> QED
      BY <3>1
  <2> QED
    BY <2>1, <2>2
<1>2. /\ Reads({dir}) /\ ~mode.convertSwitch /\ TakeLine
      /\ UNCHANGED envMap
  BY <1>1 DEF Obeys
<1>3. /\ status = "running" /\ ~Current.crypt /\ CurrentLine.dir = dir
  BY <1>1, <1>2 DEF Reads
<1>4. ~TextOfLine /\ ~CryptAfter
  BY <1>1, <1>2, <1>3 DEF TextOfLine, CryptAfter
<1>5. TextEffect
  BY <1>1, <1>4 DEF TextEffect, Write
<1>6. /\ ~Obeyed(IfDirs) /\ ~Obeyed(DefinitionDirs) /\ Obeyed(ConditionalDirs)
      /\ Obeyed({"ELSE"}) => dir = "ELSE"
      /\ Obeyed({"ENDIF"}) => dir = "ENDIF"
  BY <1>1, <1>2, <1>3 DEF Obeyed, DefinitionDirs, ConditionalDirs, IfDirs
<1>7. StackEffect
  BY <1>1, <1>6 DEF StackEffect
<1>8. NamesEffect
  BY <1>1, <1>6 DEF NamesEffect
<1>9. EnvEffect
  BY <1>1, <1>2, <1>3 DEF EnvEffect
<1>10. FrameEffect
  BY <1>2, <1>4, StaysOut
<1> QED
  BY <1>1, <1>3, <1>5, <1>7, <1>8, <1>9, <1>10 DEF LineEffects, NoError

\* A line that is no directive of these changes neither stack nor names.
LEMMA OtherLine ==
  ASSUME ~(Obeyed(ConditionalDirs) \/ Obeyed(DefinitionDirs)),
         UNCHANGED condVars, UNCHANGED nameDefinition
  PROVE  StackEffect /\ NamesEffect
<1>1. ~Obeyed(IfDirs) /\ ~Obeyed({"ELSE"}) /\ ~Obeyed({"ENDIF"})
  BY DEF Obeyed, ConditionalDirs, IfDirs
<1> QED
  BY <1>1 DEF StackEffect, NamesEffect

LEMMA CopyEffects ==
  ASSUME IInv, ~(status' \in {"exited", "aborted"}),
         CopyText \/ EchoDirective \/ ProcessPragma
  PROVE  LineEffects /\ status' = "running"
<1>1. /\ Copies
      /\ status = "running" /\ ~Current.crypt
  BY DEF CopyText, EchoDirective, ProcessPragma, Reads, Fatal
<1>2. /\ TakeLine /\ NoError
      /\ UNCHANGED nameDefinition /\ UNCHANGED condVars
  BY <1>1 DEF Copies
<1>3. /\ EnvEffect
      /\ ~(Obeyed(ConditionalDirs) \/ Obeyed(DefinitionDirs))
      /\ CurrentLine.dir # "DECRYPT"
      /\ Write(TextOfLine, 1)
  <2>1. CASE CopyText
    <3>1. CurrentLine.dir = "INVALID" /\ UNCHANGED envMap /\ Write(isEnabled, 1)
      BY <2>1 DEF CopyText, Reads
    <3>2. TextOfLine = isEnabled
      BY <1>1, <3>1 DEF TextOfLine, IInv, TypeOK
    <3> QED
      BY <3>1, <3>2 DEF EnvEffect, Obeyed, ConditionalDirs, DefinitionDirs
  <2>2. CASE EchoDirective
    <3>1. /\ \/ /\ CurrentLine.dir \in ConditionalDirs \cup DefinitionDirs
                /\ mode.convertSwitch
             \/ CurrentLine.dir = "ENDCRYPT"
          /\ UNCHANGED envMap
          /\ Write(mode.convertSwitch, 1)
      BY <2>2 DEF EchoDirective, Reads
    <3>2. TextOfLine = mode.convertSwitch
      <4>1. mode.convertSwitch \in BOOLEAN
        BY DEF IInv, TypeOK, Mode
      <4> QED
        BY <1>1, <3>1, <4>1 DEF TextOfLine, ConditionalDirs, DefinitionDirs
    <3> QED
      BY <3>1, <3>2 DEF EnvEffect, Obeyed, ConditionalDirs, DefinitionDirs
  <2>3. CASE ProcessPragma
    <3>1. /\ CurrentLine.dir = "COND_PRAGMA"
          /\ CurrentLine.ops = 2 /\ ~PragmaClashes
          /\ envMap' = [envMap EXCEPT ![CurrentLine.name] = CurrentLine.value]
          /\ Write(TRUE, 1)
      BY <2>3 DEF ProcessPragma, Reads, Fatal
    <3>2. TextOfLine = TRUE
      BY <1>1, <3>1 DEF TextOfLine
    <3> QED
      BY <1>1, <3>1, <3>2 DEF EnvEffect, Obeyed, ConditionalDirs, DefinitionDirs
  <2> QED
    BY <2>1, <2>2, <2>3
<1>4. ~CryptAfter
  BY <1>1, <1>3 DEF CryptAfter
<1>5. TextEffect /\ StackEffect /\ NamesEffect /\ FrameEffect
  BY <1>2, <1>3, <1>4, OtherLine, StaysOut DEF TextEffect
<1> QED
  BY <1>1, <1>2, <1>3, <1>5 DEF LineEffects, NoError

LEMMA IncludeEffects ==
  ASSUME IInv, ~(status' \in {"exited", "aborted"}),
         \/ IncludeDisabled \/ IncludeRejected \/ IncludeUnreadable
         \/ IncludeTvfFails \/ ProcessInclude \/ ConvertInclude
  PROVE  LineEffects /\ status' = "running"
<1>1. /\ Reads({"INCL"})
      /\ UNCHANGED <<nameDefinition, envMap>> /\ UNCHANGED condVars
      /\ UNCHANGED status
      /\ \E n : Write(mode.convertIncludeFile, n)
      /\ \/ TakeLine \/ StayInFile
         \/ frames' = Append([frames EXCEPT ![Len(frames)] = AdvancedFrame(FALSE)],
                             OpenFrame(Included))
  <2>0. mode.convertIncludeFile \in BOOLEAN
    BY DEF IInv, TypeOK, Mode
  <2>1. CASE ConvertInclude
    <3>1. mode.convertIncludeFile = TRUE /\ Write(TRUE, IncludeNewlines)
      BY <2>0, <2>1 DEF ConvertInclude
    <3>2. \E n : Write(mode.convertIncludeFile, n)
      BY <3>1
    <3> QED
      BY <2>1, <3>2 DEF ConvertInclude
  <2>2. CASE ~ConvertInclude
    <3>1. IncludeFrame
      BY <2>2 DEF IncludeDisabled, IncludeRejected, IncludeUnreadable,
                  IncludeTvfFails, ProcessInclude, Accepts
    <3>2. mode.convertIncludeFile = FALSE /\ Write(FALSE, 1)
      BY <2>0, <3>1 DEF IncludeFrame
    <3>3. \E n : Write(mode.convertIncludeFile, n)
      BY <3>2
    <3>4. UNCHANGED status
      BY <2>2 DEF IncludeDisabled, IncludeRejected, IncludeUnreadable,
                  IncludeTvfFails, ProcessInclude, NoError, Fatal
    <3>5. \/ StayInFile
          \/ frames' = Append([frames EXCEPT
                                 ![Len(frames)] = AdvancedFrame(FALSE)],
                              OpenFrame(Included))
      BY <2>2 DEF IncludeDisabled, IncludeRejected, IncludeUnreadable,
                  IncludeTvfFails, ProcessInclude
    <3> QED
      BY <3>1, <3>3, <3>4, <3>5 DEF IncludeFrame
  <2> QED
    BY <2>1, <2>2
<1>2. /\ status = "running" /\ ~Current.crypt /\ CurrentLine.dir = "INCL"
      /\ Included \in Paths
  BY <1>1, ReadsTyped DEF Reads, Included
<1>3. TextOfLine = mode.convertIncludeFile /\ ~CryptAfter
  BY <1>2 DEF TextOfLine, CryptAfter, IInv, TypeOK, Mode
<1>4. TextEffect /\ EnvEffect
  BY <1>1, <1>2, <1>3 DEF TextEffect, EnvEffect
<1>5. ~(Obeyed(ConditionalDirs) \/ Obeyed(DefinitionDirs))
  BY <1>2 DEF Obeyed, ConditionalDirs, DefinitionDirs
<1>6. StackEffect /\ NamesEffect
  BY <1>1, <1>5, OtherLine
<1>7. FrameEffect
  <2>1. CASE TakeLine \/ StayInFile
    BY <1>3, <2>1, StaysOut
  <2>2. CASE frames' = Append([frames EXCEPT
                                 ![Len(frames)] = AdvancedFrame(FALSE)],
                              OpenFrame(Included))
    BY <1>2, <1>3, <2>2 DEF FrameEffect
  <2> QED
    BY <1>1, <2>1, <2>2
<1> QED
  BY <1>1, <1>2, <1>4, <1>6, <1>7 DEF LineEffects

LEMMA CryptEffects ==
  ASSUME IInv, ProcessDecrypt \/ SkipCrypted
  PROVE  LineEffects /\ status' = "running"
<1>1. /\ status = "running" /\ KeepState
      /\ Write(FALSE, 1)
      /\ Current.crypt \/ CurrentLine.dir = "DECRYPT"
      /\ CryptFrame(CryptAfter)
  <2>1. CASE ProcessDecrypt
    <3>1. ~Current.crypt /\ CurrentLine.dir = "DECRYPT" /\ status = "running"
      BY <2>1 DEF ProcessDecrypt, Reads
    <3>2. CryptAfter = TRUE
      BY <3>1 DEF CryptAfter
    <3> QED
      BY <2>1, <3>1, <3>2 DEF ProcessDecrypt
  <2>2. CASE SkipCrypted
    <3>1. Current.crypt /\ status = "running"
      BY <2>2 DEF SkipCrypted, InCrypt
    <3>2. CryptAfter = (CurrentLine.dir # "ENDCRYPT")
      BY <3>1 DEF CryptAfter
    <3> QED
      BY <2>2, <3>1, <3>2 DEF SkipCrypted
  <2> QED
    BY <2>1, <2>2
<1>2. ~TextOfLine
  BY <1>1 DEF TextOfLine
<1>3. TextEffect
  BY <1>1, <1>2 DEF TextEffect, Write
<1>4. ~(Obeyed(ConditionalDirs) \/ Obeyed(DefinitionDirs)) /\ EnvEffect
  BY <1>1 DEF Obeyed, ConditionalDirs, DefinitionDirs, EnvEffect, KeepState
<1>5. StackEffect /\ NamesEffect
  BY <1>1, <1>4, OtherLine DEF KeepState
<1>6. FrameEffect
  BY <1>1 DEF FrameEffect, CryptFrame
<1> QED
  BY <1>1, <1>3, <1>4, <1>5, <1>6 DEF LineEffects, KeepState

LEMMA EffectsOfLine ==
  ASSUME IInv, ReadsLine \/ ProcessInclude,
         ~(status' \in {"exited", "aborted"})
  PROVE  LineEffects /\ status' = "running"
BY DefinitionEffects, ConditionalEffects, BranchEffects, CopyEffects,
   IncludeEffects, CryptEffects DEF ReadsLine

\* A line at which the run stops is not written.
LEMMA StopsUnwritten ==
  ASSUME ReadsLine \/ ProcessInclude, status = "running",
         status' \in {"exited", "aborted"}
  PROVE  out' = out
<1>1. CASE ProcessDefine \/ ProcessUndefine \/ ProcessRedefine
           \/ ProcessReundefine
  BY <1>1 DEF ProcessDefine, ProcessUndefine, ProcessRedefine,
              ProcessReundefine, Definition, Write, WriteNothing
<1>2. CASE ProcessIfdef \/ ProcessIfndef \/ ProcessElse \/ ProcessEndif
  BY <1>2 DEF ProcessIfdef, ProcessIfndef, ProcessElse, ProcessEndif,
              Conditional, Write, WriteNothing
<1>3. CASE CopyText \/ EchoDirective \/ ProcessPragma
  BY <1>3 DEF CopyText, EchoDirective, ProcessPragma, Copies, NoError,
              WriteNothing
<1>4. CASE IncludeDisabled \/ IncludeRejected \/ IncludeUnreadable
           \/ IncludeTvfFails \/ ProcessInclude
  <2>1. IncludeFrame
    BY <1>4 DEF IncludeDisabled, IncludeRejected, IncludeUnreadable,
                IncludeTvfFails, ProcessInclude, Accepts
  <2> QED
    BY <2>1 DEF IncludeFrame, Write
<1>5. CASE ConvertInclude
  BY <1>5 DEF ConvertInclude, WriteNothing
<1>6. CASE ProcessDecrypt \/ SkipCrypted
  BY <1>6 DEF ProcessDecrypt, SkipCrypted, Write
<1> QED
  BY <1>1, <1>2, <1>3, <1>4, <1>5, <1>6 DEF ReadsLine

-----------------------------------------------------------------------------
(***************************************************************************)
(* What has been written.                                                  *)
(***************************************************************************)
LEMMA ExpectedOfLine ==
  ASSUME IInv, NEW v, NEW w, Reading(v, w), NEW m, m = globalLineNo
  PROVE  /\ \A g \in 1..m : Expected(w, g)' = Expected(v, g)
         /\ Expected(w, m + 1)' = TextOfLine
<1>1. /\ \A k \in 1..m : w[k] = v[k]
      /\ w[m + 1].line = CurrentLine
      /\ w[m + 1].crypted = Current.crypt
      /\ w[m + 1].live = isEnabled
  BY ReadingFacts
<1>0. mode' = mode
  BY DEF Reading
<1>2. \A g \in 1..m : Expected(w, g)' = Expected(v, g)
  BY <1>0, <1>1 DEF Expected
<1>3. PICK g : g = m + 1
  OBVIOUS
<1>4. Expected(w, g)' = TextOfLine
  BY <1>0, <1>1, <1>3 DEF Expected, TextOfLine
<1> QED
  BY <1>2, <1>3, <1>4

LEMMA WrittenLine ==
  ASSUME IInv, NEW v, NEW w, Reading(v, w), Written(v),
         TextEffect, status' = "running"
  PROVE  Written(w)'
<1>1. PICK m, k : m = globalLineNo /\ k = Len(out)
  OBVIOUS
<1>2. /\ m \in Nat /\ globalLineNo' = m + 1
      /\ \A g \in 1..m : Expected(w, g)' = Expected(v, g)
      /\ Expected(w, m + 1)' = TextOfLine
  BY <1>1, ReadingFacts, ExpectedOfLine
<1>3. Done = m /\ Done' = m + 1
  BY <1>1, <1>2 DEF Done, Stopped, Reading
<1>4. \A g : g \in 1..(m + 1) <=> g \in 1..m \/ g = m + 1
  BY <1>2
<1>5. {out[i].global : i \in DOMAIN out} = {g \in 1..m : Expected(v, g)}
  BY <1>3 DEF Written
<1>6. {out'[i].global : i \in DOMAIN out'} =
        {out[i].global : i \in DOMAIN out}
          \cup (IF TextOfLine THEN {m + 1} ELSE {})
  <2>1. PICK e : e = [at |-> newlines + 1, global |-> m + 1]
    OBVIOUS
  <2>2. out' = IF TextOfLine THEN Append(out, e) ELSE out
    BY <1>2, <2>1 DEF TextEffect, Write
  <2>3. CASE ~TextOfLine
    BY <2>2, <2>3
  <2>4. CASE TextOfLine
    <3>1. /\ out \in Seq([at : Nat, global : Nat]) /\ newlines \in Nat
      BY DEF IInv, TypeOK
    <3>2. e \in [at : Nat, global : Nat] /\ e.global = m + 1
      BY <1>2, <2>1, <3>1
    <3>3. /\ out' \in Seq([at : Nat, global : Nat])
          /\ Len(out') = k + 1
          /\ out'[k + 1] = e
          /\ \A i \in 1..k : out'[i] = out[i]
      BY <1>1, <2>2, <2>4, <3>1, <3>2, PushOn
    <3>4. DOMAIN out = 1..k /\ DOMAIN out' = 1..(k + 1) /\ k \in Nat
      BY <1>1, <3>1, <3>3, LenProperties
    <3>5. \A i : i \in 1..(k + 1) <=> i \in 1..k \/ i = k + 1
      BY <3>4
    <3>6. \A i \in 1..k : out'[i].global = out[i].global
      BY <3>3
    <3>7. {out'[i].global : i \in 1..(k + 1)} =
            {out'[i].global : i \in 1..k} \cup {out'[k + 1].global}
      BY <3>5
    <3>8. {out'[i].global : i \in 1..k} = {out[i].global : i \in 1..k}
      BY <3>6
    <3> QED
      BY <2>4, <3>2, <3>3, <3>4, <3>7, <3>8
  <2> QED
    BY <2>3, <2>4
<1>7. {g \in 1..(m + 1) : Expected(w, g)'} =
        {g \in 1..m : Expected(v, g)}
          \cup (IF TextOfLine THEN {m + 1} ELSE {})
  <2>1. ASSUME NEW g
        PROVE  (g \in 1..(m + 1) /\ Expected(w, g)') <=>
                 \/ g \in 1..m /\ Expected(v, g)
                 \/ g = m + 1 /\ TextOfLine
    BY <1>2, <1>4
  <2> QED
    BY <2>1
<1> QED
  BY <1>3, <1>5, <1>6, <1>7 DEF Written

LEMMA WrittenStop ==
  ASSUME IInv, NEW v, NEW w, Reading(v, w), Written(v),
         out' = out, status' \in {"exited", "aborted"}
  PROVE  Written(w)'
<1>1. PICK m : m = globalLineNo
  OBVIOUS
<1>2. /\ m \in Nat /\ globalLineNo' = m + 1
      /\ \A g \in 1..m : Expected(w, g)' = Expected(v, g)
  BY <1>1, ReadingFacts, ExpectedOfLine
<1>3. Done = m /\ Done' = m
  BY <1>1, <1>2 DEF Done, Stopped, Reading
<1>4. {g \in 1..m : Expected(w, g)'} = {g \in 1..m : Expected(v, g)}
  BY <1>2
<1> QED
  BY <1>3, <1>4 DEF Written

-----------------------------------------------------------------------------
(***************************************************************************)
(* The #pragma env variables.                                              *)
(***************************************************************************)
LEMMA EnvOfLine ==
  ASSUME IInv, NEW v, NEW w, Reading(v, w), EnvOf(v), EnvEffect
  PROVE  EnvOf(w)'
<1>1. PICK m : m = globalLineNo
  OBVIOUS
<1>2. /\ m \in Nat /\ Len(v) = m /\ Len(w) = m + 1 /\ Agree(v, w, m)
      /\ \A k \in 1..m : w[k] = v[k] /\ v[k] \in Judgement
      /\ w[m + 1].line = CurrentLine
      /\ w[m + 1].crypted = Current.crypt
      /\ CurrentLine \in Line
  BY <1>1, ReadingFacts
<1>3. \A k : k \in 1..(m + 1) <=> k \in 1..m \/ k = m + 1
  BY <1>2
<1>4. \A k \in 1..m : Plain(w, k, {"COND_PRAGMA"}) <=> Plain(v, k, {"COND_PRAGMA"})
  BY <1>2, AgreeOnBlocks
<1>5. Plain(w, m + 1, {"COND_PRAGMA"}) <=>
        ~Current.crypt /\ CurrentLine.dir = "COND_PRAGMA"
  BY <1>2 DEF Plain
<1> SUFFICES ASSUME NEW n \in DollarNames
             PROVE  /\ \A j \in 1..(m + 1) :
                         Plain(w, j, {"COND_PRAGMA"}) /\ w[j].line.name = n =>
                           w[j].line.value = envMap'[n]
                    /\ (\A j \in 1..(m + 1) :
                          ~(Plain(w, j, {"COND_PRAGMA"}) /\ w[j].line.name = n))
                         => envMap'[n] = NoValue
  BY <1>2 DEF EnvOf
<1>6. /\ \A j \in 1..m :
           Plain(v, j, {"COND_PRAGMA"}) /\ v[j].line.name = n =>
             v[j].line.value = envMap[n]
      /\ (\A j \in 1..m :
            ~(Plain(v, j, {"COND_PRAGMA"}) /\ v[j].line.name = n))
           => envMap[n] = NoValue
  BY <1>2 DEF EnvOf
<1>7. CASE ~(~Current.crypt /\ CurrentLine.dir = "COND_PRAGMA"
             /\ CurrentLine.name = n)
  <2>1. envMap'[n] = envMap[n]
    <3>1. envMap \in [DollarNames -> Values \cup {NoValue}]
      BY DEF IInv, TypeOK
    <3> QED
      BY <1>7, <3>1 DEF EnvEffect
  <2>2. ~(Plain(w, m + 1, {"COND_PRAGMA"}) /\ w[m + 1].line.name = n)
    BY <1>2, <1>5, <1>7
  <2> QED
    BY <1>2, <1>3, <1>4, <1>6, <2>1, <2>2
<1>8. CASE ~Current.crypt /\ CurrentLine.dir = "COND_PRAGMA"
           /\ CurrentLine.name = n
  <2>1. /\ envMap'[n] = CurrentLine.value
        /\ envMap[n] \in {NoValue, CurrentLine.value}
    <3>1. envMap \in [DollarNames -> Values \cup {NoValue}]
      BY DEF IInv, TypeOK
    <3> QED
      BY <1>8, <3>1 DEF EnvEffect, PragmaClashes
  <2>2. ASSUME NEW j \in 1..m, Plain(w, j, {"COND_PRAGMA"}),
               w[j].line.name = n
        PROVE  w[j].line.value = envMap'[n]
    <3>1. v[j].line.value = envMap[n] /\ v[j].line.value = w[j].line.value
      BY <1>2, <1>4, <1>6, <2>2
    <3>2. v[j].line.value \in Values
      BY <1>2 DEF Judgement, Line
    <3> QED
      BY <2>1, <3>1, <3>2, ConstantsTyped
  <2>3. w[m + 1].line.value = envMap'[n]
    BY <1>2, <2>1
  <2>4. Plain(w, m + 1, {"COND_PRAGMA"}) /\ w[m + 1].line.name = n
    BY <1>2, <1>5, <1>8
  <2> QED
    BY <1>3, <2>2, <2>3, <2>4
<1> QED
  BY <1>7, <1>8

\* What a variable is at the next line.
LEMMA EnvironmentAt ==
  ASSUME NEW v, EnvOf(v), NEW m \in Nat, Len(v) = m, NEW n \in DollarNames
  PROVE  EnvAt(v, m + 1, n) = GetEnv(n)
<1> DEFINE sets == {j \in 1..((m + 1) - 1) : /\ Plain(v, j, {"COND_PRAGMA"})
                                            /\ v[j].line.name = n}
<1>1. (m + 1) - 1 = m
  OBVIOUS
<1>2. ASSUME sets = {}
      PROVE  envMap[n] = NoValue
  BY <1>1, <1>2 DEF EnvOf
<1>3. ASSUME sets # {}
      PROVE  v[Min(sets)].line.value = envMap[n]
  <2>1. sets \in SUBSET Nat /\ \A j \in sets : v[j].line.value = envMap[n]
    BY <1>1 DEF EnvOf
  <2> HIDE DEF sets
  <2>2. Min(sets) \in sets
    BY <1>3, <2>1, MinIn
  <2> QED
    BY <2>1, <2>2
<1>4. EnvAt(v, m + 1, n) =
        IF Env[n] # NoValue THEN Env[n]
        ELSE IF sets = {} THEN NoValue ELSE v[Min(sets)].line.value
  BY DEF EnvAt
<1> HIDE DEF sets
<1> QED
  BY <1>2, <1>3, <1>4 DEF GetEnv

-----------------------------------------------------------------------------
(***************************************************************************)
(* The names.                                                              *)
(***************************************************************************)
LEMMA ValueOfName ==
  ASSUME NEW v, EnvOf(v), NEW m \in Nat, Len(v) = m, NEW n, NameOf(v, n)
  PROVE  /\ nameDefinition[n].known <=> \E j \in 1..m : Sets(v, j, n)
         /\ ValueAt(v, m + 1, n) =
              IF nameDefinition[n].known
              THEN IF nameDefinition[n].isDefined THEN nameDefinition[n].sValue
                                                  ELSE NoValue
              ELSE IF n \in DollarNames THEN GetEnv(n) ELSE NoValue
<1> DEFINE sets == {j \in 1..((m + 1) - 1) : Sets(v, j, n)}
           last == v[Max(sets)].line
<1>1. (m + 1) - 1 = m
  OBVIOUS
<1>2. nameDefinition[n].known <=> \E j \in 1..m : Sets(v, j, n)
  BY DEF NameOf
<1>3. nameDefinition[n].known <=> sets # {}
  BY <1>1, <1>2
<1>4. ValueAt(v, m + 1, n) =
        IF sets = {} THEN IF n \in DollarNames THEN EnvAt(v, m + 1, n)
                                               ELSE NoValue
        ELSE IF last.dir \in {"UNDEFINE", "REUNDEFINE"} THEN NoValue
        ELSE IF last.ops = 2 THEN last.value ELSE EmptyValue
  BY DEF ValueAt
<1>5. ASSUME sets # {}
      PROVE  LastSets(v, Max(sets), n)
  <2>1. \A j : j \in sets <=> j \in 1..m /\ Sets(v, j, n)
    BY <1>1
  <2>2. sets \subseteq 1..m
    BY <1>1
  <2> HIDE DEF sets
  <2>3. Max(sets) \in sets /\ \A y \in sets : y <= Max(sets)
    BY <1>5, <2>2, LastOfSegment
  <2> QED
    BY <2>1, <2>3 DEF LastSets
<1> HIDE DEF sets
<1>6. ASSUME sets # {}
      PROVE  /\ nameDefinition[n].isDefined <=> last.dir \notin UndefDirs
             /\ last.dir \notin UndefDirs =>
                  nameDefinition[n].sValue =
                    (IF last.ops = 2 THEN last.value ELSE EmptyValue)
  BY <1>5, <1>6 DEF NameOf
<1>7. n \in DollarNames => EnvAt(v, m + 1, n) = GetEnv(n)
  BY EnvironmentAt
<1> HIDE DEF last
<1> QED
  BY <1>2, <1>3, <1>4, <1>6, <1>7 DEF UndefDirs

LEMMA HoldsAt ==
  ASSUME IInv, NEW v, NEW w, Reading(v, w), NEW m, m = globalLineNo,
         EnvOf(v), NameOf(v, CurrentLine.name), CurrentLine.ops \in {1, 2}
  PROVE  Selects(w, m + 1) = (IfdefHolds = (CurrentLine.dir = "IFDEF"))
<1>1. /\ m \in Nat /\ Len(v) = m /\ Agree(v, w, m)
      /\ w[m + 1].line = CurrentLine
      /\ CurrentLine \in Line
  BY ReadingFacts
<1>2. PICK n : n = CurrentLine.name
  OBVIOUS
<1>3. n \in Names /\ CurrentLine.value \in Values
  BY <1>1, <1>2 DEF Line
<1> DEFINE known == nameDefinition[n].known
           value == ValueAt(w, m + 1, n)
           given == \E j \in 1..((m + 1) - 1) : Sets(w, j, n)
<1>4. /\ known <=> given
      /\ value = IF known THEN IF nameDefinition[n].isDefined
                               THEN nameDefinition[n].sValue ELSE NoValue
                 ELSE IF n \in DollarNames THEN GetEnv(n) ELSE NoValue
  <2>1. ValueAt(w, m + 1, n) = ValueAt(v, m + 1, n)
    <3>1. m + 1 \in 1..(m + 1)
      BY <1>1
    <3> QED
      BY <1>1, <3>1, AgreeOnNames
  <2>2. \A j \in 1..m : Sets(w, j, n) <=> Sets(v, j, n)
    BY <1>1, AgreeOnNames
  <2>3. (m + 1) - 1 = m
    BY <1>1
  <2>4. given <=> \E j \in 1..m : Sets(v, j, n)
    BY <2>2, <2>3
  <2>5. /\ known <=> \E j \in 1..m : Sets(v, j, n)
        /\ ValueAt(v, m + 1, n) =
             IF known THEN IF nameDefinition[n].isDefined
                           THEN nameDefinition[n].sValue ELSE NoValue
             ELSE IF n \in DollarNames THEN GetEnv(n) ELSE NoValue
    BY <1>1, <1>2, ValueOfName
  <2> QED
    BY <2>1, <2>4, <2>5
<1>5. /\ nameDefinition[n].sValue \in Values
      /\ known \in BOOLEAN /\ nameDefinition[n].isDefined \in BOOLEAN
  <2>1. nameDefinition[n] \in NameValue
    BY <1>3 DEF IInv, TypeOK
  <2> QED
    BY <2>1 DEF NameValue
<1>6. Selects(w, m + 1) =
        ((IF CurrentLine.ops = 2 THEN value = CurrentLine.value
          ELSE value # NoValue /\ (given \/ value # EmptyValue))
           = (CurrentLine.dir = "IFDEF"))
  BY <1>1, <1>2 DEF Selects
<1>7. IfdefHolds =
        IF known
        THEN /\ nameDefinition[n].isDefined
             /\ \/ CurrentLine.ops = 1
                \/ nameDefinition[n].sValue = CurrentLine.value
        ELSE /\ n \in DollarNames
             /\ IF CurrentLine.ops = 1
                THEN GetEnv(n) \notin {NoValue, EmptyValue}
                ELSE GetEnv(n) = CurrentLine.value
  BY <1>2 DEF IfdefHolds
<1> HIDE DEF known, value, given
<1>8. (IF CurrentLine.ops = 2 THEN value = CurrentLine.value
       ELSE value # NoValue /\ (given \/ value # EmptyValue)) <=> IfdefHolds
  <2>1. NoValue \notin Values
    BY ConstantsTyped
  <2>2. CASE known
    BY <1>3, <1>4, <1>5, <1>7, <2>1, <2>2
  <2>3. CASE ~known
    BY <1>3, <1>4, <1>5, <1>7, <2>1, <2>3
  <2> QED
    BY <2>2, <2>3
<1>9. IfdefHolds \in BOOLEAN
  BY <1>5, <1>7
<1> QED
  BY <1>6, <1>8, <1>9

\* What the line that is read sets.
LEMMA SetsOfLine ==
  ASSUME IInv, NEW v, NEW w, Reading(v, w), NEW m, m = globalLineNo,
         ~mode.convertSwitch, NEW n, NameOf(v, n),
         (Around(v, m + 1) = {}) <=> ~InConditional
  PROVE  /\ Sets(w, m + 1, n) <=>
              /\ Obeyed(DefinitionDirs) /\ isEnabled /\ CurrentLine.name = n
              /\ CurrentLine.dir \in MarkDirs \/ InConditional \/ ~Marked(n)
         /\ NamesLive(w, m + 1, n, MarkDirs) <=>
              /\ Obeyed(DefinitionDirs) /\ isEnabled /\ CurrentLine.name = n
              /\ CurrentLine.dir \in MarkDirs
<1>1. /\ m \in Nat /\ Len(v) = m /\ Agree(v, w, m)
      /\ w[m + 1].line = CurrentLine
      /\ w[m + 1].crypted = Current.crypt
      /\ w[m + 1].live = isEnabled
  BY ReadingFacts
<1>2. m + 1 \in 1..(m + 1) /\ (m + 1) - 1 = m
  BY <1>1
<1>3. Around(w, m + 1) = Around(v, m + 1)
  BY <1>1, <1>2, AgreeOnBlocks
<1>4. (\E k \in 1..((m + 1) - 1) : NamesLive(w, k, n, MarkDirs)) <=> Marked(n)
  <2>1. \A k \in 1..m : NamesLive(w, k, n, MarkDirs) <=> NamesLive(v, k, n, MarkDirs)
    BY <1>1, AgreeOnNames
  <2> QED
    BY <1>1, <1>2, <2>1 DEF NameOf
<1>5. \A dirs : NamesLive(w, m + 1, n, dirs) <=>
                  /\ ~Current.crypt /\ CurrentLine.dir \in dirs
                  /\ isEnabled /\ CurrentLine.name = n
  BY <1>1 DEF NamesLive, Plain
<1>6. CurrentLine.dir \in MarkDirs => CurrentLine.dir \in DefinitionDirs
  BY DEF MarkDirs, DefinitionDirs
<1>7. Sets(w, m + 1, n) <=>
        /\ NamesLive(w, m + 1, n, DefinitionDirs)
        /\ \/ CurrentLine.dir \in MarkDirs
           \/ Around(w, m + 1) # {}
           \/ ~\E k \in 1..((m + 1) - 1) : NamesLive(w, k, n, MarkDirs)
  BY <1>1 DEF Sets
<1> QED
  BY <1>3, <1>4, <1>5, <1>6, <1>7 DEF Obeyed

LEMMA NameOfLine ==
  ASSUME IInv, NEW v, NEW w, Reading(v, w), ~mode.convertSwitch, NamesEffect,
         NEW n \in Names, NameOf(v, n),
         (Around(v, globalLineNo + 1) = {}) <=> ~InConditional
  PROVE  NameOf(w, n)'
<1>1. PICK m : m = globalLineNo
  OBVIOUS
<1>2. /\ m \in Nat /\ Len(v) = m /\ Len(w) = m + 1 /\ Agree(v, w, m)
      /\ \A k \in 1..m : w[k] = v[k]
      /\ w[m + 1].line = CurrentLine
  BY <1>1, ReadingFacts
<1>3. \A k : k \in 1..(m + 1) <=> k \in 1..m \/ k = m + 1
  BY <1>2
<1>4. \A j \in 1..m : /\ NamesLive(w, j, n, MarkDirs) <=> NamesLive(v, j, n, MarkDirs)
                      /\ Sets(w, j, n) <=> Sets(v, j, n)
  BY <1>2, AgreeOnNames
<1> DEFINE Named == Obeyed(DefinitionDirs) /\ isEnabled /\ CurrentLine.name = n
           Given == CurrentLine.dir \in MarkDirs \/ InConditional \/ ~Marked(n)
<1>5. /\ Sets(w, m + 1, n) <=> Named /\ Given
      /\ NamesLive(w, m + 1, n, MarkDirs) <=> Named /\ CurrentLine.dir \in MarkDirs
  BY <1>1, SetsOfLine
<1>6. nameDefinition \in [Names -> NameValue]
  BY DEF IInv, TypeOK
<1>7. /\ nameDefinition[n].known <=> \E j \in 1..m : Sets(v, j, n)
      /\ \A j : LastSets(v, j, n) =>
           /\ nameDefinition[n].isDefined <=> v[j].line.dir \notin UndefDirs
           /\ v[j].line.dir \notin UndefDirs =>
                nameDefinition[n].sValue =
                  (IF v[j].line.ops = 2 THEN v[j].line.value ELSE EmptyValue)
      /\ Marked(n) <=> \E j \in 1..m : NamesLive(v, j, n, MarkDirs)
  BY <1>2 DEF NameOf
<1>8. ASSUME Named, Given
      PROVE  NameOf(w, n)'
  <2>1. /\ nameDefinition'[n].known
        /\ nameDefinition'[n].isDefined = (CurrentLine.dir \notin UndefDirs)
        /\ nameDefinition'[n].sValue =
             (IF CurrentLine.dir \in UndefDirs THEN EmptyValue ELSE ValueOperand)
        /\ nameDefinition'[n].guiPro =
             (IF CurrentLine.dir \in MarkDirs THEN CurrentLine.dir
              ELSE nameDefinition[n].guiPro)
    <3>1. nameDefinition' = NameMade
      BY <1>8 DEF NamesEffect
    <3>2. NameMade = SetName(n, CurrentLine.dir \notin UndefDirs,
                       IF CurrentLine.dir \in UndefDirs THEN EmptyValue
                                                        ELSE ValueOperand,
                       IF CurrentLine.dir \in MarkDirs THEN CurrentLine.dir
                       ELSE nameDefinition[n].guiPro)
      BY <1>8 DEF NameMade
    <3> QED
      BY <1>6, <3>1, <3>2 DEF SetName
  <2>2. \A j : LastSets(w, j, n) => j = m + 1
    BY <1>2, <1>3, <1>5, <1>8 DEF LastSets
  <2>3. Marked(n)' <=> \E j \in 1..(m + 1) : NamesLive(w, j, n, MarkDirs)
    <3>1. Marked(n)' <=> CurrentLine.dir \in MarkDirs \/ Marked(n)
      BY <2>1 DEF Marked, MarkDirs
    <3> QED
      BY <1>3, <1>4, <1>5, <1>7, <1>8, <3>1
  <2>4. \E j \in 1..(m + 1) : Sets(w, j, n)
    BY <1>3, <1>5, <1>8
  <2>5. ASSUME CurrentLine.dir \notin UndefDirs
        PROVE  nameDefinition'[n].sValue =
                 (IF CurrentLine.ops = 2 THEN CurrentLine.value ELSE EmptyValue)
    BY <2>1, <2>5 DEF ValueOperand
  <2> HIDE DEF Named, Given
  <2> QED
    BY <1>2, <2>1, <2>2, <2>3, <2>4, <2>5 DEF NameOf
<1>9. ASSUME ~(Named /\ Given)
      PROVE  NameOf(w, n)'
  <2>1. nameDefinition'[n] = nameDefinition[n]
    <3>1. CASE Obeyed(DefinitionDirs) /\ isEnabled /\ CurrentLine.name # n
      <4>1. NameMade = nameDefinition
            \/ \E e : NameMade = [nameDefinition EXCEPT ![CurrentLine.name] = e]
        BY DEF NameMade, SetName
      <4>2. nameDefinition' = NameMade
        BY <3>1 DEF NamesEffect
      <4> QED
        BY <1>6, <3>1, <4>1, <4>2
    <3>2. CASE Named
      <4>1. NameMade = nameDefinition
        BY <1>9, <3>2 DEF NameMade
      <4> QED
        BY <3>2, <4>1 DEF NamesEffect
    <3>3. CASE ~(Obeyed(DefinitionDirs) /\ isEnabled)
      BY <3>3 DEF NamesEffect
    <3> QED
      BY <3>1, <3>2, <3>3
  <2>2. Marked(n)' <=> Marked(n)
    BY <2>1 DEF Marked
  <2>3. ~Sets(w, m + 1, n) /\ ~NamesLive(w, m + 1, n, MarkDirs)
    BY <1>5, <1>9
  <2>4. ASSUME NEW j, LastSets(w, j, n)
        PROVE  LastSets(v, j, n) /\ w[j] = v[j]
    BY <1>2, <1>3, <1>4, <2>3, <2>4 DEF LastSets
  <2>5. /\ (\E j \in 1..(m + 1) : Sets(w, j, n)) <=> \E j \in 1..m : Sets(v, j, n)
        /\ (\E j \in 1..(m + 1) : NamesLive(w, j, n, MarkDirs))
             <=> \E j \in 1..m : NamesLive(v, j, n, MarkDirs)
    BY <1>3, <1>4, <2>3
  <2> HIDE DEF Named, Given
  <2> QED
    BY <1>2, <1>7, <2>1, <2>2, <2>4, <2>5 DEF NameOf
<1> QED
  BY <1>8, <1>9

-----------------------------------------------------------------------------
(***************************************************************************)
(* The stack: the blocks on it are those around the next line, for any     *)
(* verdicts v and any line g.                                              *)
(***************************************************************************)
LEMMA LiveIsBoolean ==
  ASSUME NEW v, NEW h, NEW g
  PROVE  Selects(v, h) \in BOOLEAN /\ InElse(v, h, g) \in BOOLEAN
BY DEF Selects, InElse

LEMMA SameBranches ==
  ASSUME NEW v, NEW g \in Nat \ {0}, Balanced(v, g), ~Plain(v, g, {"ELSE"}),
         NEW a \in Around(v, g)
  PROVE  /\ InElse(v, a, g + 1) = InElse(v, a, g)
         /\ LiveBlock(v, a, g + 1) = LiveBlock(v, a, g)
<1>1. InElse(v, a, g + 1) <=> InElse(v, a, g)
  BY ElseNext
<1>2. InElse(v, a, g + 1) = InElse(v, a, g)
  BY <1>1, LiveIsBoolean
<1> QED
  BY <1>2 DEF LiveBlock

LEMMA OthersStacked ==
  ASSUME NEW v, NEW g \in Nat \ {0}, Balanced(v, g),
         ~Plain(v, g, IfDirs), ~Plain(v, g, {"ELSE"}), ~Plain(v, g, {"ENDIF"}),
         NEW s, NEW at, StackedOn(s, v, at, g)
  PROVE  /\ Balanced(v, g + 1)
         /\ AllLive(v, g + 1) = AllLive(v, g)
         /\ StackedOn(s, v, at, g + 1)
<1>1. Around(v, g + 1) = Around(v, g) /\ Balanced(v, g + 1)
  BY KeepsAround
<1>2. \A a \in Around(v, g) : /\ InElse(v, a, g + 1) = InElse(v, a, g)
                              /\ LiveBlock(v, a, g + 1) = LiveBlock(v, a, g)
  BY SameBranches
<1>3. AllLive(v, g + 1) = AllLive(v, g)
  BY <1>1, <1>2 DEF AllLive
<1>4. \A i \in 1..Len(s) : at[i] \in Around(v, g)
  BY DEF StackedOn
<1>5. ASSUME NEW i \in 1..Len(s)
      PROVE  (\A a \in Around(v, g) : a < at[i] => LiveBlock(v, a, g + 1))
               <=> \A a \in Around(v, g) : a < at[i] => LiveBlock(v, a, g)
  BY <1>2
<1>6. StackedOn(s, v, at, g + 1)
  BY <1>1, <1>2, <1>4, <1>5 DEF StackedOn
<1> QED
  BY <1>1, <1>3, <1>6

LEMMA OpenStacked ==
  ASSUME NEW v, NEW g \in Nat \ {0}, Balanced(v, g), Plain(v, g, IfDirs),
         NEW s \in Seq(Entry), NEW at, StackedOn(s, v, at, g),
         NEW e \in Entry, e.type # "ELSE", e.enabled <=> AllLive(v, g)
  PROVE  /\ Balanced(v, g + 1)
         /\ AllLive(v, g + 1) <=> AllLive(v, g) /\ Selects(v, g)
         /\ \E up : StackedOn(Append(s, e), v, up, g + 1)
<1>1. Around(v, g + 1) = Around(v, g) \cup {g} /\ Balanced(v, g + 1)
  BY OpensAround
<1>2. ~Plain(v, g, {"ELSE"})
  BY DEF Plain, IfDirs
<1>3. \A a \in Around(v, g) : /\ InElse(v, a, g + 1) = InElse(v, a, g)
                              /\ LiveBlock(v, a, g + 1) = LiveBlock(v, a, g)
                              /\ a \in Nat /\ a < g
  <2>1. \A a \in Around(v, g) : a \in Nat /\ a < g
    BY DEF Around
  <2> QED
    BY <1>2, <2>1, SameBranches
<1>4. InElse(v, g, g + 1) = FALSE
  BY DEF InElse
<1>5. LiveBlock(v, g, g + 1) <=> Selects(v, g)
  BY <1>4, LiveIsBoolean DEF LiveBlock
<1>6. AllLive(v, g + 1) <=> AllLive(v, g) /\ Selects(v, g)
  BY <1>1, <1>3, <1>5 DEF AllLive
<1>7. PICK n, t : n = Len(s) /\ t = Append(s, e)
  OBVIOUS
<1>8. /\ n \in Nat /\ Len(t) = n + 1 /\ t[n + 1] = e
      /\ \A i \in 1..n : t[i] = s[i]
  BY <1>7, PushOn
<1>9. PICK up : up = [i \in 1..(n + 1) |-> IF i = n + 1 THEN g ELSE at[i]]
  OBVIOUS
<1>10. \A i : i \in 1..(n + 1) <=> i \in 1..n \/ i = n + 1
  BY <1>8
<1>11. /\ at \in [1..n -> Around(v, g)]
       /\ \A a \in Around(v, g) : \E i \in 1..n : at[i] = a
       /\ \A i, j \in 1..n :
            i < j => at[i] <= at[j] /\ (s[j].type # "ELSE" => at[i] < at[j])
       /\ \A i \in 1..n :
            s[i].type = "ELSE" => i > 1 /\ at[i] = at[i - 1]
                                  /\ InElse(v, at[i], g)
       /\ \A i \in 1..n :
            /\ s[i].type # "ELSE"
            /\ i < n => s[i + 1].type # "ELSE"
            => ~InElse(v, at[i], g)
       /\ \A i \in 1..n :
            s[i].type # "ELSE" =>
              (s[i].enabled <=>
                 \A a \in Around(v, g) : a < at[i] => LiveBlock(v, a, g))
  BY <1>7 DEF StackedOn
<1>12. /\ up \in [1..(n + 1) -> Around(v, g + 1)]
       /\ up[n + 1] = g
       /\ \A i \in 1..n : up[i] = at[i] /\ up[i] \in Around(v, g)
  BY <1>1, <1>8, <1>9, <1>11
<1>13. \A a \in Around(v, g + 1) : \E i \in 1..(n + 1) : up[i] = a
  BY <1>1, <1>10, <1>11, <1>12
<1>14. ASSUME NEW i \in 1..(n + 1), NEW j \in 1..(n + 1), i < j
       PROVE  up[i] <= up[j] /\ (t[j].type # "ELSE" => up[i] < up[j])
  <2>1. i \in 1..n
    BY <1>8, <1>14
  <2>2. CASE j = n + 1
    BY <1>3, <1>12, <2>1, <2>2
  <2>3. CASE j \in 1..n
    BY <1>8, <1>11, <1>12, <1>14, <2>1, <2>3
  <2> QED
    BY <1>10, <2>2, <2>3
<1>15. ASSUME NEW i \in 1..(n + 1), t[i].type = "ELSE"
       PROVE  i > 1 /\ up[i] = up[i - 1] /\ InElse(v, up[i], g + 1)
  <2>1. i \in 1..n /\ s[i].type = "ELSE"
    BY <1>8, <1>10, <1>15
  <2>2. i > 1 /\ at[i] = at[i - 1] /\ InElse(v, at[i], g)
    BY <1>11, <2>1
  <2>3. i - 1 \in 1..n
    BY <1>8, <2>1, <2>2
  <2> QED
    BY <1>3, <1>12, <2>1, <2>2, <2>3
<1>16. ASSUME NEW i \in 1..(n + 1), t[i].type # "ELSE",
              i < n + 1 => t[i + 1].type # "ELSE"
       PROVE  ~InElse(v, up[i], g + 1)
  <2>1. CASE i = n + 1
    BY <1>4, <1>12, <2>1
  <2>2. CASE i \in 1..n
    <3>1. i < n => s[i + 1].type # "ELSE"
      <4>1. ASSUME i < n
            PROVE  s[i + 1].type # "ELSE"
        <5>1. i + 1 \in 1..n /\ i < n + 1
          BY <1>8, <2>2, <4>1
        <5> QED
          BY <1>8, <1>16, <5>1
      <4> QED
        BY <4>1
    <3>2. s[i].type # "ELSE"
      BY <1>8, <1>16, <2>2
    <3>3. ~InElse(v, at[i], g)
      BY <1>11, <2>2, <3>1, <3>2
    <3> QED
      BY <1>3, <1>12, <2>2, <3>3
  <2> QED
    BY <1>10, <2>1, <2>2
<1>17. ASSUME NEW i \in 1..(n + 1), t[i].type # "ELSE"
       PROVE  t[i].enabled <=>
                \A a \in Around(v, g + 1) : a < up[i] => LiveBlock(v, a, g + 1)
  <2>1. CASE i = n + 1
    <3>1. \A a \in Around(v, g + 1) : a < up[i] <=> a \in Around(v, g)
      BY <1>1, <1>3, <1>12, <2>1
    <3> QED
      BY <1>1, <1>3, <1>8, <2>1, <3>1 DEF AllLive
  <2>2. CASE i \in 1..n
    <3>1. up[i] = at[i] /\ up[i] \in Around(v, g) /\ up[i] < g
      BY <1>3, <1>12, <2>2
    <3>2. \A a \in Around(v, g + 1) : a < up[i] => a \in Around(v, g)
      BY <1>1, <1>3, <3>1
    <3>3. s[i].enabled <=>
            \A a \in Around(v, g) : a < at[i] => LiveBlock(v, a, g)
      BY <1>8, <1>11, <1>17, <2>2
    <3>4. (\A a \in Around(v, g) : a < at[i] => LiveBlock(v, a, g))
            <=> \A a \in Around(v, g + 1) : a < up[i] => LiveBlock(v, a, g + 1)
      BY <1>1, <1>3, <3>1, <3>2
    <3> QED
      BY <1>8, <2>2, <3>3, <3>4
  <2> QED
    BY <1>10, <2>1, <2>2
<1>18. StackedOn(t, v, up, g + 1)
  BY <1>8, <1>12, <1>13, <1>14, <1>15, <1>16, <1>17 DEF StackedOn
<1> QED
  BY <1>1, <1>6, <1>7, <1>18

LEMMA InnermostStacked ==
  ASSUME NEW v, NEW g \in Nat \ {0}, NEW s \in Seq(Entry), s # <<>>,
         NEW at, StackedOn(s, v, at, g), NEW n, n = Len(s)
  PROVE  /\ n \in Nat \ {0}
         /\ at[n] \in Around(v, g)
         /\ \A a \in Around(v, g) : a \in Nat /\ a < g /\ a <= at[n]
<1>1. n \in Nat \ {0}
  OBVIOUS
<1>2. /\ at \in [1..n -> Around(v, g)]
      /\ \A a \in Around(v, g) : \E i \in 1..n : at[i] = a
      /\ \A i, j \in 1..n : i < j => at[i] <= at[j]
  BY DEF StackedOn
<1>3. n \in 1..n /\ at[n] \in Around(v, g)
  BY <1>1, <1>2
<1>4. \A a \in Around(v, g) : a \in Nat /\ a < g
  BY DEF Around
<1>5. ASSUME NEW a \in Around(v, g)
      PROVE  a <= at[n]
  <2>1. PICK i \in 1..n : at[i] = a
    BY <1>2
  <2>2. CASE i = n
    BY <1>4, <2>1, <2>2
  <2>3. CASE i < n
    BY <1>2, <1>3, <2>1, <2>3
  <2> QED
    BY <1>1, <2>2, <2>3
<1> QED
  BY <1>1, <1>3, <1>4, <1>5

LEMMA TurnsInnermost ==
  ASSUME NEW v, NEW g \in Nat \ {0}, Balanced(v, g), Plain(v, g, {"ELSE"}),
         NEW t \in Around(v, g), \A a \in Around(v, g) : a <= t
  PROVE  /\ Around(v, g + 1) = Around(v, g) /\ Balanced(v, g + 1)
         /\ InElse(v, t, g + 1)
         /\ \A a \in Around(v, g) :
              a < t => /\ InElse(v, a, g + 1) = InElse(v, a, g)
                       /\ LiveBlock(v, a, g + 1) = LiveBlock(v, a, g)
<1>1. ~Plain(v, g, IfDirs) /\ ~Plain(v, g, {"ENDIF"})
  BY DEF Plain, IfDirs
<1>2. Around(v, g + 1) = Around(v, g) /\ Balanced(v, g + 1)
  BY <1>1, KeepsAround
<1>3. InElse(v, t, g + 1)
  BY ElseNext
<1>4. ASSUME NEW a \in Around(v, g), a < t
      PROVE  InElse(v, a, g + 1) = InElse(v, a, g)
  <2>1. a \in Nat /\ t \in Nat /\ ~(t <= a)
    BY <1>4 DEF Around
  <2>2. InElse(v, a, g + 1) <=> InElse(v, a, g)
    BY <2>1, ElseNext
  <2> QED
    BY <2>2, LiveIsBoolean
<1> QED
  BY <1>2, <1>3, <1>4 DEF LiveBlock

\* What the flag says in the other branch.
LEMMA ElseLive ==
  ASSUME NEW v, NEW g \in Nat \ {0}, Balanced(v, g), Plain(v, g, {"ELSE"}),
         NEW s \in Seq(Entry), s # <<>>, Last(s).type # "ELSE",
         NEW at, StackedOn(s, v, at, g),
         NEW f \in BOOLEAN, f <=> AllLive(v, g)
  PROVE  (f # Last(s).enabled) <=> AllLive(v, g + 1)
<1>1. PICK n, t, last : n = Len(s) /\ t = at[n] /\ last = Last(s)
  OBVIOUS
<1>2. /\ n \in Nat \ {0} /\ t \in Around(v, g)
      /\ \A a \in Around(v, g) : a \in Nat /\ a < g /\ a <= t
  BY <1>1, InnermostStacked
<1>3. last \in Entry /\ last = s[n]
  BY <1>1, <1>2 DEF Last
<1>4. last.enabled \in BOOLEAN
  BY <1>3 DEF Entry
<1>5. /\ ~InElse(v, t, g)
      /\ last.enabled <=> \A a \in Around(v, g) : a < t => LiveBlock(v, a, g)
  <2>1. n \in 1..n /\ ~(n < n) /\ s[n].type # "ELSE"
    BY <1>1, <1>2, <1>3
  <2> QED
    BY <1>1, <1>3, <2>1 DEF StackedOn
<1>6. /\ Around(v, g + 1) = Around(v, g)
      /\ InElse(v, t, g + 1)
      /\ \A a \in Around(v, g) :
           a < t => LiveBlock(v, a, g + 1) = LiveBlock(v, a, g)
  BY <1>2, TurnsInnermost
<1>7. \A a \in Around(v, g) : a < t \/ a = t
  BY <1>2
<1>8. Selects(v, t) \in BOOLEAN
  BY LiveIsBoolean
<1>9. (LiveBlock(v, t, g) <=> Selects(v, t))
      /\ (LiveBlock(v, t, g + 1) <=> ~Selects(v, t))
  <2>1. InElse(v, t, g) = FALSE /\ InElse(v, t, g + 1) = TRUE
    BY <1>5, <1>6, LiveIsBoolean
  <2> QED
    BY <1>8, <2>1 DEF LiveBlock
<1>10. ~(t < t)
  BY <1>2
<1>11. AllLive(v, g) <=> last.enabled /\ Selects(v, t)
  BY <1>2, <1>5, <1>7, <1>9, <1>10 DEF AllLive
<1>12. AllLive(v, g + 1) <=> last.enabled /\ ~Selects(v, t)
  BY <1>2, <1>5, <1>6, <1>7, <1>9, <1>10 DEF AllLive
<1> QED
  BY <1>1, <1>4, <1>8, <1>11, <1>12

LEMMA ElseStacked ==
  ASSUME NEW v, NEW g \in Nat \ {0}, Balanced(v, g), Plain(v, g, {"ELSE"}),
         NEW s \in Seq(Entry), s # <<>>, Last(s).type # "ELSE",
         NEW at, StackedOn(s, v, at, g), NEW e \in Entry, e.type = "ELSE"
  PROVE  /\ Balanced(v, g + 1)
         /\ \E up : StackedOn(Append(s, e), v, up, g + 1)
<1>1. PICK n, t, z : n = Len(s) /\ t = at[n] /\ z = Append(s, e)
  OBVIOUS
<1>2. /\ n \in Nat \ {0} /\ t \in Around(v, g)
      /\ \A a \in Around(v, g) : a \in Nat /\ a < g /\ a <= t
  BY <1>1, InnermostStacked
<1>3. /\ Around(v, g + 1) = Around(v, g) /\ Balanced(v, g + 1)
      /\ InElse(v, t, g + 1)
      /\ \A a \in Around(v, g) :
           a < t => /\ InElse(v, a, g + 1) = InElse(v, a, g)
                    /\ LiveBlock(v, a, g + 1) = LiveBlock(v, a, g)
  BY <1>2, TurnsInnermost
<1>4. /\ Len(z) = n + 1 /\ z[n + 1] = e
      /\ \A i \in 1..n : z[i] = s[i]
  BY <1>1, PushOn
<1>5. s[n].type # "ELSE"
  BY <1>1 DEF Last
<1>6. PICK up : up = [i \in 1..(n + 1) |-> IF i = n + 1 THEN t ELSE at[i]]
  OBVIOUS
<1>7. \A i : i \in 1..(n + 1) <=> i \in 1..n \/ i = n + 1
  BY <1>2
<1>8. /\ at \in [1..n -> Around(v, g)]
      /\ \A a \in Around(v, g) : \E i \in 1..n : at[i] = a
      /\ \A i, j \in 1..n :
           i < j => at[i] <= at[j] /\ (s[j].type # "ELSE" => at[i] < at[j])
      /\ \A i \in 1..n :
           s[i].type = "ELSE" => i > 1 /\ at[i] = at[i - 1]
                                 /\ InElse(v, at[i], g)
      /\ \A i \in 1..n :
           /\ s[i].type # "ELSE"
           /\ i < n => s[i + 1].type # "ELSE"
           => ~InElse(v, at[i], g)
      /\ \A i \in 1..n :
           s[i].type # "ELSE" =>
             (s[i].enabled <=>
                \A a \in Around(v, g) : a < at[i] => LiveBlock(v, a, g))
  BY <1>1 DEF StackedOn
<1>9. /\ up \in [1..(n + 1) -> Around(v, g + 1)]
      /\ up[n + 1] = t
      /\ \A i \in 1..n : up[i] = at[i] /\ up[i] \in Around(v, g)
      /\ n \in 1..n /\ up[n] = t
  <2>1. n \in 1..n /\ n # n + 1 /\ \A i \in 1..n : i # n + 1
    BY <1>2
  <2>2. \A i \in 1..n : up[i] = at[i] /\ at[i] \in Around(v, g)
    BY <1>6, <1>7, <1>8, <2>1
  <2>3. up[n + 1] = t
    BY <1>6, <1>7
  <2>4. up \in [1..(n + 1) -> Around(v, g)]
    BY <1>2, <1>6, <1>7, <1>8
  <2> QED
    BY <1>1, <1>3, <2>1, <2>2, <2>3, <2>4
<1>10. \A i \in 1..n : i < n => up[i] < t
  BY <1>1, <1>5, <1>8, <1>9
<1>11. \A a \in Around(v, g + 1) : \E i \in 1..(n + 1) : up[i] = a
  BY <1>3, <1>7, <1>8, <1>9
<1>12. ASSUME NEW i \in 1..(n + 1), NEW j \in 1..(n + 1), i < j
       PROVE  up[i] <= up[j] /\ (z[j].type # "ELSE" => up[i] < up[j])
  <2>1. i \in 1..n
    BY <1>2, <1>12
  <2>2. CASE j = n + 1
    <3>1. z[j].type = "ELSE"
      BY <1>4, <2>2
    <3>2. up[i] <= t
      BY <1>2, <1>9, <2>1
    <3> QED
      BY <1>9, <2>2, <3>1, <3>2
  <2>3. CASE j \in 1..n
    BY <1>4, <1>8, <1>9, <1>12, <2>1, <2>3
  <2> QED
    BY <1>7, <2>2, <2>3
<1>13. ASSUME NEW i \in 1..(n + 1), z[i].type = "ELSE"
       PROVE  i > 1 /\ up[i] = up[i - 1] /\ InElse(v, up[i], g + 1)
  <2>1. CASE i = n + 1
    <3>1. i > 1 /\ i - 1 = n
      BY <1>2, <2>1
    <3> QED
      BY <1>3, <1>9, <2>1, <3>1
  <2>2. CASE i \in 1..n
    <3>1. s[i].type = "ELSE"
      BY <1>4, <1>13, <2>2
    <3>2. i > 1 /\ at[i] = at[i - 1] /\ InElse(v, at[i], g)
      BY <1>8, <2>2, <3>1
    <3>3. i - 1 \in 1..n /\ i < n
      BY <1>2, <1>5, <2>2, <3>1, <3>2
    <3>4. up[i] < t
      BY <1>10, <2>2, <3>3
    <3> QED
      BY <1>3, <1>9, <2>2, <3>2, <3>3, <3>4
  <2> QED
    BY <1>7, <2>1, <2>2
<1>14. ASSUME NEW i \in 1..(n + 1), z[i].type # "ELSE",
              i < n + 1 => z[i + 1].type # "ELSE"
       PROVE  ~InElse(v, up[i], g + 1)
  <2>1. i # n + 1
    BY <1>4, <1>14
  <2>2. i # n
    BY <1>2, <1>4, <1>14
  <2>3. i \in 1..n /\ i < n /\ i + 1 \in 1..n /\ i < n + 1
    BY <1>2, <2>1, <2>2
  <2>4. s[i].type # "ELSE" /\ s[i + 1].type # "ELSE"
    BY <1>4, <1>14, <2>3
  <2>5. ~InElse(v, at[i], g) /\ up[i] < t
    BY <1>8, <1>10, <2>3, <2>4
  <2> QED
    BY <1>3, <1>9, <2>3, <2>5
<1>15. ASSUME NEW i \in 1..(n + 1), z[i].type # "ELSE"
       PROVE  z[i].enabled <=>
                \A a \in Around(v, g + 1) : a < up[i] => LiveBlock(v, a, g + 1)
  <2>1. i # n + 1
    BY <1>4, <1>15
  <2>2. i \in 1..n
    BY <1>7, <2>1
  <2>3. up[i] = at[i] /\ up[i] \in Around(v, g) /\ up[i] <= t
    BY <1>2, <1>9, <2>2
  <2>4. \A a \in Around(v, g) : a < up[i] => a < t
    BY <1>2, <2>3
  <2>5. s[i].enabled <=>
          \A a \in Around(v, g) : a < at[i] => LiveBlock(v, a, g)
    BY <1>4, <1>8, <1>15, <2>2
  <2>6. (\A a \in Around(v, g) : a < at[i] => LiveBlock(v, a, g))
          <=> \A a \in Around(v, g + 1) : a < up[i] => LiveBlock(v, a, g + 1)
    BY <1>3, <2>3, <2>4
  <2> QED
    BY <1>4, <2>2, <2>5, <2>6
<1>16. StackedOn(z, v, up, g + 1)
  BY <1>4, <1>9, <1>11, <1>12, <1>13, <1>14, <1>15 DEF StackedOn
<1> QED
  BY <1>1, <1>3, <1>16

\* WithoutElse of any stack.
BlockEntries(s) == IF Last(s).type = "ELSE" THEN Front(s) ELSE s

LEMMA EntriesOfBlocks ==
  ASSUME NEW s \in Seq(Entry), s # <<>>,
         \A i \in 1..Len(s) :
           s[i].type = "ELSE" => i > 1 /\ s[i - 1].type # "ELSE",
         NEW u, u = BlockEntries(s), NEW k, k = Len(u), NEW n, n = Len(s)
  PROVE  /\ u \in Seq(Entry) /\ u # <<>>
         /\ n \in Nat \ {0} /\ k \in 1..n /\ u[k].type # "ELSE"
         /\ n = k \/ (n = k + 1 /\ s[n].type = "ELSE")
         /\ \A i \in 1..k : u[i] = s[i]
<1>1. n \in Nat \ {0} /\ Last(s) = s[n]
  BY DEF Last
<1>2. CASE s[n].type = "ELSE"
  <2>1. n > 1 /\ s[n - 1].type # "ELSE"
    BY <1>1, <1>2
  <2>2. u = Front(s)
    BY <1>1, <1>2 DEF BlockEntries
  <2>3. /\ u \in Seq(Entry) /\ k = n - 1
        /\ \A i \in 1..(n - 1) : u[i] = s[i]
    BY <2>2, Pop
  <2>4. n - 1 \in Nat \ {0} /\ n - 1 \in 1..n /\ n = (n - 1) + 1
    BY <1>1, <2>1
  <2>5. u # <<>>
    BY <2>3, <2>4
  <2>6. u[n - 1] = s[n - 1]
    <3>1. n - 1 \in 1..(n - 1)
      BY <2>4
    <3> QED
      BY <2>3, <3>1
  <2> QED
    BY <1>1, <1>2, <2>1, <2>3, <2>4, <2>5, <2>6
<1>3. CASE s[n].type # "ELSE"
  <2>1. u = s
    BY <1>1, <1>3 DEF BlockEntries
  <2>2. k = n /\ k \in 1..n
    BY <1>1, <2>1
  <2> QED
    BY <1>1, <1>3, <2>1, <2>2
<1> QED
  BY <1>2, <1>3

LEMMA EndStacked ==
  ASSUME NEW v, NEW g \in Nat \ {0}, Balanced(v, g), Plain(v, g, {"ENDIF"}),
         NEW s \in Seq(Entry), s # <<>>,
         \A i \in 1..Len(s) :
           s[i].type = "ELSE" => i > 1 /\ s[i - 1].type # "ELSE",
         NEW at, StackedOn(s, v, at, g)
  PROVE  /\ Balanced(v, g + 1)
         /\ Last(BlockEntries(s)).enabled <=> AllLive(v, g + 1)
         /\ \E up : StackedOn(Front(BlockEntries(s)), v, up, g + 1)
<1>1. PICK u, n : u = BlockEntries(s) /\ n = Len(s)
  OBVIOUS
<1>2. PICK k : k = Len(u)
  OBVIOUS
<1>3. /\ u \in Seq(Entry) /\ u # <<>>
      /\ n \in Nat \ {0} /\ k \in 1..n /\ u[k].type # "ELSE"
      /\ n = k \/ (n = k + 1 /\ s[n].type = "ELSE")
      /\ \A i \in 1..k : u[i] = s[i]
  BY <1>1, <1>2, EntriesOfBlocks
<1>4. PICK t, z : t = at[n] /\ z = Front(u)
  OBVIOUS
<1>5. /\ t \in Around(v, g)
      /\ \A a \in Around(v, g) : a \in Nat /\ a < g /\ a <= t
  BY <1>1, <1>4, InnermostStacked
<1>6. /\ at \in [1..n -> Around(v, g)]
      /\ \A a \in Around(v, g) : \E i \in 1..n : at[i] = a
      /\ \A i, j \in 1..n :
           i < j => at[i] <= at[j] /\ (s[j].type # "ELSE" => at[i] < at[j])
      /\ \A i \in 1..n :
           s[i].type = "ELSE" => i > 1 /\ at[i] = at[i - 1]
                                 /\ InElse(v, at[i], g)
      /\ \A i \in 1..n :
           /\ s[i].type # "ELSE"
           /\ i < n => s[i + 1].type # "ELSE"
           => ~InElse(v, at[i], g)
      /\ \A i \in 1..n :
           s[i].type # "ELSE" =>
             (s[i].enabled <=>
                \A a \in Around(v, g) : a < at[i] => LiveBlock(v, a, g))
  BY <1>1 DEF StackedOn
<1>7. at[k] = t
  <2>1. CASE n = k
    BY <1>4, <2>1
  <2>2. CASE n = k + 1 /\ s[n].type = "ELSE"
    <3>1. n \in 1..n /\ n - 1 = k
      BY <1>3, <2>2
    <3> QED
      BY <1>4, <1>6, <2>2, <3>1
  <2> QED
    BY <1>3, <2>1, <2>2
<1>8. /\ z \in Seq(Entry) /\ Len(z) = k - 1 /\ Last(u) = s[k]
      /\ \A i \in 1..(k - 1) : z[i] = s[i]
  <2>1. /\ z \in Seq(Entry) /\ Len(z) = k - 1
        /\ \A i \in 1..(k - 1) : z[i] = u[i]
    BY <1>2, <1>3, <1>4, Pop
  <2>2. Last(u) = s[k]
    BY <1>2, <1>3 DEF Last
  <2>3. \A i \in 1..(k - 1) : i \in 1..k
    BY <1>3
  <2> QED
    BY <1>3, <2>1, <2>2, <2>3
<1>9. Around(v, g + 1) = Around(v, g) \ {t} /\ Balanced(v, g + 1)
  BY <1>5, ClosesAround
<1>10. \A a \in Around(v, g) : /\ InElse(v, a, g + 1) = InElse(v, a, g)
                               /\ LiveBlock(v, a, g + 1) = LiveBlock(v, a, g)
  <2>1. ~Plain(v, g, {"ELSE"})
    BY DEF Plain
  <2> QED
    BY <2>1, SameBranches
<1>11. \A i \in 1..(k - 1) :
         /\ i \in 1..n /\ i < k /\ i < n /\ i + 1 \in 1..n
         /\ at[i] < t /\ at[i] \in Around(v, g)
  <2>1. \A i \in 1..(k - 1) : i \in 1..n /\ i < k /\ i < n /\ i + 1 \in 1..n
    BY <1>3
  <2>2. k \in 1..n /\ s[k].type # "ELSE"
    BY <1>3
  <2>3. \A i \in 1..(k - 1) : at[i] < at[k]
    BY <1>6, <2>1, <2>2
  <2> QED
    BY <1>6, <1>7, <2>1, <2>3
<1>12. \A a \in Around(v, g + 1) : a \in Around(v, g) /\ a < t
  BY <1>5, <1>9
<1>13. PICK up : up = [i \in 1..(k - 1) |-> at[i]]
  OBVIOUS
<1>14. /\ up \in [1..(k - 1) -> Around(v, g + 1)]
       /\ \A i \in 1..(k - 1) : up[i] = at[i]
  <2>1. \A i \in 1..(k - 1) : at[i] \in Around(v, g + 1)
    BY <1>5, <1>9, <1>11
  <2> QED
    BY <1>13, <2>1
<1>15. \A a \in Around(v, g + 1) : \E i \in 1..(k - 1) : up[i] = a
  <2>1. SUFFICES ASSUME NEW a \in Around(v, g + 1)
                 PROVE  \E i \in 1..(k - 1) : up[i] = a
    OBVIOUS
  <2>2. PICK i \in 1..n : at[i] = a
    BY <1>6, <1>12
  <2>3. i # k /\ i # n
    BY <1>4, <1>5, <1>7, <1>12, <2>2
  <2>4. i \in 1..(k - 1)
    BY <1>3, <2>3
  <2> QED
    BY <1>14, <2>2, <2>4
<1>16. ASSUME NEW i \in 1..(k - 1), NEW j \in 1..(k - 1), i < j
       PROVE  up[i] <= up[j] /\ (z[j].type # "ELSE" => up[i] < up[j])
  BY <1>6, <1>8, <1>11, <1>14, <1>16
<1>17. ASSUME NEW i \in 1..(k - 1), z[i].type = "ELSE"
       PROVE  i > 1 /\ up[i] = up[i - 1] /\ InElse(v, up[i], g + 1)
  <2>1. i > 1 /\ at[i] = at[i - 1] /\ InElse(v, at[i], g)
    BY <1>6, <1>8, <1>11, <1>17
  <2>2. i - 1 \in 1..(k - 1)
    BY <1>3, <2>1
  <2> QED
    BY <1>10, <1>11, <1>14, <2>1, <2>2
<1>18. ASSUME NEW i \in 1..(k - 1), z[i].type # "ELSE",
              i < k - 1 => z[i + 1].type # "ELSE"
       PROVE  ~InElse(v, up[i], g + 1)
  <2>1. s[i].type # "ELSE"
    BY <1>8, <1>18
  <2>2. s[i + 1].type # "ELSE"
    <3>1. CASE i = k - 1
      <4>1. i + 1 = k /\ k \in 1..k
        BY <1>3, <3>1
      <4> QED
        BY <1>3, <4>1
    <3>2. CASE i < k - 1
      <4>1. i + 1 \in 1..(k - 1)
        BY <1>3, <3>2
      <4> QED
        BY <1>8, <1>18, <3>2, <4>1
    <3> QED
      BY <1>3, <3>1, <3>2
  <2> QED
    BY <1>6, <1>10, <1>11, <1>14, <2>1, <2>2
<1>19. ASSUME NEW i \in 1..(k - 1), z[i].type # "ELSE"
       PROVE  z[i].enabled <=>
                \A a \in Around(v, g + 1) : a < up[i] => LiveBlock(v, a, g + 1)
  <2>1. s[i].enabled <=>
          \A a \in Around(v, g) : a < at[i] => LiveBlock(v, a, g)
    BY <1>6, <1>8, <1>11, <1>19
  <2>2. \A a \in Around(v, g) : a < at[i] => a \in Around(v, g + 1)
    BY <1>5, <1>9, <1>11
  <2>3. (\A a \in Around(v, g) : a < at[i] => LiveBlock(v, a, g))
          <=> \A a \in Around(v, g + 1) : a < up[i] => LiveBlock(v, a, g + 1)
    BY <1>10, <1>12, <1>14, <2>2
  <2> QED
    BY <1>8, <2>1, <2>3
<1>20. StackedOn(z, v, up, g + 1)
  BY <1>8, <1>14, <1>15, <1>16, <1>17, <1>18, <1>19 DEF StackedOn
<1>21. Last(u).enabled <=> AllLive(v, g + 1)
  <2>1. Last(u).enabled <=>
          \A a \in Around(v, g) : a < t => LiveBlock(v, a, g)
    <3>1. s[k].type # "ELSE"
      BY <1>3
    <3> QED
      BY <1>3, <1>6, <1>7, <1>8, <3>1
  <2>2. \A a \in Around(v, g) : a < t <=> a \in Around(v, g + 1)
    BY <1>5, <1>9
  <2> QED
    BY <1>10, <1>12, <2>1, <2>2 DEF AllLive
<1> QED
  BY <1>1, <1>4, <1>9, <1>20, <1>21

LEMMA AgreeOnStack ==
  ASSUME NEW v, NEW w, NEW m \in Nat, Agree(v, w, m)
  PROVE  /\ Around(w, m + 1) = Around(v, m + 1)
         /\ Balanced(w, m + 1) <=> Balanced(v, m + 1)
         /\ AllLive(w, m + 1) <=> AllLive(v, m + 1)
         /\ \A s, at : StackedOn(s, v, at, m + 1) => StackedOn(s, w, at, m + 1)
<1>1. m + 1 \in 1..(m + 1) /\ \A a \in Around(v, m + 1) :
                                a \in 1..m /\ a \in 1..((m + 1) - 1)
  BY DEF Around
<1>2. /\ Around(w, m + 1) = Around(v, m + 1)
      /\ Balanced(w, m + 1) <=> Balanced(v, m + 1)
  BY <1>1, AgreeOnBlocks
<1>3. \A a \in Around(v, m + 1) :
        /\ InElse(w, a, m + 1) = InElse(v, a, m + 1)
        /\ LiveBlock(w, a, m + 1) = LiveBlock(v, a, m + 1)
  <2>1. \A a \in Around(v, m + 1) :
          /\ InElse(w, a, m + 1) = InElse(v, a, m + 1)
          /\ Selects(w, a) = Selects(v, a)
    BY <1>1, AgreeOnBlocks, AgreeOnNames
  <2> QED
    BY <2>1 DEF LiveBlock
<1>4. AllLive(w, m + 1) <=> AllLive(v, m + 1)
  BY <1>2, <1>3 DEF AllLive
<1>5. ASSUME NEW s, NEW at, StackedOn(s, v, at, m + 1)
      PROVE  StackedOn(s, w, at, m + 1)
  <2>1. \A i \in 1..Len(s) : at[i] \in Around(v, m + 1)
    BY <1>5 DEF StackedOn
  <2>2. \A b : (\A a \in Around(v, m + 1) : a < b => LiveBlock(v, a, m + 1))
                 <=> \A a \in Around(w, m + 1) : a < b => LiveBlock(w, a, m + 1)
    BY <1>2, <1>3
  <2> QED
    BY <1>2, <1>3, <1>5, <2>1, <2>2 DEF StackedOn
<1> QED
  BY <1>2, <1>4, <1>5

LEMMA NothingStacked ==
  ASSUME NEW v, NEW g \in Nat \ {0}, NEW s \in Seq(Entry), NEW at,
         StackedOn(s, v, at, g)
  PROVE  (Around(v, g) = {}) <=> (s = <<>>)
<1>1. CASE s = <<>>
  <2>1. 1..Len(s) = {}
    BY <1>1
  <2> QED
    BY <1>1, <2>1 DEF StackedOn
<1>2. CASE s # <<>>
  BY <1>2, InnermostStacked
<1> QED
  BY <1>1, <1>2

\* What a line does to the stack, in terms of the line alone.
LEMMA StackOfLine ==
  ASSUME NEW w, NEW g \in Nat \ {0}, Balanced(w, g),
         NEW s \in Seq(Entry), NEW at, StackedOn(s, w, at, g),
         \A i \in 1..Len(s) :
           s[i].type = "ELSE" => i > 1 /\ s[i - 1].type # "ELSE",
         NEW f \in BOOLEAN, f <=> AllLive(w, g), NEW s2, NEW f2,
         Plain(w, g, IfDirs) =>
           /\ \E e \in Entry : /\ e.type # "ELSE" /\ e.enabled = f
                               /\ s2 = Append(s, e)
           /\ f2 = (f /\ Selects(w, g)),
         Plain(w, g, {"ELSE"}) =>
           /\ s # <<>> /\ Last(s).type # "ELSE"
           /\ f2 = (f # Last(s).enabled)
           /\ \E e \in Entry : e.type = "ELSE" /\ s2 = Append(s, e),
         Plain(w, g, {"ENDIF"}) =>
           /\ s # <<>>
           /\ f2 = Last(BlockEntries(s)).enabled
           /\ s2 = Front(BlockEntries(s)),
         ~Plain(w, g, ConditionalDirs) => s2 = s /\ f2 = f
  PROVE  /\ Balanced(w, g + 1)
         /\ f2 <=> AllLive(w, g + 1)
         /\ \E up : StackedOn(s2, w, up, g + 1)
<1>1. CASE Plain(w, g, IfDirs)
  <2>1. PICK e \in Entry : /\ e.type # "ELSE" /\ e.enabled = f
                           /\ s2 = Append(s, e)
    BY <1>1
  <2>2. /\ Balanced(w, g + 1)
        /\ AllLive(w, g + 1) <=> AllLive(w, g) /\ Selects(w, g)
        /\ \E up : StackedOn(Append(s, e), w, up, g + 1)
    BY <1>1, <2>1, OpenStacked
  <2> QED
    BY <1>1, <2>1, <2>2
<1>2. CASE Plain(w, g, {"ELSE"})
  <2>1. PICK e \in Entry : e.type = "ELSE" /\ s2 = Append(s, e)
    BY <1>2
  <2>2. /\ Balanced(w, g + 1)
        /\ \E up : StackedOn(Append(s, e), w, up, g + 1)
    BY <1>2, <2>1, ElseStacked
  <2>3. (f # Last(s).enabled) <=> AllLive(w, g + 1)
    BY <1>2, ElseLive
  <2> QED
    BY <1>2, <2>1, <2>2, <2>3
<1>3. CASE Plain(w, g, {"ENDIF"})
  BY <1>3, EndStacked
<1>4. CASE ~Plain(w, g, ConditionalDirs)
  <2>1. /\ ~Plain(w, g, IfDirs)
        /\ ~Plain(w, g, {"ELSE"}) /\ ~Plain(w, g, {"ENDIF"})
    BY <1>4 DEF Plain, IfDirs, ConditionalDirs
  <2> QED
    BY <1>4, <2>1, OthersStacked
<1>5. Plain(w, g, ConditionalDirs) =>
        \/ Plain(w, g, IfDirs) \/ Plain(w, g, {"ELSE"}) \/ Plain(w, g, {"ENDIF"})
  BY DEF Plain, IfDirs, ConditionalDirs
<1> QED
  BY <1>1, <1>2, <1>3, <1>4, <1>5

LEMMA ConditionsOfLine ==
  ASSUME IInv, NEW v, NEW w, Reading(v, w), EnvOf(v), ConditionsOf(v),
         StackEffect, NamesEffect
  PROVE  ConditionsOf(w)'
<1>1. PICK m : m = globalLineNo
  OBVIOUS
<1>2. /\ m \in Nat /\ Len(v) = m /\ Len(w) = m + 1 /\ Agree(v, w, m)
      /\ w[m + 1].line = CurrentLine /\ w[m + 1].crypted = Current.crypt
      /\ CurrentLine \in Line /\ isEnabled \in BOOLEAN
  BY <1>1, ReadingFacts
<1>3. mode' = mode
  BY DEF Reading
<1>4. CASE mode.convertSwitch
  <2>1. UNCHANGED condVars
    BY <1>4 DEF StackEffect, Obeyed
  <2>2. conditionalsStack' = <<>> /\ isEnabled'
    BY <1>4, <2>1 DEF ConditionsOf, condVars
  <2> QED
    BY <1>3, <1>4, <2>2 DEF ConditionsOf
<1>5. CASE ~mode.convertSwitch
  <2>1. PICK f, s : f = isEnabled /\ s = conditionalsStack
    OBVIOUS
  <2>2. PICK f2, s2 : f2 = isEnabled' /\ s2 = conditionalsStack'
    OBVIOUS
  <2>3. /\ Balanced(v, m + 1)
        /\ f <=> AllLive(v, m + 1)
        /\ \A n \in Names : NameOf(v, n)
    BY <1>2, <1>5, <2>1 DEF ConditionsOf
  <2>4. PICK at : StackedOn(s, v, at, m + 1)
    BY <1>2, <1>5, <2>1 DEF ConditionsOf
  <2>5. /\ s \in Seq(Entry) /\ f \in BOOLEAN
        /\ \A i \in 1..Len(s) :
             s[i].type = "ELSE" => i > 1 /\ s[i - 1].type # "ELSE"
    <3>1. s \in Seq(Entry)
      BY <2>1 DEF IInv, TypeOK, Entry
    <3>2. \A i \in DOMAIN s :
            s[i].type = "ELSE" => i > 1 /\ s[i - 1].type # "ELSE"
      BY <2>1 DEF IInv, SkippedStaysSkipped
    <3>3. DOMAIN s = 1..Len(s)
      BY <3>1
    <3>4. f \in BOOLEAN
      BY <1>2, <2>1
    <3> QED
      BY <3>1, <3>2, <3>3, <3>4
  <2>6. /\ Around(w, m + 1) = Around(v, m + 1)
        /\ Balanced(w, m + 1)
        /\ f <=> AllLive(w, m + 1)
        /\ StackedOn(s, w, at, m + 1)
    BY <1>2, <2>3, <2>4, AgreeOnStack
  <2>7. (Around(v, m + 1) = {}) <=> ~InConditional
    <3>1. (Around(v, m + 1) = {}) <=> (s = <<>>)
      BY <1>2, <2>4, <2>5, NothingStacked
    <3> QED
      BY <2>1, <3>1 DEF InConditional
  <2>8. \A n \in Names : NameOf(w, n)'
    BY <1>1, <1>5, <2>3, <2>7, NameOfLine
  <2>9. \A dirs : Plain(w, m + 1, dirs) <=> Obeyed(dirs)
    BY <1>2, <1>5 DEF Plain, Obeyed
  <2>10. Plain(w, m + 1, IfDirs) =>
           /\ \E e \in Entry : /\ e.type # "ELSE" /\ e.enabled = f
                               /\ s2 = Append(s, e)
           /\ f2 = (f /\ Selects(w, m + 1))
    <3>1. SUFFICES ASSUME Obeyed(IfDirs)
                   PROVE  /\ \E e \in Entry : /\ e.type # "ELSE"
                                              /\ e.enabled = f
                                              /\ s2 = Append(s, e)
                          /\ f2 = (f /\ Selects(w, m + 1))
      BY <2>9
    <3>2. /\ CurrentLine.ops \in {1, 2}
          /\ s2 = Append(s, [type |-> CurrentLine.dir, enabled |-> f])
          /\ f2 = (f /\ (IfdefHolds = (CurrentLine.dir = "IFDEF")))
      BY <2>1, <2>2, <3>1 DEF StackEffect, Push, Selected
    <3>3. CurrentLine.dir \in {"IFDEF", "IFNDEF"}
      BY <3>1 DEF Obeyed, IfDirs
    <3>4. PICK e : e = [type |-> CurrentLine.dir, enabled |-> f]
      OBVIOUS
    <3>5. e \in Entry /\ e.type # "ELSE" /\ e.enabled = f
      BY <2>5, <3>3, <3>4 DEF Entry
    <3>6. Selects(w, m + 1) = (IfdefHolds = (CurrentLine.dir = "IFDEF"))
      <4>1. CurrentLine.name \in Names
        BY <1>2 DEF Line
      <4> QED
        BY <1>1, <2>3, <3>2, <4>1, HoldsAt
    <3> QED
      BY <3>2, <3>4, <3>5, <3>6
  <2>11. Plain(w, m + 1, {"ELSE"}) =>
           /\ s # <<>> /\ Last(s).type # "ELSE"
           /\ f2 = (f # Last(s).enabled)
           /\ \E e \in Entry : e.type = "ELSE" /\ s2 = Append(s, e)
    <3>1. SUFFICES ASSUME Obeyed({"ELSE"})
                   PROVE  /\ s # <<>> /\ Last(s).type # "ELSE"
                          /\ f2 = (f # Last(s).enabled)
                          /\ \E e \in Entry : e.type = "ELSE" /\ s2 = Append(s, e)
      BY <2>9
    <3>2. Turned
      BY <3>1 DEF StackEffect
    <3>3. s # <<>> /\ Last(s).type # "ELSE"
      BY <2>1, <3>2 DEF Turned, ElseMisplaced
    <3>4. /\ f2 = (f # Last(s).enabled)
          /\ s2 = Append(s, [type |-> "ELSE", enabled |-> f2])
      BY <2>1, <2>2, <3>2 DEF Turned, ElseEnabled, Push
    <3>5. PICK e : e = [type |-> "ELSE", enabled |-> f2]
      OBVIOUS
    <3>6. e \in Entry /\ e.type = "ELSE"
      <4>1. f2 \in BOOLEAN
        BY <3>4
      <4> QED
        BY <3>5, <4>1 DEF Entry
    <3> QED
      BY <3>3, <3>4, <3>5, <3>6
  <2>12. Plain(w, m + 1, {"ENDIF"}) =>
           /\ s # <<>>
           /\ f2 = Last(BlockEntries(s)).enabled
           /\ s2 = Front(BlockEntries(s))
    <3>1. SUFFICES ASSUME Obeyed({"ENDIF"})
                   PROVE  /\ s # <<>>
                          /\ f2 = Last(BlockEntries(s)).enabled
                          /\ s2 = Front(BlockEntries(s))
      BY <2>9
    <3>2. Ended
      BY <3>1 DEF StackEffect
    <3>3. WithoutElse = BlockEntries(s)
      BY <2>1 DEF WithoutElse, BlockEntries
    <3> QED
      BY <2>1, <2>2, <3>2, <3>3 DEF Ended
  <2>13. ~Plain(w, m + 1, ConditionalDirs) => s2 = s /\ f2 = f
    BY <2>1, <2>2, <2>9 DEF StackEffect, condVars
  <2>14. /\ Balanced(w, (m + 1) + 1)
         /\ f2 <=> AllLive(w, (m + 1) + 1)
         /\ \E up : StackedOn(s2, w, up, (m + 1) + 1)
    <3>1. m + 1 \in Nat \ {0}
      BY <1>2
    <3> QED
      BY <2>5, <2>6, <2>10, <2>11, <2>12, <2>13, <3>1, StackOfLine
  <2> QED
    BY <1>2, <1>3, <1>5, <2>2, <2>8, <2>14 DEF ConditionsOf
<1> QED
  BY <1>4, <1>5

-----------------------------------------------------------------------------
(***************************************************************************)
(* The invariant.                                                          *)
(***************************************************************************)
LEMMA PathOfNothing ==
  ASSUME Init
  PROVE  PathInv
<1>1. PICK v, at : v = <<>> /\ at = [i \in {} |-> 0]
  OBVIOUS
<1>2. /\ globalLineNo = 0 /\ status = "start" /\ Len(v) = 0
      /\ conditionalsStack = <<>> /\ isEnabled = TRUE
      /\ lineIndex = <<>> /\ out = <<>>
  BY <1>1 DEF Init
<1>3. \A g : g \notin 1..0
  OBVIOUS
<1>4. Judged(v)
  <2>1. v \in Seq(Judgement) /\ Len(lineIndex) = 0
    BY <1>1, <1>2
  <2> QED
    BY <1>2, <1>3, <2>1 DEF Judged
<1>5. Written(v)
  <2>1. Done = 0
    BY <1>2 DEF Done, Stopped
  <2>2. DOMAIN out = {}
    BY <1>2
  <2> QED
    BY <1>3, <2>1, <2>2 DEF Written
<1>6. CryptOf(v)
  <2>1. frames = <<>>
    BY DEF Init
  <2>2. \A i : i \notin 1..(Len(frames) - 1)
    BY <2>1
  <2> QED
    BY <1>2, <1>3, <2>2 DEF CryptOf
<1>7. EnvOf(v)
  <2>1. \A n \in DollarNames : envMap[n] = NoValue
    BY DEF Init
  <2> QED
    BY <1>2, <1>3, <2>1 DEF EnvOf
<1>8. Around(v, 1) = {}
  BY DEF Around
<1>9. StackedOn(conditionalsStack, v, at, 1)
  <2>1. 1..Len(conditionalsStack) = {}
    BY <1>2
  <2>2. at \in [{} -> Around(v, 1)]
    BY <1>1
  <2> QED
    BY <1>8, <2>1, <2>2 DEF StackedOn
<1>10. \A n \in Names : NameOf(v, n)
  <2>1. \A n \in Names : nameDefinition[n].known = FALSE
                         /\ nameDefinition[n].guiPro = "NONE"
    BY DEF Init
  <2>2. \A n \in Names : ~Marked(n)
    BY <2>1 DEF Marked
  <2> QED
    BY <1>2, <1>3, <2>1, <2>2 DEF NameOf, LastSets
<1>11. ConditionsOf(v)
  <2>1. Balanced(v, 1) /\ AllLive(v, 1)
    BY <1>8 DEF Balanced, AllLive
  <2>2. Len(v) + 1 = 1
    BY <1>2
  <2> QED
    BY <1>2, <1>9, <1>10, <2>1, <2>2 DEF ConditionsOf
<1> QED
  BY <1>4, <1>5, <1>6, <1>7, <1>11 DEF PathInv, StateOfLines

LEMMA PathOfLine ==
  ASSUME IInv, NEW v, Judged(v), Written(v), StateOfLines(v),
         ReadsLine \/ ProcessInclude, UNCHANGED <<disk, mode>>
  PROVE  PathInv'
<1>1. PICK w : w = Append(v, Pending)
  OBVIOUS
<1>2. Reading(v, w)
  <2>1. status = "running" /\ ~AtEnd /\ CountLine
    <3>1. CASE ReadsLine
      BY <3>1, ReadsOneLine
    <3>2. CASE ProcessInclude
      BY <3>2 DEF ProcessInclude, Accepts, IncludeFrame, Reads
    <3> QED
      BY <3>1, <3>2
  <2> QED
    BY <1>1, <2>1 DEF Reading
<1>3. CryptOf(v) /\ EnvOf(v) /\ ConditionsOf(v)
  BY DEF StateOfLines
<1>4. Judged(w)'
  BY <1>2, <1>3, JudgedNext
<1>5. CASE status' \in {"exited", "aborted"}
  <2>1. out' = out
    BY <1>2, <1>5, StopsUnwritten DEF Reading
  <2>2. Written(w)'
    BY <1>2, <1>5, <2>1, WrittenStop
  <2>3. Stopped'
    BY <1>5 DEF Stopped
  <2> QED
    BY <1>4, <2>2, <2>3 DEF PathInv
<1>6. CASE ~(status' \in {"exited", "aborted"})
  <2>1. LineEffects /\ status' = "running"
    BY <1>6, EffectsOfLine
  <2>2. Written(w)'
    BY <1>2, <2>1, WrittenLine DEF LineEffects
  <2>3. EnvOf(w)'
    BY <1>2, <1>3, <2>1, EnvOfLine DEF LineEffects
  <2>4. ConditionsOf(w)'
    BY <1>2, <1>3, <2>1, ConditionsOfLine DEF LineEffects
  <2>5. CryptOf(w)'
    <3>1. CASE frames' = [frames EXCEPT ![Len(frames)] =
                            AdvancedFrame(CryptAfter)]
      <4>1. PICK c : c = CryptAfter
        OBVIOUS
      <4>2. c \in BOOLEAN
        BY <4>1 DEF CryptAfter
      <4>3. frames' = [frames EXCEPT ![Len(frames)] = AdvancedFrame(c)]
        BY <3>1, <4>1
      <4> QED
        BY <1>2, <1>3, <2>1, <4>1, <4>2, <4>3, CryptOfLine
    <3>2. ASSUME ~CryptAfter, NEW path \in Paths,
                 frames' = Append([frames EXCEPT ![Len(frames)] =
                                     AdvancedFrame(FALSE)], OpenFrame(path))
          PROVE  CryptOf(w)'
      BY <1>2, <1>3, <3>2, CryptOfInclude
    <3> QED
      BY <2>1, <3>1, <3>2 DEF LineEffects, FrameEffect
  <2> QED
    BY <1>4, <2>2, <2>3, <2>4, <2>5 DEF PathInv, StateOfLines
<1> QED
  BY <1>5, <1>6

LEMMA SameLines ==
  ASSUME NEW v, Judged(v), Written(v), Stopped' = Stopped,
         UNCHANGED <<disk, mode, globalLineNo, lineIndex, out>>
  PROVE  Judged(v)' /\ Written(v)'
<1>1. \A g : Verdict(v, g)' = Verdict(v, g)
  BY DEF Verdict, InBlock, LineAt, LinesOf
<1>2. Judged(v)'
  BY <1>1 DEF Judged
<1>3. Done' = Done
  BY DEF Done
<1>4. \A g : Expected(v, g)' = Expected(v, g)
  BY DEF Expected
<1>5. {g \in 1..Done' : Expected(v, g)'} = {g \in 1..Done : Expected(v, g)}
  BY <1>3, <1>4
<1> QED
  BY <1>2, <1>5 DEF Written

LEMMA SameConditions ==
  ASSUME NEW v, EnvOf(v), ConditionsOf(v),
         UNCHANGED <<mode, nameDefinition, condVars, envMap>>
  PROVE  EnvOf(v)' /\ ConditionsOf(v)'
<1>1. EnvOf(v)'
  BY DEF EnvOf
<1>2. conditionalsStack' = conditionalsStack /\ isEnabled' = isEnabled
  BY DEF condVars
<1>3. \A n : NameOf(v, n)' <=> NameOf(v, n)
  BY DEF NameOf, Marked
<1>4. ConditionsOf(v)'
  BY <1>2, <1>3 DEF ConditionsOf
<1> QED
  BY <1>1, <1>4

LEMMA NextPath ==
  ASSUME IInv, PathInv, [Next]_vars
  PROVE  PathInv'
<1>1. PICK v : Judged(v) /\ Written(v) /\ (~Stopped => StateOfLines(v))
  BY DEF PathInv
<1>2. UNCHANGED <<disk, mode>>
  BY DiskFixed
<1>3. CASE ReadsLine \/ ProcessInclude
  <2>1. status = "running"
    <3>1. CASE ReadsLine
      BY <3>1, ReadsOneLine
    <3>2. CASE ProcessInclude
      BY <3>2 DEF ProcessInclude, Accepts, IncludeFrame, Reads
    <3> QED
      BY <1>3, <3>1, <3>2
  <2>2. StateOfLines(v)
    BY <1>1, <2>1 DEF Stopped
  <2> QED
    BY <1>1, <1>2, <1>3, <2>2, PathOfLine
<1>4. CASE EndOfFile \/ DecryptAtEndOfFile
  <2>1. /\ UNCHANGED <<globalLineNo, lineIndex, out, nameDefinition, condVars,
                       envMap>>
        /\ status = "running" /\ status' \in {"running", "done"}
    BY <1>4 DEF EndOfFile, ExhaustsFile, Return, DecryptAtEndOfFile, InCrypt,
                Write, KeepState
  <2>2. Stopped' = Stopped /\ ~Stopped
    BY <2>1 DEF Stopped
  <2>3. CryptOf(v) /\ EnvOf(v) /\ ConditionsOf(v)
    BY <1>1, <2>2 DEF StateOfLines
  <2>4. CryptOf(v)'
    BY <1>2, <1>4, <2>1, <2>3, CryptAtEnd
  <2>5. Judged(v)' /\ Written(v)'
    BY <1>1, <1>2, <2>1, <2>2, SameLines
  <2>6. EnvOf(v)' /\ ConditionsOf(v)'
    BY <1>2, <2>1, <2>3, SameConditions
  <2> QED
    BY <2>4, <2>5, <2>6 DEF PathInv, StateOfLines
<1>5. CASE Start
  <2>1. /\ UNCHANGED <<globalLineNo, lineIndex, out, nameDefinition, condVars,
                       envMap>>
        /\ status = "start" /\ status' = "running"
        /\ frames' = <<OpenFrame(Root)>>
    BY <1>5 DEF Start
  <2>2. Stopped' = Stopped /\ ~Stopped
    BY <2>1 DEF Stopped
  <2>3. CryptOf(v) /\ EnvOf(v) /\ ConditionsOf(v)
    BY <1>1, <2>2 DEF StateOfLines
  <2>4. CryptOf(v)'
    <3>1. \A h : OpenCrypt(v, h)' <=> OpenCrypt(v, h)
      BY <2>1 DEF OpenCrypt
    <3>2. \A r : Len(LinesOf(r))' = Len(LinesOf(r))
      BY <1>2 DEF LinesOf
    <3>3. ~Current.crypt'
      BY <2>1 DEF Current, OpenFrame, Last
    <3>4. \A h \in 1..globalLineNo :
            ~OpenCrypt(v, h) \/ lineIndex[globalLineNo].local =
                                  Len(LinesOf(lineIndex[globalLineNo].path))
      BY <2>1, <2>3 DEF CryptOf
    <3>5. \A i : i \notin 1..(Len(frames') - 1)
      BY <2>1
    <3> QED
      BY <2>1, <3>1, <3>2, <3>3, <3>4, <3>5 DEF CryptOf
  <2>5. Judged(v)' /\ Written(v)'
    BY <1>1, <1>2, <2>1, <2>2, SameLines
  <2>6. EnvOf(v)' /\ ConditionsOf(v)'
    BY <1>2, <2>1, <2>3, SameConditions
  <2> QED
    BY <2>4, <2>5, <2>6 DEF PathInv, StateOfLines
<1>6. CASE UNCHANGED vars
  <2>1. UNCHANGED <<globalLineNo, lineIndex, out, nameDefinition, condVars,
                    envMap, status, frames>>
    BY <1>6 DEF vars
  <2>2. Stopped' = Stopped
    BY <2>1 DEF Stopped
  <2>3. Judged(v)' /\ Written(v)'
    BY <1>1, <1>2, <2>1, <2>2, SameLines
  <2>4. ASSUME ~Stopped
        PROVE  StateOfLines(v)'
    <3>1. CryptOf(v) /\ EnvOf(v) /\ ConditionsOf(v)
      BY <1>1, <2>4 DEF StateOfLines
    <3>2. CryptOf(v)'
      BY <1>2, <2>1, <3>1 DEF CryptOf, OpenCrypt, Current, LinesOf, Place
    <3>3. EnvOf(v)' /\ ConditionsOf(v)'
      BY <1>2, <2>1, <3>1, SameConditions
    <3> QED
      BY <3>2, <3>3 DEF StateOfLines
  <2> QED
    BY <2>2, <2>3, <2>4 DEF PathInv
<1> QED
  BY <1>3, <1>4, <1>5, <1>6 DEF Next, Step, Halted, ReadsLine

\* The lines of a run have one list of verdicts: Verdicts builds any that is one.
LEMMA VerdictsGiven ==
  ASSUME NEW v, Judged(v), globalLineNo \in Nat
  PROVE  Verdicts = v
<1>1. PICK n \in Nat : n = globalLineNo
  OBVIOUS
<1>2. /\ v \in Seq(Judgement) /\ Len(v) = n
      /\ \A k \in 1..n : v[k] = Verdict(v, k)
  BY <1>1 DEF Judged
<1> DEFINE F == [k \in 0..n |-> SubSeq(v, 1, k)]
           body(h) == [k \in 0..n |->
                         IF k = 0 THEN <<>>
                         ELSE Append(h[k - 1], Verdict(h[k - 1], k))]
           upTo == CHOOSE h : h = body(h)
<1>3. ASSUME NEW k \in 1..n
      PROVE  F[k] = Append(F[k - 1], Verdict(F[k - 1], k))
  <2>1. PICK a : a = SubSeq(v, 1, k - 1)
    OBVIOUS
  <2>2. F[k - 1] = a /\ F[k] = SubSeq(v, 1, k)
    BY <2>1
  <2>3. a \in Seq(Judgement) /\ Len(a) = k - 1 /\ \A i \in 1..(k - 1) : a[i] = v[i]
    BY <1>2, <2>1
  <2>4. Verdict(a, k) = Verdict(v, k)
    <3>1. Agree(v, a, k - 1) /\ k - 1 \in Nat /\ k \in 1..((k - 1) + 1)
      BY <2>3 DEF Agree
    <3> QED
      BY <3>1, AgreeOnVerdict
  <2>5. SubSeq(v, 1, k) = Append(a, v[k])
    <3>1. v[k] \in Judgement
      BY <1>2
    <3>2. /\ Append(a, v[k]) \in Seq(Judgement) /\ Len(Append(a, v[k])) = k
          /\ Append(a, v[k])[k] = v[k]
          /\ \A i \in 1..(k - 1) : Append(a, v[k])[i] = v[i]
      BY <2>3, <3>1
    <3>3. /\ SubSeq(v, 1, k) \in Seq(Judgement) /\ Len(SubSeq(v, 1, k)) = k
          /\ \A i \in 1..k : SubSeq(v, 1, k)[i] = v[i]
      BY <1>2
    <3>4. \A i \in 1..k : i \in 1..(k - 1) \/ i = k
      OBVIOUS
    <3>5. \A i \in 1..k : Append(a, v[k])[i] = SubSeq(v, 1, k)[i]
      BY <3>2, <3>3, <3>4
    <3>6. PICK b, c : b = Append(a, v[k]) /\ c = SubSeq(v, 1, k)
      OBVIOUS
    <3>7. b \in Seq(Judgement) /\ c \in Seq(Judgement) /\ Len(b) = Len(c)
          /\ \A i \in 1..Len(b) : b[i] = c[i]
      BY <3>2, <3>3, <3>5, <3>6
    <3>8. b = c
      BY <3>7, SeqEqual
    <3> QED
      BY <3>6, <3>8
  <2> QED
    BY <1>2, <2>2, <2>4, <2>5
<1>4. F = body(F)
  <2>1. F[0] = <<>> /\ \A k \in 0..n : k # 0 => k \in 1..n
    OBVIOUS
  <2>2. \A k \in 0..n : F[k] = body(F)[k]
    BY <1>3, <2>1
  <2> QED
    BY <2>2
<1>5. upTo = body(upTo)
  <2> HIDE DEF body
  <2> QED
    BY <1>4
<1>6. Verdicts = upTo[n]
  BY <1>1 DEF Verdicts
<1>7. PICK h : h = upTo
  OBVIOUS
<1>8. h = body(h)
  BY <1>5, <1>7
<1> HIDE DEF upTo, F
<1>9. /\ h[0] = <<>>
      /\ \A k \in 1..n : h[k] = Append(h[k - 1], Verdict(h[k - 1], k))
  <2>1. 0 \in 0..n /\ \A k \in 1..n : k \in 0..n /\ k # 0
    OBVIOUS
  <2>2. \A k \in 0..n : h[k] = body(h)[k]
    <3> HIDE DEF body
    <3> QED
      BY <1>8
  <2> QED
    BY <2>1, <2>2
<1> DEFINE P == {k \in 0..n : h[k] = F[k]}
<1>10. 0 \in P
  <2>1. F[0] = <<>>
    BY DEF F
  <2> QED
    BY <1>9, <2>1
<1>11. ASSUME NEW k \in 1..n, k - 1 \in P
       PROVE  k \in P
  <2>1. h[k - 1] = F[k - 1] /\ k \in 0..n
    BY <1>11
  <2>2. h[k] = F[k]
    BY <1>3, <1>9, <2>1
  <2> QED
    BY <2>1, <2>2
<1> HIDE DEF P
<1>12. n \in P
  <2>1. \A k \in 0..n : k \in P
    BY <1>10, <1>11, UpTo
  <2> QED
    BY <2>1
<1>13. h[n] = F[n]
  BY <1>12 DEF P
<1>14. F[n] = v
  <2>1. F[n] = SubSeq(v, 1, n)
    BY DEF F
  <2>2. SubSeq(v, 1, Len(v)) = v
    BY <1>2
  <2> QED
    BY <1>2, <2>1, <2>2
<1> QED
  BY <1>6, <1>7, <1>13, <1>14

\* The text written is the text of the lines whose every enclosing branch is
\* selected (execute, processIfdef to processEndif, processInclude): the stack,
\* the flag, the names and the variables always stand for what counting the
\* lines read makes of them.
THEOREM EffectiveLines == Spec => []EffectivePath
<1>1. Init => PathInv
  BY PathOfNothing
<1>2. IInv /\ PathInv /\ [Next]_vars => PathInv'
  BY NextPath
<1>3. IInv /\ PathInv => EffectivePath
  <2> SUFFICES ASSUME IInv, PathInv, status \in {"done", "exited", "aborted"}
               PROVE  {out[i].global : i \in DOMAIN out} =
                        {g \in 1..LinesDone : Expected(Verdicts, g)}
    BY DEF EffectivePath
  <2>1. PICK v : Judged(v) /\ Written(v)
    BY DEF PathInv
  <2>2. globalLineNo \in Nat
    BY DEF IInv, TypeOK
  <2>3. Verdicts = v
    BY <2>1, <2>2, VerdictsGiven
  <2>4. LinesDone = Done
    BY DEF LinesDone, Done, Stopped
  <2> QED
    BY <2>1, <2>3, <2>4 DEF Written
<1> QED
  BY <1>1, <1>2, <1>3, InductiveInvariant, PTL DEF Spec
=============================================================================
