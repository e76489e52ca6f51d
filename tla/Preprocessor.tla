---------------------------- MODULE Preprocessor ----------------------------
(***************************************************************************)
(* The SVRF preprocessor, rcsPreProcessor_T (rcsPreprocessor.cpp).         *)
(*                                                                         *)
(* One object reads one file line by line and appends to the one temporary *)
(* file `.svrf2pvrs.tmp'; an INCLUDE statement creates a nested object for *)
(* the included file, and all objects share the static members: the set of *)
(* open include files, the global line number, the name definitions, the   *)
(* stack of conditionals and the enabled flag.  A step of this module is   *)
(* one turn of the loop of execute(): it reads one line of the file on top *)
(* of `frames' and does everything the line's directive makes the code do. *)
(*                                                                         *)
(* Later stages look errors up by the line number of the temporary file,   *)
(* so what matters of the output is which source line each piece of text   *)
(* came from and on which line of the temporary file it landed.            *)
(***************************************************************************)
EXTENDS Naturals, SequencesExt

CONSTANTS
  Files,        \* files on disk
  Paths,        \* absolute spellings of file names, as INCLUDE resolves them
  Root,         \* the spelling the conversion is started with
  FileOf,       \* the file each spelling names ("./a" and "a" are one file)
  Names,        \* names of directives, up to case; some are "$VAR", and an
                \* environment variable is spelled in one case
  DollarNames,  \* the names that start with "$"
  PathVar,      \* the "$VAR" a path is spelled with, or NoName
  NoName,
  Values,       \* values of names and of environment variables, up to case
  EmptyValue,   \* the empty string
  NoValue,      \* getenv() returned NULL
  Env,          \* the environment of the process
  Disks,        \* the contents of the disk to consider
  Modes         \* the option settings to consider

ConditionalDirs == {"IFDEF", "IFNDEF", "ELSE", "ENDIF"}
DefinitionDirs  == {"DEFINE", "REDEFINE", "UNDEFINE", "REUNDEFINE"}

\* CONDITIONALS_TYPE, the result of judgeFirstDirective on a trimmed line.
Directives == ConditionalDirs \cup DefinitionDirs \cup
              {"INCL", "DECRYPT", "ENDCRYPT", "COND_PRAGMA", "INVALID"}

\* A line: its directive, its number of operands (3 stands for more than two)
\* and the operands, of which a directive uses the ones it can have.
Line == [dir : Directives, ops : 0..3, name : Names, value : Values,
         path : Paths, quoted : BOOLEAN]

\* What stat() and the TVF compiler say of a file, and its lines (of a TVF
\* file: the lines the compiler generates).
File == [state : {"regular", "irregular", "missing", "badTvf"},
         lines : Seq(Line)]

\* -full sets convertSwitch, -oi both, -sf with -oi only convertIncludeFile.
Mode == [convertSwitch : BOOLEAN, convertIncludeFile : BOOLEAN]

ASSUME ConstantsTyped ==
  /\ Root \in Paths
  /\ FileOf \in [Paths -> Files]
  /\ DollarNames \subseteq Names
  /\ PathVar \in [Paths -> DollarNames \cup {NoName}]
  /\ NoName \notin Names
  /\ EmptyValue \in Values
  /\ NoValue \notin Values
  /\ Env \in [DollarNames -> Values \cup {NoValue}]
  /\ Disks \subseteq [Files -> File]
  /\ Modes \subseteq Mode

VARIABLES
  disk,              \* the files, fixed during a run
  mode,              \* m_convertSwitch and isConvertIncludeFile(), fixed
  status,            \* start, running, done, exited (FATAL) or aborted
  frames,            \* the active execute() calls, innermost last
  fileCollection,    \* m_sgsetFileCollection
  globalLineNo,      \* m_sgnGlobalLineNo
  nameDefinition,    \* m_sgmapNameDefinition
  conditionalsStack, \* m_sgvConditionalsStack
  isEnabled,         \* m_sgisEnabled
  envMap,            \* the variables #pragma env has set
  lineIndex,         \* the error manager's global line -> (file, local line)
  newlines,          \* newline characters written so far
  out,               \* the text written, and the line it was written on
  includeFile,       \* m_vIncludeFile: the files to convert on their own
  errorList          \* the error manager's list

runVars  == <<disk, mode>>
condVars == <<conditionalsStack, isEnabled>>
vars == <<runVars, status, frames, fileCollection, globalLineNo,
          nameDefinition, condVars, envMap, lineIndex, newlines, out,
          includeFile, errorList>>

Frame == [path : Paths, pos : Nat, crypt : BOOLEAN]

NameValue == [known : BOOLEAN, isDefined : BOOLEAN, sValue : Values,
              guiPro : {"NONE", "REDEFINE", "REUNDEFINE"}]

ErrorTypes == {"DEF1", "DEF2", "DEF3", "DEF4", "INCL1", "INCL2", "INCL3",
               "INCL4", "ENV1", "CON3", "PRAGMA6", "PRAGMA8", "PRAGMA9"}

TypeOK ==
  /\ disk \in [Files -> File]
  /\ mode \in Mode
  /\ status \in {"start", "running", "done", "exited", "aborted"}
  /\ frames \in Seq(Frame)
  /\ fileCollection \subseteq Paths
  /\ globalLineNo \in Nat
  /\ nameDefinition \in [Names -> NameValue]
  /\ conditionalsStack \in
       Seq([type : {"IFDEF", "IFNDEF", "ELSE"}, enabled : BOOLEAN])
  /\ isEnabled \in BOOLEAN
  /\ envMap \in [DollarNames -> Values \cup {NoValue}]
  /\ lineIndex \in Seq([path : Paths, local : Nat])
  /\ newlines \in Nat
  /\ out \in Seq([at : Nat, global : Nat])
  /\ includeFile \in Seq(Paths)
  /\ errorList \in Seq([type : ErrorTypes, line : Nat])

-----------------------------------------------------------------------------
(***************************************************************************)
(* Reading and writing.                                                    *)
(***************************************************************************)
LinesOf(path) == disk[FileOf[path]].lines

Current     == Last(frames)
CurrentLine == LinesOf(Current.path)[Current.pos + 1]

\* Mutant: the last line of a file is not read.
AtEndEarly == Current.pos + 1 >= Len(LinesOf(Current.path))

AtEnd == Current.pos = Len(LinesOf(Current.path))

\* The processor on top is about to read a line with one of these directives.
Reads(dirs) ==
  /\ status = "running"
  /\ ~Current.crypt
  /\ ~AtEnd
  /\ CurrentLine.dir \in dirs

AdvancedFrame(crypt) ==
  [path |-> Current.path, pos |-> Current.pos + 1, crypt |-> crypt]

\* The head of the loop: count the line and register it (MapLineIndex).
CountLine ==
  /\ globalLineNo' = globalLineNo + 1
  /\ lineIndex' =
       Append(lineIndex, [path |-> Current.path, local |-> Current.pos + 1])

TakeLine ==
  /\ CountLine
  /\ frames' = [frames EXCEPT ![Len(frames)] = AdvancedFrame(FALSE)]

\* Text of the current line, if any, and then n newlines.
Write(hasText, n) ==
  /\ out' = IF hasText
              THEN Append(out, [at |-> newlines + 1, global |-> globalLineNo'])
              ELSE out
  /\ newlines' = newlines + n

WriteNothing == UNCHANGED <<newlines, out>>

\* rcErrManager_T::addError: an error other than INCL1 is reported at once,
\* and the report ends the process (in the GUI, the conversion).
AddError(type) ==
  errorList' = Append(errorList, [type |-> type, line |-> globalLineNo'])

Fatal(type) ==
  /\ AddError(type)
  /\ status' = "exited"

NoError == UNCHANGED <<errorList, status>>

OperandError == IF CurrentLine.ops = 0 THEN "DEF1" ELSE "DEF2"

-----------------------------------------------------------------------------
(***************************************************************************)
(* Start: execute() of the processor of the rule file, after initial().    *)
(***************************************************************************)
Init ==
  /\ disk \in Disks
  /\ mode \in Modes
  /\ status = "start"
  /\ frames = <<>>
  /\ fileCollection = {}
  /\ globalLineNo = 0
  /\ nameDefinition =
       [n \in Names |-> [known |-> FALSE, isDefined |-> FALSE,
                         sValue |-> EmptyValue, guiPro |-> "NONE"]]
  /\ conditionalsStack = <<>>
  /\ isEnabled = TRUE
  /\ envMap = [n \in DollarNames |-> NoValue]
  /\ lineIndex = <<>>
  /\ newlines = 0
  /\ out = <<>>
  /\ includeFile = <<>>
  /\ errorList = <<>>

OpenFrame(path) == [path |-> path, pos |-> 0, crypt |-> FALSE]

\* The rule file itself is not put into fileCollection.
Start ==
  /\ status = "start"
  /\ status' = "running"
  /\ frames' = <<OpenFrame(Root)>>
  /\ errorList' = IF disk[FileOf[Root]].state = "missing"
                    THEN <<[type |-> "INCL1", line |-> globalLineNo]>>
                    ELSE errorList
  /\ UNCHANGED <<runVars, fileCollection, globalLineNo, nameDefinition,
                 condVars, envMap, lineIndex, newlines, out, includeFile>>

-----------------------------------------------------------------------------
(***************************************************************************)
(* Name definitions.  An entry a #redefine or #reundefine has marked is    *)
(* left alone by #define and #undefine outside of conditionals; inside of  *)
(* one they overwrite it, mark and all kept.                               *)
(***************************************************************************)
SetName(n, isDefined, value, guiPro) ==
  [nameDefinition EXCEPT ![n] = [known |-> TRUE, isDefined |-> isDefined,
                                 sValue |-> value, guiPro |-> guiPro]]

Marked(n) == nameDefinition[n].guiPro # "NONE"

insert_def_force(n, value) ==
  SetName(n, TRUE, value, nameDefinition[n].guiPro)

insert_def(n, value) ==
  IF Marked(n) THEN nameDefinition ELSE insert_def_force(n, value)

\* Mutant: the value becomes a null instead of the empty string.
insert_undef_forceNull(n) ==
  SetName(n, FALSE, NoValue, nameDefinition[n].guiPro)

insert_undef_force(n) ==
  SetName(n, FALSE, EmptyValue, nameDefinition[n].guiPro)

insert_undef(n) ==
  IF Marked(n) THEN nameDefinition ELSE insert_undef_force(n)

insert_redef(n, value) == SetName(n, TRUE, value, "REDEFINE")
insert_reundef(n)      == SetName(n, FALSE, EmptyValue, "REUNDEFINE")

\* The value operand of #define and #redefine, empty when it is left out.
ValueOperand == IF CurrentLine.ops = 2 THEN CurrentLine.value ELSE EmptyValue

InConditional == conditionalsStack # <<>>

\* A directive the preprocessor obeys (it obeys none under convertSwitch).
Obeys(dirs) ==
  /\ Reads(dirs)
  /\ ~mode.convertSwitch
  /\ TakeLine
  /\ UNCHANGED <<runVars, fileCollection, envMap, includeFile>>

\* A directive with between 1 and most operands takes effect when enabled; any
\* other is an error even in a disabled branch.
Definition(dirs, most, effect) ==
  /\ Obeys(dirs)
  /\ UNCHANGED condVars
  /\ \/ /\ CurrentLine.ops \in 1..most
        /\ nameDefinition' = IF isEnabled THEN effect ELSE nameDefinition
        /\ Write(FALSE, 1)
        /\ NoError
     \/ /\ CurrentLine.ops \notin 1..most
        /\ Fatal(OperandError)
        /\ WriteNothing
        /\ UNCHANGED nameDefinition

ProcessDefine ==
  Definition({"DEFINE"}, 2,
             IF InConditional
               THEN insert_def_force(CurrentLine.name, ValueOperand)
               ELSE insert_def(CurrentLine.name, ValueOperand))

ProcessUndefine ==
  Definition({"UNDEFINE"}, 1,
             IF InConditional THEN insert_undef_force(CurrentLine.name)
                              ELSE insert_undef(CurrentLine.name))

ProcessRedefine ==
  Definition({"REDEFINE"}, 2, insert_redef(CurrentLine.name, ValueOperand))

ProcessReundefine ==
  Definition({"REUNDEFINE"}, 1, insert_reundef(CurrentLine.name))

-----------------------------------------------------------------------------
(***************************************************************************)
(* Conditionals.  A stack entry holds the enabled flag as it was before an *)
(* #ifdef or #ifndef, and as it is after an #else.                         *)
(***************************************************************************)
\* g_warpper_getenv: the environment first, then the #pragma env variables.
GetEnv(n) == IF Env[n] # NoValue THEN Env[n] ELSE envMap[n]

\* What #ifdef makes of its one or two operands; a name that was ever given to
\* a definition directive is not looked up in the environment.
IfdefHolds ==
  LET n == CurrentLine.name
  IN  IF nameDefinition[n].known
        THEN /\ nameDefinition[n].isDefined
             /\ \/ CurrentLine.ops = 1
                \/ nameDefinition[n].sValue = CurrentLine.value
        ELSE /\ n \in DollarNames
             /\ IF CurrentLine.ops = 1
                  THEN GetEnv(n) \notin {NoValue, EmptyValue}
                  ELSE GetEnv(n) = CurrentLine.value

Push(type, enabled) ==
  conditionalsStack' =
    Append(conditionalsStack, [type |-> type, enabled |-> enabled])

\* Mutant: the branch is enabled whatever is around it.
SelectedAlone(holds) == holds

\* A disabled conditional is not evaluated and stays disabled.
Selected(holds) == isEnabled /\ holds

Conditional(type, holds) ==
  /\ Obeys({type})
  /\ UNCHANGED nameDefinition
  /\ Push(type, isEnabled)
  /\ \/ /\ CurrentLine.ops \in {1, 2}
        /\ isEnabled' = Selected(holds)
        /\ Write(FALSE, 1)
        /\ NoError
     \/ /\ CurrentLine.ops \notin {1, 2}
        /\ Fatal(OperandError)
        /\ WriteNothing
        /\ UNCHANGED isEnabled

ProcessIfdef  == Conditional("IFDEF", IfdefHolds)
ProcessIfndef == Conditional("IFNDEF", ~IfdefHolds)

\* Mutant: #else turns the flag over whatever is around it.
ElseToggles == ~isEnabled

\* The flag after #else: FALSE if it was FALSE before the #ifdef.
ElseEnabled == isEnabled # Last(conditionalsStack).enabled

ElseMisplaced ==
  conditionalsStack # <<>> => Last(conditionalsStack).type = "ELSE"

ProcessElse ==
  /\ Obeys({"ELSE"})
  /\ UNCHANGED nameDefinition
  /\ \/ /\ ElseMisplaced
        /\ Fatal("DEF3")
        /\ WriteNothing
        /\ UNCHANGED condVars
     \/ /\ ~ElseMisplaced
        /\ CurrentLine.ops # 0
        /\ Fatal("DEF2")
        /\ WriteNothing
        /\ UNCHANGED condVars
     \/ /\ ~ElseMisplaced
        /\ CurrentLine.ops = 0
        /\ isEnabled' = ElseEnabled
        /\ Push("ELSE", isEnabled')
        /\ Write(FALSE, 1)
        /\ NoError

\* Mutant: #endif pops one entry, be it of the #else.
WithElse == conditionalsStack

\* The stack without the entry of an #else, if there is one on top.
WithoutElse ==
  IF Last(conditionalsStack).type = "ELSE" THEN Front(conditionalsStack)
                                           ELSE conditionalsStack

ProcessEndif ==
  /\ Obeys({"ENDIF"})
  /\ UNCHANGED nameDefinition
  /\ \/ /\ conditionalsStack = <<>>
        /\ Fatal("DEF4")
        /\ WriteNothing
        /\ UNCHANGED condVars
     \/ /\ conditionalsStack # <<>>
        /\ CurrentLine.ops # 0
        /\ Fatal("DEF2")
        /\ WriteNothing
        /\ UNCHANGED condVars
     \/ /\ conditionalsStack # <<>>
        /\ CurrentLine.ops = 0
        /\ isEnabled' = Last(WithoutElse).enabled
        /\ conditionalsStack' = Front(WithoutElse)
        /\ Write(FALSE, 1)
        /\ NoError

-----------------------------------------------------------------------------
(***************************************************************************)
(* Lines that are copied, and #pragma env, which is obeyed and copied      *)
(* whatever the enabled flag says.                                         *)
(***************************************************************************)
Copies ==
  /\ TakeLine
  /\ NoError
  /\ UNCHANGED <<runVars, fileCollection, nameDefinition, condVars,
                 includeFile>>

CopyText ==
  /\ Reads({"INVALID"})
  /\ Copies
  /\ Write(isEnabled, 1)
  /\ UNCHANGED envMap

\* Under convertSwitch the directives are text for the later stages.
EchoDirective ==
  /\ \/ Reads(ConditionalDirs \cup DefinitionDirs) /\ mode.convertSwitch
     \/ Reads({"ENDCRYPT"})
  /\ Copies
  /\ Write(mode.convertSwitch, 1)
  /\ UNCHANGED envMap

\* rcsPragmaManager::insertEnvVar: the first value stays.
PragmaClashes ==
  /\ CurrentLine.ops = 2
  /\ envMap[CurrentLine.name] \notin {NoValue, CurrentLine.value}

\* A #pragma that is not `env' counts as one without operands.
PragmaError ==
  CASE CurrentLine.ops = 0 -> "PRAGMA6"
    [] CurrentLine.ops = 2 -> "PRAGMA9"
    [] OTHER               -> "PRAGMA8"

ProcessPragma ==
  /\ Reads({"COND_PRAGMA"})
  /\ \/ /\ CurrentLine.ops = 2 /\ ~PragmaClashes
        /\ Copies
        /\ envMap' = [envMap EXCEPT ![CurrentLine.name] = CurrentLine.value]
        /\ Write(TRUE, 1)
     \/ /\ CurrentLine.ops # 2 \/ PragmaClashes
        /\ TakeLine
        /\ Fatal(PragmaError)
        /\ WriteNothing
        /\ UNCHANGED <<runVars, fileCollection, nameDefinition, condVars,
                       envMap, includeFile>>

-----------------------------------------------------------------------------
(***************************************************************************)
(* INCLUDE without -oi: an empty line, and then the lines of the file.     *)
(***************************************************************************)
\* Mutant: the INCLUDE statement leaves no line in the output.
IncludeFrameSilent ==
  /\ Reads({"INCL"})
  /\ ~mode.convertIncludeFile
  /\ CountLine
  /\ WriteNothing
  /\ UNCHANGED <<runVars, nameDefinition, condVars, envMap, includeFile>>

IncludeFrame ==
  /\ Reads({"INCL"})
  /\ ~mode.convertIncludeFile
  /\ CountLine
  /\ Write(FALSE, 1)
  /\ UNCHANGED <<runVars, nameDefinition, condVars, envMap, includeFile>>

StayInFile == frames' = [frames EXCEPT ![Len(frames)] = AdvancedFrame(FALSE)]

Included == CurrentLine.path

\* parseFileName fails: the path has a variable that is unset or empty.
Unresolved(path) ==
  /\ PathVar[path] # NoName
  /\ GetEnv(PathVar[path]) \in {NoValue, EmptyValue}

StateOf(path) == disk[FileOf[path]].state

IncludeDisabled ==
  /\ IncludeFrame
  /\ ~isEnabled
  /\ StayInFile
  /\ NoError
  /\ UNCHANGED fileCollection

\* The errors that end the run before the file is looked at.
IncludeRejected ==
  /\ IncludeFrame
  /\ isEnabled
  /\ StayInFile
  /\ UNCHANGED fileCollection
  /\ \/ CurrentLine.ops = 0 /\ Fatal("INCL3")
     \/ CurrentLine.ops > 1 /\ Fatal("INCL4")
     \/ CurrentLine.ops = 1 /\ Unresolved(Included) /\ Fatal("ENV1")
     \/ /\ CurrentLine.ops = 1 /\ ~Unresolved(Included)
        /\ Included \in fileCollection
        /\ Fatal("INCL2")

\* Mutant: the path is not registered while its file is being read.
RegisterNothing == UNCHANGED fileCollection

Register == fileCollection' = fileCollection \cup {Included}

Accepts ==
  /\ IncludeFrame
  /\ isEnabled
  /\ CurrentLine.ops = 1
  /\ ~Unresolved(Included)
  /\ Included \notin fileCollection
  /\ Register

\* INCL1 is kept for later, the run goes on, and the path stays registered.
IncludeUnreadable ==
  /\ Accepts
  /\ StateOf(Included) \in {"missing", "irregular"}
  /\ StayInFile
  /\ AddError("INCL1")
  /\ UNCHANGED status

IncludeTvfFails ==
  /\ Accepts
  /\ StateOf(Included) = "badTvf"
  /\ StayInFile
  /\ status' = "exited"
  /\ UNCHANGED errorList

ProcessInclude ==
  /\ Accepts
  /\ StateOf(Included) = "regular"
  /\ frames' = Append([frames EXCEPT ![Len(frames)] = AdvancedFrame(FALSE)],
                      OpenFrame(Included))
  /\ NoError

ExhaustsFile ==
  /\ status = "running"
  /\ ~Current.crypt
  /\ AtEnd

\* Mutant: the end of a file enables what follows its INCLUDE.
ReturnEnabled ==
  /\ frames' = Front(frames)
  /\ IF Len(frames) = 1
       THEN /\ status' = "done"
            /\ UNCHANGED fileCollection
       ELSE /\ fileCollection' = fileCollection \ {Current.path}
            /\ UNCHANGED status
  /\ isEnabled' = TRUE
  /\ UNCHANGED <<runVars, globalLineNo, nameDefinition, conditionalsStack,
                 envMap, lineIndex, newlines, out, includeFile, errorList>>

\* execute() returns; processInclude of the outer file forgets the path.
Return ==
  /\ frames' = Front(frames)
  /\ IF Len(frames) = 1
       THEN /\ status' = "done"
            /\ UNCHANGED fileCollection
       ELSE /\ fileCollection' = fileCollection \ {Current.path}
            /\ UNCHANGED status
  /\ UNCHANGED <<runVars, globalLineNo, nameDefinition, condVars, envMap,
                 lineIndex, newlines, out, includeFile, errorList>>

\* Mutant: the end of a file is waited out until every #ifdef has its #endif.
EndOfFileWaits ==
  /\ ExhaustsFile
  /\ IF InConditional THEN UNCHANGED vars ELSE Return

EndOfFile ==
  /\ ExhaustsFile
  /\ Return

(***************************************************************************)
(* INCLUDE under -oi: the line is rewritten to include the converted file, *)
(* whether it is enabled or not, and ended only if the name was quoted.    *)
(***************************************************************************)
\* Without a name substr(8) throws, for an unset variable std::string(NULL).
ConversionThrows ==
  \/ CurrentLine.ops = 0
  \/ PathVar[Included] # NoName /\ GetEnv(PathVar[Included]) = NoValue

\* A name without quotes does not end its line.
IncludeNewlines == IF CurrentLine.quoted THEN 1 ELSE 0

ConvertInclude ==
  /\ Reads({"INCL"})
  /\ mode.convertIncludeFile
  /\ TakeLine
  /\ UNCHANGED <<runVars, fileCollection, nameDefinition, condVars, envMap,
                 errorList>>
  /\ \/ /\ ConversionThrows
        /\ status' = "aborted"
        /\ WriteNothing
        /\ UNCHANGED includeFile
     \/ /\ ~ConversionThrows
        /\ Write(TRUE, IncludeNewlines)
        /\ includeFile' = Append(includeFile, Included)
        /\ UNCHANGED status

-----------------------------------------------------------------------------
(***************************************************************************)
(* #decrypt: an inner loop that blanks the lines up to #endcrypt or        *)
(* #encrypt, of the same file, whatever directives they hold.              *)
(***************************************************************************)
InCrypt ==
  /\ status = "running"
  /\ Current.crypt

KeepState ==
  UNCHANGED <<runVars, status, fileCollection, nameDefinition, condVars,
              envMap, includeFile>>

CryptFrame(crypt) ==
  frames' = [frames EXCEPT ![Len(frames)] = AdvancedFrame(crypt)]

ProcessDecrypt ==
  /\ Reads({"DECRYPT"})
  /\ CountLine
  /\ CryptFrame(TRUE)
  /\ Write(FALSE, 1)
  /\ AddError("CON3")
  /\ KeepState

SkipCrypted ==
  /\ InCrypt
  /\ ~AtEnd
  /\ CountLine
  /\ CryptFrame(CurrentLine.dir # "ENDCRYPT")
  /\ Write(FALSE, 1)
  /\ UNCHANGED errorList
  /\ KeepState

\* No #endcrypt: the newline that ends the block's last line is written, and
\* there is no source line for it.
DecryptAtEndOfFile ==
  /\ InCrypt
  /\ AtEnd
  /\ frames' = [frames EXCEPT ![Len(frames)] =
                  [path |-> Current.path, pos |-> Current.pos, crypt |-> FALSE]]
  /\ Write(FALSE, 1)
  /\ UNCHANGED <<globalLineNo, lineIndex, errorList>>
  /\ KeepState

-----------------------------------------------------------------------------
Halted ==
  /\ status \in {"done", "exited", "aborted"}
  /\ UNCHANGED vars

Step ==
  \/ Start
  \/ ProcessDefine \/ ProcessUndefine \/ ProcessRedefine \/ ProcessReundefine
  \/ ProcessIfdef \/ ProcessIfndef \/ ProcessElse \/ ProcessEndif
  \/ CopyText \/ EchoDirective \/ ProcessPragma
  \/ IncludeDisabled \/ IncludeRejected \/ IncludeUnreadable
  \/ IncludeTvfFails \/ ProcessInclude \/ EndOfFile \/ ConvertInclude
  \/ ProcessDecrypt \/ SkipCrypted \/ DecryptAtEndOfFile

Next == Step \/ Halted

\* The preprocessor is a loop nobody interrupts: it takes the steps it can.
Spec == Init /\ [][Next]_vars /\ WF_vars(Step)
=============================================================================
