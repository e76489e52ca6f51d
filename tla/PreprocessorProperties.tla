----------------------- MODULE PreprocessorProperties -----------------------
(***************************************************************************)
(* What the preprocessor has to get right, stated over the state of        *)
(* Preprocessor.                                                           *)
(***************************************************************************)
EXTENDS Preprocessor

-----------------------------------------------------------------------------
(***************************************************************************)
(* A second meaning of conditionals, read off the lines that were read     *)
(* (`lineIndex' has them in order) without a stack and without a flag: the *)
(* blocks around a line are found by counting, a name is what the last     *)
(* live directive that may set it made of it.                              *)
(*                                                                         *)
(* `v' holds the verdicts on the lines before the one in question.         *)
(***************************************************************************)
LineAt(g) == LinesOf(lineIndex[g].path)[lineIndex[g].local]

\* Line g is one of the given directives, and not inside of a #decrypt block.
Plain(v, g, dirs) == ~v[g].crypted /\ v[g].line.dir \in dirs

Count(v, lo, hi, dirs) == Cardinality({k \in lo..hi : Plain(v, k, dirs)})
Opens(v, lo, hi)  == Count(v, lo, hi, {"IFDEF", "IFNDEF"})
Closes(v, lo, hi) == Count(v, lo, hi, {"ENDIF"})

\* The lines that open a block which is still open at line g.
Around(v, g) ==
  {h \in 1..(g - 1) :
     /\ Plain(v, h, {"IFDEF", "IFNDEF"})
     /\ \A j \in (h + 1)..(g - 1) : Closes(v, h + 1, j) <= Opens(v, h + 1, j)}

\* Line g is in the #else branch of the block that line h opens.
InElse(v, h, g) ==
  \E j \in (h + 1)..(g - 1) :
    /\ Plain(v, j, {"ELSE"})
    /\ Closes(v, h + 1, j) = Opens(v, h + 1, j)

NamesLive(v, j, n, dirs) ==
  Plain(v, j, dirs) /\ v[j].live /\ v[j].line.name = n

MarkDirs == {"REDEFINE", "REUNDEFINE"}

\* Live line j sets name n: always by a #redefine or #reundefine, otherwise
\* inside of a block, or as long as none of those two has named n.
Sets(v, j, n) ==
  /\ NamesLive(v, j, n, DefinitionDirs)
  /\ \/ v[j].line.dir \in MarkDirs
     \/ Around(v, j) # {}
     \/ ~\E k \in 1..(j - 1) : NamesLive(v, k, n, MarkDirs)

\* The #pragma env lines count even where they are not live.
EnvAt(v, h, n) ==
  LET sets == {j \in 1..(h - 1) : /\ Plain(v, j, {"COND_PRAGMA"})
                                  /\ v[j].line.name = n}
  IN  IF Env[n] # NoValue THEN Env[n]
      ELSE IF sets = {} THEN NoValue ELSE v[Min(sets)].line.value

\* The value that name n has at line h, NoValue if none.
ValueAt(v, h, n) ==
  LET sets == {j \in 1..(h - 1) : Sets(v, j, n)}
      last == v[Max(sets)].line
  IN  IF sets = {} THEN IF n \in DollarNames THEN EnvAt(v, h, n) ELSE NoValue
      ELSE IF last.dir \in {"UNDEFINE", "REUNDEFINE"} THEN NoValue
      ELSE IF last.ops = 2 THEN last.value ELSE EmptyValue

\* A name without a value does not hold, nor one with the empty string, unless
\* a directive has given it that.
Selects(v, h) ==
  LET line  == v[h].line
      value == ValueAt(v, h, line.name)
      given == \E j \in 1..(h - 1) : Sets(v, j, line.name)
      holds == IF line.ops = 2 THEN value = line.value
               ELSE value # NoValue /\ (given \/ value # EmptyValue)
  IN  holds = (line.dir = "IFDEF")

\* Line g is in a #decrypt block: the lines of its file from the #decrypt on
\* have been read one after the other, none of them an #endcrypt.
InBlock(v, g) ==
  \E h \in 1..(g - 1) :
    /\ Plain(v, h, {"DECRYPT"})
    /\ \A j \in (h + 1)..g :
         lineIndex[j] = [lineIndex[h] EXCEPT !.local = @ + (j - h)]
    /\ \A j \in (h + 1)..(g - 1) : v[j].line.dir # "ENDCRYPT"

\* Line g and what the lines before it make of it.
Verdict(v, g) ==
  [line    |-> LineAt(g),
   crypted |-> InBlock(v, g),
   live    |-> mode.convertSwitch \/ \A h \in Around(v, g) :
                                        Selects(v, h) # InElse(v, h, g)]

Verdicts ==
  LET upTo[g \in 0..globalLineNo] ==
        IF g = 0 THEN <<>>
        ELSE LET v == upTo[g - 1] IN Append(v, Verdict(v, g))
  IN  upTo[globalLineNo]

\* Line g contributes text to the output.
Expected(v, g) ==
  /\ ~v[g].crypted
  /\ CASE v[g].line.dir = "INVALID"     -> v[g].live
       [] v[g].line.dir = "COND_PRAGMA" -> TRUE
       [] v[g].line.dir = "INCL"        -> mode.convertIncludeFile
       [] v[g].line.dir = "DECRYPT"     -> FALSE
       [] OTHER                         -> mode.convertSwitch

\* The line a run stopped at, if it did, was not written.
LinesDone == IF status = "done" THEN globalLineNo ELSE globalLineNo - 1

\* The text written is the text of the lines whose every enclosing branch is
\* selected, no less and no more, over all files, nestings, definitions in
\* between and modes ("convertor only convert effective path", readme.md:46);
\* #pragma lines apart, which execute() copies from any branch.
EffectivePath ==
  status \in {"done", "exited", "aborted"} =>
    LET v == Verdicts
    IN  {out[i].global : i \in DOMAIN out} =
          {g \in 1..LinesDone : Expected(v, g)}

-----------------------------------------------------------------------------
(***************************************************************************)
(* The stack of conditionals.                                              *)
(***************************************************************************)
\* Once a branch is skipped nothing inside of it is enabled: flags on the stack
\* can only go from TRUE to FALSE towards the top, and if the current flag is
\* TRUE all of them are, the flag an #else computed from its #ifdef included; and
\* an #else is only ever on top of its #ifdef.  What processElse and
\* processEndif compute from the flags is right because of this.
SkippedStaysSkipped ==
  LET stack == conditionalsStack
  IN  /\ isEnabled => \A i \in DOMAIN stack : stack[i].enabled
      /\ \A i, j \in DOMAIN stack :
           i < j /\ stack[j].enabled => stack[i].enabled
      /\ \A i \in DOMAIN stack :
           stack[i].type = "ELSE" => i > 1 /\ stack[i - 1].type # "ELSE"

\* The entries of a stack that open a block, the number of those up to entry i,
\* and the one that opens block k.
BlockStarts(stack)  == {i \in DOMAIN stack : stack[i].type # "ELSE"}
StartsTo(stack, i)  == Cardinality({j \in BlockStarts(stack) : j <= i})
BlockStart(stack, k) ==
  CHOOSE i \in BlockStarts(stack) : StartsTo(stack, i) = k

\* The blocks a stack and a flag stand for: a block is live if the entry of the
\* block inside of it says so, the innermost one if the flag does.
BlocksOf(stack, enabled) ==
  LET n == Cardinality(BlockStarts(stack)) IN
  [k \in 1..n |->
     [live   |-> IF k < n THEN stack[BlockStart(stack, k + 1)].enabled
                          ELSE enabled,
      inElse |-> /\ BlockStart(stack, k) < Len(stack)
                 /\ stack[BlockStart(stack, k) + 1].type = "ELSE"]]

StackBlocks == BlocksOf(conditionalsStack, isEnabled)

Blocks == INSTANCE ConditionalBlocks WITH blocks <- StackBlocks

\* The saved and restored flag implements nested blocks with two branches.
ImplementsBlocks == Blocks!Spec

-----------------------------------------------------------------------------
(***************************************************************************)
(* Include files.                                                          *)
(***************************************************************************)
\* No include file is being read twice at a time, so nesting is bounded by the
\* number of spellings, and every one being read is in the collection.
OpenOnce ==
  /\ \A i, j \in 2..Len(frames) :
       i # j => frames[i].path # frames[j].path
  /\ \A i \in 2..Len(frames) : frames[i].path \in fileCollection

\* Anything between line h, the last one read of its file, and line m, the last
\* one read at all, belongs to the file that line h includes, all of which is
\* there, from its first line to its last.
OnlyIncluded(h, m) ==
  LET file == LineAt(h).path
  IN  h < m => /\ LineAt(h).dir = "INCL"
               /\ lineIndex[h + 1] = [path |-> file, local |-> 1]
               /\ \E j \in (h + 1)..m :
                    lineIndex[j] = [path  |-> file,
                                    local |-> Len(LinesOf(file))]

\* The lines of a file are read in order and one after the other, except that
\* all of an included file comes between the INCLUDE and the line after it.
IncludeInPlace ==
  \A g \in DOMAIN lineIndex :
    lineIndex[g].local > 1 =>
      \E h \in 1..(g - 1) :
        /\ lineIndex[h] = [lineIndex[g] EXCEPT !.local = @ - 1]
        /\ OnlyIncluded(h, g - 1)

\* The preprocessor ends, even on files that include each other.
Termination == <>(status \in {"done", "exited", "aborted"})

-----------------------------------------------------------------------------
(***************************************************************************)
(* Line numbers.                                                           *)
(***************************************************************************)
DirOf(file, i) == disk[file].lines[i].dir

\* Every #decrypt has an #endcrypt after it in its file, and under -oi every
\* file name is quoted.
Delimited ==
  \A file \in Files : \A i \in DOMAIN disk[file].lines :
    /\ DirOf(file, i) = "DECRYPT" =>
         \E j \in DOMAIN disk[file].lines :
           j > i /\ DirOf(file, j) = "ENDCRYPT"
    /\ DirOf(file, i) = "INCL" /\ mode.convertIncludeFile =>
         disk[file].lines[i].quoted

\* On a rule deck that is delimited, text is on the line of the temporary file
\* that has its global line number: this is how the errors of every later stage
\* are traced to a file and a line (reportError looks the number up).
LineMap ==
  Delimited => \A i \in DOMAIN out : out[i].at = out[i].global

-----------------------------------------------------------------------------
(***************************************************************************)
(* Claims of the documentation and the error messages that do not hold.    *)
(***************************************************************************)
\* rcErrorManager.cpp:27, "this file name is included recursively": the file
\* that INCL2 complains of is being read.
RecursionOnlyIfOpen ==
  \A i \in DOMAIN errorList :
    errorList[i].type = "INCL2" =>
      \E f \in DOMAIN frames :
        frames[f].path = LineAt(errorList[i].line).path
=============================================================================
