--------------------------- MODULE MCPreprocessor ---------------------------
(***************************************************************************)
(* Small disks for model checking Preprocessor.  A file is any sequence of *)
(* lines over a small alphabet, up to a length; every run has an alphabet  *)
(* of its own.                                                             *)
(***************************************************************************)
EXTENDS PreprocessorProperties

\* "alias" spells the file of "inc" differently, "env" is spelled with $v.
MCPaths  == {"deck", "inc", "alias", "gone", "env"}
MCFiles  == {"deck", "inc", "gone"}
MCFileOf == [p \in MCPaths |-> IF p \in MCFiles THEN p ELSE "inc"]
MCPathVar == [p \in MCPaths |-> IF p = "env" THEN "$v" ELSE NoName]

MCNames       == {"a", "$v", "$w"}
MCDollarNames == {"$v", "$w"}
MCValues      == {"", "1", "2"}

\* $v is not in the environment, $w is.
MCEnv == [n \in MCDollarNames |-> IF n = "$w" THEN "1" ELSE NoValue]

-----------------------------------------------------------------------------
Bare(dir) == [dir |-> dir, ops |-> 0, name |-> "a", value |-> "",
              path |-> "inc", quoted |-> TRUE]

Named(dir, name)  == [Bare(dir) EXCEPT !.ops = 1, !.name = name]
Valued(dir, name, value) ==
  [Bare(dir) EXCEPT !.ops = 2, !.name = name, !.value = value]
Include(path)     == [Bare("INCL") EXCEPT !.ops = 1, !.path = path]
Crowded(dir)      == [Bare(dir) EXCEPT !.ops = 3]
Text              == Bare("INVALID")

Regular(lines) == [state |-> "regular", lines |-> lines]
Absent(state)  == [state |-> state, lines |-> <<>>]

Disk(deck, inc, gone) ==
  [f \in MCFiles |-> CASE f = "deck" -> deck
                       [] f = "inc"  -> inc
                       [] f = "gone" -> gone]

OneFile(decks) ==
  {Disk(Regular(deck), Absent("missing"), Absent("missing")) : deck \in decks}

TwoFiles(decks, incs, others) ==
  {Disk(deck, Regular(inc), Absent(other)) :
     deck \in {Regular(lines) : lines \in decks} \cup {Absent("missing")},
     inc \in incs, other \in others}

-----------------------------------------------------------------------------
DefaultMode == {[convertSwitch |-> FALSE, convertIncludeFile |-> FALSE]}
AllModes    == Mode

\* Conditionals, nested, with names defined in between.
Conditionals ==
  {Text, Bare("ELSE"), Bare("ENDIF"), Named("IFDEF", "a"),
   Named("IFNDEF", "a"), Valued("IFDEF", "a", "1"),
   Valued("DEFINE", "a", "1"), Named("UNDEFINE", "a")}

Nesting ==
  {Text, Bare("ELSE"), Bare("ENDIF"), Named("IFDEF", "a"),
   Named("IFNDEF", "a"), Named("DEFINE", "a")}

\* Marks of #redefine and #reundefine.
Marks ==
  {Text, Named("IFDEF", "a"), Valued("IFDEF", "a", "2"), Bare("ENDIF"),
   Named("DEFINE", "a"), Valued("DEFINE", "a", "2"), Named("UNDEFINE", "a"),
   Valued("REDEFINE", "a", "2"), Named("REUNDEFINE", "a"),
   Named("IFDEF", "$w")}

\* Operands in the wrong number.
Misused ==
  {Bare(d) : d \in {"DEFINE", "UNDEFINE", "REDEFINE", "REUNDEFINE", "IFDEF",
                    "IFNDEF", "INCL", "COND_PRAGMA"}}
  \cup {Crowded(d) : d \in {"DEFINE", "UNDEFINE", "REUNDEFINE", "IFDEF",
                             "IFNDEF", "ELSE", "ENDIF", "INCL",
                             "COND_PRAGMA"}}
  \cup {Named("IFDEF", "a"), Named("IFNDEF", "a"), Bare("ELSE")}

ConditionalDisks ==
  OneFile(BoundedSeq(Conditionals, 4) \cup BoundedSeq(Nesting, 6) \cup
          BoundedSeq(Marks, 4) \cup BoundedSeq(Misused, 2))

\* Includes, of files that include each other, are missing or are spelled in
\* two ways, with conditionals that reach from one file into another.
IncludeDisks ==
  TwoFiles(BoundedSeq({Text, Named("IFDEF", "a"), Bare("ELSE"), Bare("ENDIF"),
                       Include("inc"), Include("alias"), Include("gone"),
                       Named("DEFINE", "a")}, 3),
           BoundedSeq({Text, Named("IFNDEF", "a"), Bare("ENDIF"),
                       Include("alias"), Include("deck")}, 2),
           {"missing"})
  \cup TwoFiles({<<Include(p), Include(q)>> : p, q \in {"gone", "inc"}},
                {<<>>, <<Include("gone")>>, <<Include("inc")>>},
                {"irregular", "badTvf"})

\* #decrypt, #pragma env and both kinds of INCLUDE.
OptionDisks ==
  TwoFiles(BoundedSeq({Text, Bare("DECRYPT"), Bare("ENDCRYPT"),
                       Named("IFDEF", "$v"), Valued("IFNDEF", "$v", "1"),
                       Bare("ENDIF"), Valued("COND_PRAGMA", "$v", "1"),
                       Valued("COND_PRAGMA", "$v", "2"), Bare("INCL"),
                       Include("env"),
                       [Include("inc") EXCEPT !.quoted = FALSE]}, 3),
           BoundedSeq({Text, Bare("DECRYPT"), Bare("ENDCRYPT")}, 1),
           {"missing"})

FileDisks == IncludeDisks \cup OptionDisks
=============================================================================
