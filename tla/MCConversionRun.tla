--------------------------- MODULE MCConversionRun ---------------------------
(***************************************************************************)
(* Small disks and command lines for model checking ConversionRun.         *)
(***************************************************************************)
EXTENDS ConversionRunProperties

MCDeck   == <<"deck", "rul">>
Inc      == <<"inc">>
Script   == <<"script">>
MCSwitch == <<"switch">>
MCNames  == {MCDeck, Inc, Script, MCSwitch}
MCOut    == <<"out">>
MCWords  == {"deck", "rul", "inc", "script", "switch", "out", "locked", ".",
             "svrf2pvrs", "tmp", "tvf2svrf", "included", "trs", "pvrs"}

Faulty(kind) == [kind |-> kind, target |-> Inc]
Text         == Faulty("text")

Regular(lines) == [state |-> "svrf", lines |-> lines]

Disk(deck, inc, script, switch) ==
  [n \in MCNames |-> CASE n = MCDeck   -> deck
                       [] n = Inc      -> inc
                       [] n = Script   -> script
                       [] n = MCSwitch -> switch]

DiskSet(decks, incs, scripts, switches) ==
  {Disk(deck, inc, script, switch) :
     deck \in decks, inc \in incs, script \in scripts, switch \in switches}

Missing == [state |-> "missing", lines |-> <<>>]

Scripts == {[state |-> s, lines |-> l] :
              s \in {"tvf", "badTvf"},
              l \in {<<Faulty("warning")>>, <<Include(Inc), Text>>}}
           \cup {[state |-> "irregular", lines |-> <<>>]}

IncFiles ==
  {Regular(lines) : lines \in
     {<<>>, <<Include(Script), Faulty("warning")>>,
      <<Text, Include(MCDeck)>>, <<Faulty("directive")>>}
     \cup {<<Faulty("warning"), Faulty(k)>> : k \in {"text", "macro", "syntax"}}}

\* A deck that includes SVRF and TVF files, which may include each other and
\* have errors for each stage.
IncludeDisks ==
  DiskSet({Regular(lines) : lines \in
             BoundedSeq({Text, Faulty("warning"), Faulty("syntax"),
                         Include(Inc), Include(Script)}, 3)},
          IncFiles, Scripts, {Regular(<<Text>>)})

\* One deck in every state, with a switch file.
DeckDisks ==
  DiskSet({[state |-> s, lines |-> l] :
             s \in {"svrf", "tvf", "badTvf", "irregular"},
             l \in BoundedSeq({Text, Faulty("directive"), Faulty("macro"),
                               Faulty("warning"), Faulty("syntax"),
                               Include(Inc)}, 2)},
          {Missing, Regular(<<>>), Regular(<<Include(Inc)>>)},
          {Missing, [state |-> "tvf", lines |-> <<Text>>]},
          {Regular(<<Text>>), Regular(<<Include(Script)>>), Missing,
           [state |-> "badTvf", lines |-> <<Text>>]})

WindowDisks ==
  DiskSet({Regular(lines) : lines \in
             BoundedSeq({Text, Faulty("directive"), Faulty("syntax"),
                         Include(Inc), Include(Script)}, 2)},
          {Missing, Regular(<<Faulty("macro"), Faulty("warning")>>)},
          {[state |-> s, lines |-> <<Faulty("warning")>>] :
             s \in {"tvf", "badTvf"}}
            \cup {[state |-> "tvf", lines |-> <<Faulty("directive")>>]},
          {Regular(<<Text>>)})

IncludeArgs == {<<"-i", "-oi">>, <<"-sf", "-i", "-oi">>, <<"-i", "-o">>}

DeckArgs == {<<"-i", "-o">>, <<"-i", "-o", "-sf">>, <<"-sf", "-full", "-i", "-o">>,
             <<"-full", "-sf", "-i", "-o">>, <<"-i", "-oi", "-o">>, <<"-i">>,
             <<"-trs", "-i", "-o">>, <<"-i", "-o", "-i">>,
             <<"-i", "-oi", "-trs">>}

WindowArgs == {<<"-gui">>, <<"-gui", "-gui">>, <<"-i", "-oi", "-gui">>}

\* An include file converts to the first of these paths, and a window may be
\* told to write to the second.
Locked == {<<"deck", "rul", "pvrs">>, <<"locked">>}

StartsOf(disks, argLists) == [disk : disks, args : argLists]

IncludeStarts == StartsOf(IncludeDisks, IncludeArgs)
AllStarts     == IncludeStarts \cup StartsOf(DeckDisks, DeckArgs)
                               \cup StartsOf(WindowDisks, WindowArgs)
=============================================================================
