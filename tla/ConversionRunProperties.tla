----------------------- MODULE ConversionRunProperties -----------------------
(***************************************************************************)
(* What has to hold of a process of svrf2pvrs.                             *)
(***************************************************************************)
EXTENDS ConversionRun

Options == [usage : BOOLEAN, in : BOOLEAN, out : BOOLEAN, sf : BOOLEAN,
            full : BOOLEAN, oi : BOOLEAN, gui : BOOLEAN, trs : BOOLEAN]

Kinds    == {"text", "directive", "macro", "syntax", "warning", "include"}
Place    == [file : Sources, name : Path, line : Nat \ {0}]
Position == [name : Path, line : Nat \ {0}]
Token    == [kind : Kinds, place : Place]

Errors == [type : {"OPEN1", "INCL1", "INCL2", "directive", "MACRO", "SYNTAX",
                   "WARNING"},
           line : Nat, place : Place \cup {NoPlace}]

Messages == [error : Errors, at : Position \cup {NoPlace}, logged : BOOLEAN]

Readers == [source : Sources, name : Path, line : Nat \ {0}]

Frames == [file : Path, out : Path, sf : BOOLEAN, shift : Nat,
           script : BOOLEAN, reading : Seq(Readers),
           registered : SUBSET Sources, tokens : Seq(Token), line : Nat,
           includes : Seq(Path), next : Nat \ {0},
           pc : {"begin", "check", "preprocess", "read", "parse", "convert",
                 "report", "includes"}]

\* Types, and what holds the parts together: a conversion that is going on has
\* frames, and the lines that are mapped are those that have been counted, from
\* one conversion to the next.
TypeOK ==
  /\ disk \in [Names -> File]
  /\ opt \in Options
  /\ args \in Seq(Arguments)
  /\ status \in {"start", "idle", "converting", "thrown", "returned",
                 "exited", "overflow"}
  /\ frames \in Seq(Frames)
  /\ status \in {"converting", "thrown"} => frames # <<>>
  /\ tmpIndex \in Nat
  /\ temps \subseteq {Tmp, SwitchTmp, ScriptTmp}
                      \cup {Generated(n) : n \in 0..(tmpIndex - 1)}
  /\ svrfFileName \in Path
  /\ compiled \in Names
  /\ outStream \in [open : BOOLEAN, path : Path]
  /\ logStream \in {"unset", "open", "closed"}
  /\ \A p \in DOMAIN output : p \in Path /\ output[p] \in Path
  /\ globalLineNo \in Nat
  /\ lineIndex \in [DOMAIN lineIndex -> Position]
  /\ DOMAIN lineIndex \in {{}, 1..globalLineNo}
  /\ errorList \in Seq(Errors)
  /\ shown \in Seq(Messages)
  /\ conversions \in 0..MaxConversions

-----------------------------------------------------------------------------
\* The name of -o is not one that an include file's output gets.
OutFileApart == \A n \in Sources : OutFile # OutputName(n)

\* An execute() that has written its output and goes on with its include files
\* finds it as it has left it: they share one stream, but each conversion's
\* text is in the file that is named for its input (rcsSvrf2Pvrs.cpp:220-222,
\* 420-422).  With -o inc.pvrs a file inc that is included writes over it.
OwnOutput ==
  OutFileApart =>
    \A i \in DOMAIN frames :
      frames[i].pc \in {"report", "includes"} =>
        \/ output[frames[i].out] = frames[i].file
        \/ \E j \in DOMAIN frames : j > i /\ frames[j].out = frames[i].out

\* Names without the endings that execute() looks for.
PlainNames == \A n \in Names : ~Contains(n, "trs") /\ ~Contains(n, "pvrs")

\* A nested execute() gets back the name that the INCLUDE had, though it is
\* only told the name of the output file (rcsSvrf2Pvrs.cpp:180-192).
InputRecovered ==
  PlainNames => \A i \in 2..Len(frames) :
                  OutputName(frames[i].file) = frames[i].out

\* When a run with -oi returns, every file whose conversion was written has
\* the conversions of all the files it includes next to it, so that the
\* include statements written for them name files that exist.  A TVF file that
\* does not compile is the exception: its conversion fails alone.  So is a TVF
\* deck with a switch file: what is included in the deck's place is the script,
\* which has been removed when its turn comes; the process ends with an error,
\* or, if the switch file was a TVF file that did not compile, converts the
\* script that this one left.
AllConverted ==
  /\ status = "returned" /\ opt.oi /\ ~opt.trs /\ PlainNames
  /\ ~(opt.sf /\ isTVFRule(Deck))
  => \A p \in DOMAIN output : output[p] \in Names =>
       \A i \in DOMAIN disk[output[p]].lines :
         LET line == disk[output[p]].lines[i]
             path == OutputName(line.target)
         IN  line.kind = "include" =>
               /\ path \in DOMAIN output
               /\ output[path] = IF StateOf(line.target) = "badTvf"
                                 THEN Partial ELSE line.target

\* The user's own text: what is read from a file that is not TVF.
Written(place) == place.file \in Names /\ disk[place.file].state = "svrf"

\* Each error is reported at the line where it is, and in the user's own file
\* if that file is SVRF: the stages know lines of the temporary file, the map
\* knows global lines, which go on from one conversion to the next under -oi
\* and start again in a window (rcErrorManager.cpp:544-571).  Text that the
\* program has made itself, from a TVF file or for -sf, is told by the name of
\* the temporary file it was read from, which the user has not written and
\* which may be gone (rcsPreprocessor.cpp:262-263, 626-652).  The exception are
\* errors of the macro parser in a later file.
ErrorPlace ==
  \A i \in DOMAIN shown :
    LET place == shown[i].error.place IN
    (shown[i].error.type = "MACRO" => Len(frames) <= 1) =>
      IF place = NoPlace THEN shown[i].at = NoPlace
      ELSE /\ shown[i].at = Told(place)
           /\ Written(place) => shown[i].at.name = place.file

\* The file in which an error of the macro parser is reported is the one it is
\* in, as the message has it (rcErrorManager.cpp:562-571, "on line L of F").
MacroErrorFile ==
  \A i \in DOMAIN shown :
    LET place == shown[i].error.place IN
    shown[i].error.type = "MACRO" /\ Written(place) =>
      shown[i].at # NoPlace /\ shown[i].at.name = place.file

\* At the end of a conversion the user has seen every error once, in order,
\* and the log has them.  Under -oi the log is not opened again and warnings
\* are repeated by each file, but none is lost.
EveryErrorReported ==
  (Ended /\ status # "overflow") \/ status = "idle" =>
    LET reported == [i \in DOMAIN shown |-> shown[i].error] IN
    IF opt.oi THEN ToSet(errorList) \subseteq ToSet(reported)
              ELSE /\ reported = errorList
                   /\ \A i \in DOMAIN shown : shown[i].logged

\* A process that returns from main() with 0 has met no fatal error; INCL1,
\* which does not end the preprocessor, ends the process in the end.
FatalEndsRun ==
  status = "returned" => \A i \in DOMAIN errorList : ~IsFatal(errorList[i])

\* No stream is open between two conversions, whether the last one has ended
\* by a return or by an exception: deleteInstance() drops the streams without
\* closing them.  -trs for a deck that is not TVF does leave one open.
StreamsClosed ==
  status = "idle" \/ (status = "returned" /\ ~opt.trs) =>
    ~outStream.open /\ logStream # "open"

\* Every conversion compiled to the end what it compiled, and no TVF file was
\* included by another file's text.
Clean == /\ ~opt.gui
         /\ svrfFileName = ScriptTmp
         /\ \A p \in DOMAIN output : output[p] # Partial

\* A conversion that returns or throws has removed its temporary files, those
\* that included TVF files were compiled to as well; the script of a TVF deck
\* only if the conversion succeeds.
TempRemoved ==
  status \in {"idle", "returned"} =>
    /\ temps \subseteq {ScriptTmp}
    /\ Clean => temps = {}

\* A conversion ends, whatever the files include.
Termination == (status = "converting") ~> (Ended \/ status = "idle")

\* INCL2, "this file name is included recursively" (rcErrorManager.cpp:27), is
\* what a recursion of include files ends with.
RecursionReported == status # "overflow"
=============================================================================
