--------------------------- MODULE MacroExpansion ---------------------------
(***************************************************************************)
(* The macro parser, rcsLexMacroParser_T (rcsMacroParser.cpp): DMACRO      *)
(* definitions are taken out of the list of tokens, and CMACRO calls are   *)
(* replaced by the bodies, again and again until no call is left.          *)
(*                                                                         *)
(* A step is one turn of a loop of parse(): it looks at the token the      *)
(* iterator is at and does all that the token causes.  `phase' says which  *)
(* of the loops is running.                                                *)
(***************************************************************************)
EXTENDS Integers, SequencesExt

CONSTANTS
  Names,       \* spellings of names
  Lower,       \* what toLower() makes of a spelling
  ValidNames,  \* the spellings that isValidSvrfName() accepts
  NoName,      \* the value of the tokens that are not names
  Decks,       \* the lists of tokens to consider
  Flatten      \* the values of m_flattenMacro to consider

\* TOKEN_TYPE, as far as macros care.  NAME is an identifier or a secondary
\* keyword, SIGN is "+" or "-", EQUAL is "=" and stands for the separators
\* that are not named.  OTHER is the rest; its value may be that of a name.
NameTypes  == {"NAME", "STRING"}
Separators == {"OPEN", "CLOSE", "LBRACKET", "RBRACKET", "EQUAL"}
TokenTypes == NameTypes \cup Separators \cup
              {"DMACRO", "CMACRO", "NUMBER", "SIGN", "BLANK", "OTHER"}

\* One element of namescopes: the text name<n>.
Scope == [name : Names, n : Nat]

\* `call' is a history field: the expansion that put the token here, 0 for
\* the tokens of the deck.
Token ==
  {t \in [type : TokenTypes, value : Names \cup {NoName}, line : Nat,
          namescopes : Seq(Scope), call : Nat] :
     t.type \in NameTypes => t.value \in Names}

Macro == [tokens : Seq(Token), nParas : Nat, nCallTimes : Nat]

ErrorTypes == {"MAC1", "MAC2", "MAC3", "MAC4", "MAC5", "MAC6", "MAC7",
               "MAC9", "MAC10"}

NoError == [type |-> "none", line |-> 0]

ASSUME ConstantsTyped ==
  /\ Lower \in [Names -> Names]
  /\ \A n \in Names : Lower[Lower[n]] = Lower[n]
  /\ ValidNames \subseteq Names
  /\ NoName \notin Names
  /\ Decks \subseteq Seq(Token)
  /\ \A d \in Decks : \A i \in DOMAIN d :
       /\ d[i].namescopes = <<>>
       /\ d[i].call = 0
  /\ Flatten \subseteq BOOLEAN

VARIABLES
  deck,         \* the tokens of the lexical parser, fixed
  flattenMacro, \* m_flattenMacro, fixed
  phase,        \* the loop that runs, or how the run ended
  stream,       \* m_listTokenStream
  pos,          \* the iterator
  macros,       \* m_mapMacros
  local,        \* the locals of replaceCMacro()
  error,        \* the error that ended the run
  calls         \* history: macro, caller and own scope of each expansion

inputs == <<deck, flattenMacro>>
vars == <<inputs, phase, stream, pos, macros, local, error, calls>>

Call == [macro : Names, caller : Nat, scope : Scope]

Argument == [para : Names \cup {NoName}, tokens : Seq(Token)]

\* The locals of replaceCMacro(): the iterators into the stream and into the
\* definition, the arguments in order, and what the copied tokens get.
Locals == [name : Names \cup {NoName}, iCMacro : Nat, iDMacro : Nat,
           vArguments : Seq(Argument), namescopes : Seq(Scope), nBrace : Nat]

NoLocals == [name |-> NoName, iCMacro |-> 0, iDMacro |-> 0,
             vArguments |-> <<>>, namescopes |-> <<>>, nBrace |-> 0]

TypeOK ==
  /\ deck \in Seq(Token)
  /\ flattenMacro \in BOOLEAN
  /\ phase \in {"extract", "expand", "arguments", "copy", "rescan",
               "done", "exited", "undefined"}
  /\ stream \in Seq(Token)
  /\ pos \in 1..(Len(stream) + 1)
  /\ DOMAIN macros \subseteq Names
  /\ macros \in [DOMAIN macros -> Macro]
  /\ local \in Locals
  /\ error \in [type : ErrorTypes, line : Nat] \cup {NoError}
  /\ calls \in Seq(Call)

-----------------------------------------------------------------------------
(***************************************************************************)
(* Positions in a list of tokens; Len + 1 stands for end().                *)
(***************************************************************************)
AtEnd(s, i) == i = Len(s) + 1

\* The first position from i on with one of the types, or end().
Find(s, i, types) ==
  Min({Len(s) + 1} \cup {j \in i..Len(s) : s[j].type \in types})

SkipBlankSpaceToken(s, i) == Find(s, i + 1, TokenTypes \ {"BLANK"})

CountOf(s, lo, hi, type) == Cardinality({j \in lo..hi : s[j].type = type})

\* The brace that closes the one at `open', or end().
CloseOf(s, open) ==
  Min({Len(s) + 1} \cup
      {j \in (open + 1)..Len(s) :
         /\ s[j].type = "CLOSE"
         /\ CountOf(s, open, j, "OPEN") = CountOf(s, open, j, "CLOSE")})

Key(token) == IF token.value \in Names THEN Lower[token.value] ELSE NoName

NameAccepted(token) ==
  \/ token.type = "STRING"
  \/ token.type = "NAME" /\ token.value \in ValidNames

Here == stream[pos]

Exit(type, line) ==
  /\ phase' = "exited"
  /\ error' = [type |-> type, line |-> line]
  /\ UNCHANGED <<inputs, stream, pos, macros, local, calls>>

\* The code reads a token at end() or beyond: anything may follow.
ReadPastEnd ==
  /\ phase' = "undefined"
  /\ UNCHANGED <<inputs, stream, pos, macros, local, error, calls>>

-----------------------------------------------------------------------------
(***************************************************************************)
(* extractMacro() and parseMacroParas().                                   *)
(***************************************************************************)
\* The definition at position pos: its name, the outer braces of its body
\* (end() where one is missing) and the text between name and body.
Definition ==
  LET name  == SkipBlankSpaceToken(stream, pos)
      open  == IF AtEnd(stream, name) THEN name
               ELSE Find(stream, name + 1, {"OPEN"})
      close == CloseOf(stream, open)
  IN  [name |-> name, open |-> open, close |-> close]

\* Separators between the parameters are skipped like blanks.
ParaAt(j) == stream[j].type \notin Separators \cup {"BLANK"}

Paras(lo, hi) == {Key(stream[j]) : j \in {k \in lo..hi : ParaAt(k)}}

InvalidPara(j) == ParaAt(j) /\ ~NameAccepted(stream[j])

DuplicatePara(name, j) == ParaAt(j) /\ Key(stream[j]) \in Paras(name + 1, j - 1)

BadParas(d) ==
  {j \in (d.name + 1)..(d.open - 1) :
     InvalidPara(j) \/ DuplicatePara(d.name, j)}

DefNamed(d) == ~AtEnd(stream, d.name) /\ NameAccepted(stream[d.name])

Redefined(d) == flattenMacro /\ Key(stream[d.name]) \in DOMAIN macros

RejectDefinition(d) ==
  \/ /\ ~DefNamed(d)
     /\ Exit("MAC1", Here.line)
  \/ /\ DefNamed(d) /\ BadParas(d) # {}
     /\ LET j == Min(BadParas(d))
        IN  Exit(IF InvalidPara(j) THEN "MAC4" ELSE "MAC5", stream[j].line)
  \/ /\ DefNamed(d) /\ BadParas(d) = {}
     /\ AtEnd(stream, d.open)
     /\ Exit("MAC2", Here.line)
  \/ /\ DefNamed(d) /\ BadParas(d) = {} /\ ~AtEnd(stream, d.open)
     /\ Redefined(d)
     /\ Exit("MAC3", Here.line)

AcceptDefinition(d) ==
  DefNamed(d) /\ BadParas(d) = {} /\ ~AtEnd(stream, d.open) /\ ~Redefined(d)

NewMacro(d) ==
  [tokens     |-> SubSeq(stream, pos, d.close),
   nParas     |-> Cardinality(Paras(d.name + 1, d.open - 1)),
   nCallTimes |-> 0]

\* m_flattenMacro: the definition is stored and erased.
DefineMacro(d) ==
  /\ AcceptDefinition(d)
  /\ flattenMacro
  /\ ~AtEnd(stream, d.close)
  /\ macros' = [n \in DOMAIN macros \cup {Key(stream[d.name])} |->
                  IF n \in DOMAIN macros THEN macros[n] ELSE NewMacro(d)]
  /\ stream' = SubSeq(stream, 1, pos - 1)
               \o SubSeq(stream, d.close + 1, Len(stream))
  /\ UNCHANGED <<inputs, phase, pos, local, error, calls>>

\* Nothing checks that there is a closing brace before ++iter.
DefineUnclosed(d) ==
  /\ AcceptDefinition(d)
  /\ flattenMacro
  /\ AtEnd(stream, d.close)
  /\ ReadPastEnd

BodyOf(d) == d.open..Min({d.close, Len(stream)})

\* The names in front of "=", outside of [ ].
DefLayers(d) ==
  {Key(stream[j]) : j \in
     {k \in BodyOf(d) :
        LET next     == SkipBlankSpaceToken(stream, k)
            brackets == {i \in d.open..k :
                           stream[i].type \in {"LBRACKET", "RBRACKET"}}
        IN  /\ stream[k].type \in NameTypes
            /\ next \in BodyOf(d)
            /\ stream[next].type = "EQUAL"
            /\ brackets # {} => stream[Max(brackets)].type = "RBRACKET"}}

\* Mutant: only the parameters are rewritten.
ParasOnly(d) == Paras(d.name + 1, d.open - 1)

LocalNames(d) == Paras(d.name + 1, d.open - 1) \cup DefLayers(d)

\* Otherwise the definition stays, its parameters and layers in lower case.
KeepMacro(d) ==
  /\ AcceptDefinition(d)
  /\ ~flattenMacro
  /\ \E names \in {LocalNames(d)} :
       stream' = [j \in DOMAIN stream |->
                    IF /\ j \in BodyOf(d)
                       /\ stream[j].type \in NameTypes
                       /\ Key(stream[j]) \in names
                    THEN [stream[j] EXCEPT !.value = Key(stream[j])]
                    ELSE stream[j]]
  /\ pos' = d.close
  /\ UNCHANGED <<inputs, phase, macros, local, error, calls>>

ExtractMacro ==
  /\ phase = "extract"
  /\ ~AtEnd(stream, pos)
  /\ Here.type = "DMACRO"
  /\ \E d \in {Definition} :
       \/ RejectDefinition(d)
       \/ DefineMacro(d)
       \/ DefineUnclosed(d)
       \/ KeepMacro(d)

-----------------------------------------------------------------------------
(***************************************************************************)
(* parseCMacro() and replaceCMacro().                                      *)
(***************************************************************************)
CallName == stream[pos + 1]

\* Both loops look a call's name up in the token after CMACRO.
CallsDefined == Key(CallName) \in DOMAIN macros

\* Mutant: recursion is looked for in the innermost scope only.
InInnermostScope ==
  Here.namescopes # <<>> /\ Last(Here.namescopes).name = Key(CallName)

\* strcmp() of a name as it was spelled in a call and one in lower case.
InOwnScope ==
  \E k \in DOMAIN Here.namescopes : Here.namescopes[k].name = Key(CallName)

RejectCall ==
  \/ ~NameAccepted(CallName) /\ Exit("MAC6", Here.line)
  \/ NameAccepted(CallName) /\ InOwnScope /\ Exit("MAC10", CallName.line)

\* The first parameter is two tokens after DMACRO, and the first argument is
\* after the name of the call.
EnterCall ==
  /\ NameAccepted(CallName)
  /\ ~InOwnScope
  /\ phase' = "arguments"
  /\ \E tokens \in {macros[Key(CallName)].tokens} :
       local' = [NoLocals EXCEPT
                   !.name    = Key(CallName),
                   !.iCMacro = SkipBlankSpaceToken(stream, pos + 1),
                   !.iDMacro = SkipBlankSpaceToken(tokens,
                                 SkipBlankSpaceToken(tokens, 1))]
  /\ UNCHANGED <<inputs, stream, pos, macros, error, calls>>

ParseCMacro ==
  /\ phase = "expand"
  /\ pos < Len(stream)
  /\ Here.type = "CMACRO"
  /\ CallsDefined
  /\ RejectCall \/ EnterCall

Called == macros[local.name]

\* "+" or "-" and a number on the same line are one argument.
SignedNumber(i) ==
  LET number == SkipBlankSpaceToken(stream, i)
  IN  /\ stream[i].type = "SIGN"
      /\ ~AtEnd(stream, number)
      /\ stream[number].type = "NUMBER"
      /\ stream[number].line = stream[i].line

\* The last token of the argument that begins at i.
ArgumentEnd(i) ==
  IF SignedNumber(i) THEN SkipBlankSpaceToken(stream, i) ELSE i

ValidArgument(i) ==
  \/ NameAccepted(stream[i])
  \/ stream[i].type = "NUMBER"
  \/ SignedNumber(i)

ExpectsArgument ==
  phase = "arguments" /\ Len(local.vArguments) < Called.nParas

\* Parameter and argument are found by walking from token to token.
TakeArgument ==
  /\ ExpectsArgument
  /\ ~AtEnd(stream, local.iCMacro)
  /\ ValidArgument(local.iCMacro)
  /\ \E last \in {ArgumentEnd(local.iCMacro)} :
       local' = [local EXCEPT
         !.vArguments = Append(@,
            [para   |-> Key(Called.tokens[local.iDMacro]),
             tokens |-> IF last = local.iCMacro THEN <<stream[last]>>
                        ELSE <<stream[local.iCMacro], stream[last]>>]),
         !.iDMacro = SkipBlankSpaceToken(Called.tokens, @),
         !.iCMacro = SkipBlankSpaceToken(stream, last)]
  /\ UNCHANGED <<inputs, phase, stream, pos, macros, error, calls>>

\* The line of MAC9 is read from the token at end().
RejectArgument ==
  /\ ExpectsArgument
  /\ \/ /\ ~AtEnd(stream, local.iCMacro)
        /\ ~ValidArgument(local.iCMacro)
        /\ Exit("MAC7", stream[local.iCMacro].line)
     \/ /\ AtEnd(stream, local.iCMacro)
        /\ \E line \in {0} \cup {stream[i].line : i \in DOMAIN stream} :
             Exit("MAC9", line)

\* Mutant: the counter is not incremented.
StaleScope == [name |-> CallName.value, n |-> 1]

NewScope == [name |-> CallName.value, n |-> Called.nCallTimes + 1]

\* The call is erased, and copying begins after the brace of the definition.
ReplaceCMacro ==
  /\ phase = "arguments"
  /\ ~ExpectsArgument
  /\ phase' = "copy"
  /\ stream' = SubSeq(stream, 1, pos - 1)
               \o SubSeq(stream, local.iCMacro, Len(stream))
  /\ macros' = [macros EXCEPT ![local.name].nCallTimes = @ + 1]
  /\ local' = [local EXCEPT
                 !.namescopes = Append(Here.namescopes, NewScope),
                 !.iDMacro    = SkipBlankSpaceToken(Called.tokens, @),
                 !.nBrace     = 1]
  /\ calls' = Append(calls, [macro |-> local.name, caller |-> Here.call,
                             scope |-> NewScope])
  /\ UNCHANGED <<inputs, pos, error>>

-----------------------------------------------------------------------------
(***************************************************************************)
(* The loop of replaceCMacro() that copies the body.                       *)
(***************************************************************************)
DToken == Called.tokens[local.iDMacro]

\* The arguments that the token stands for: one, if it is a parameter.
ArgumentsFor(token) ==
  {k \in DOMAIN local.vArguments :
     token.type \in NameTypes /\ local.vArguments[k].para = Key(token)}

ArgumentFor(token) == local.vArguments[Min(ArgumentsFor(token))].tokens

\* Mutant: an argument gets the scopes of the body.
Rescoped(token) ==
  IF ArgumentsFor(token) # {}
  THEN [a \in DOMAIN ArgumentFor(token) |->
          [ArgumentFor(token)[a] EXCEPT !.line = token.line,
                                        !.namescopes = local.namescopes]]
  ELSE <<[token EXCEPT !.namescopes = local.namescopes, !.call = Len(calls)]>>

\* What a token of the body becomes.  An argument keeps its own scopes.
Substituted(token) ==
  IF ArgumentsFor(token) # {}
  THEN [a \in DOMAIN ArgumentFor(token) |->
          [ArgumentFor(token)[a] EXCEPT !.line = token.line]]
  ELSE <<[token EXCEPT !.namescopes = local.namescopes, !.call = Len(calls)]>>

BraceStep(token) == CASE token.type = "OPEN"  -> 1
                      [] token.type = "CLOSE" -> -1
                      [] OTHER -> 0

CopyToken ==
  /\ phase = "copy"
  /\ local.iDMacro <= Len(Called.tokens)
  /\ local.nBrace + BraceStep(DToken) # 0
  /\ \E piece \in {Substituted(DToken)} :
       /\ stream' = SubSeq(stream, 1, pos - 1) \o piece
                    \o SubSeq(stream, pos, Len(stream))
       /\ pos' = pos + Len(piece)
  /\ local' = [local EXCEPT !.iDMacro = @ + 1,
                            !.nBrace  = @ + BraceStep(DToken)]
  /\ UNCHANGED <<inputs, phase, macros, error, calls>>

\* The body that was inserted is not looked at again in this pass.
EndCopy ==
  /\ phase = "copy"
  /\ local.iDMacro <= Len(Called.tokens)
  /\ local.nBrace + BraceStep(DToken) = 0
  /\ phase' = "expand"
  /\ local' = NoLocals
  /\ UNCHANGED <<inputs, stream, pos, macros, error, calls>>

\* A separator among the parameters is one token more than the call expects:
\* the body seems to begin before its brace and has no end.
CopyPastEnd ==
  /\ phase = "copy"
  /\ local.iDMacro > Len(Called.tokens)
  /\ ReadPastEnd

-----------------------------------------------------------------------------
(***************************************************************************)
(* The loops of parse().                                                   *)
(***************************************************************************)
\* CMACRO is the last token.
CallWithoutName ==
  /\ phase \in {"expand", "rescan"}
  /\ pos = Len(stream)
  /\ Here.type = "CMACRO"
  /\ ReadPastEnd

\* Every other token is passed over, a call of an unknown macro too.
Skip ==
  /\ ~AtEnd(stream, pos)
  /\ \/ phase = "extract" /\ Here.type # "DMACRO"
     \/ phase \in {"expand", "rescan"} /\ Here.type # "CMACRO"
     \/ /\ phase = "expand" /\ Here.type = "CMACRO"
        /\ pos < Len(stream)
        /\ ~CallsDefined
  /\ pos' = pos + 1
  /\ UNCHANGED <<inputs, phase, stream, macros, local, error, calls>>

\* Mutant: the iterator is in front of the first token.
RewindTooFar(next) ==
  /\ phase' = next
  /\ pos' = 0
  /\ UNCHANGED <<inputs, stream, macros, local, error, calls>>

Rewind(next) ==
  /\ phase' = next
  /\ pos' = 1
  /\ UNCHANGED <<inputs, stream, macros, local, error, calls>>

EndExtract == phase = "extract" /\ AtEnd(stream, pos) /\ Rewind("expand")

EndPass == phase = "expand" /\ AtEnd(stream, pos) /\ Rewind("rescan")

\* Mutant: any call makes another pass, of a known macro or not.
AgainForAnyCall == TRUE

\* Mutant: one pass is all.
NeverAgain == FALSE

\* hasCmacro is what the first call in the list makes it.
Again == CallsDefined

FirstCall ==
  /\ phase = "rescan"
  /\ pos < Len(stream)
  /\ Here.type = "CMACRO"
  /\ Rewind(IF Again THEN "expand" ELSE "done")

NoCall == phase = "rescan" /\ AtEnd(stream, pos) /\ Rewind("done")

Ended == phase \in {"done", "exited", "undefined"}

Halted == Ended /\ UNCHANGED vars

Init ==
  /\ deck \in Decks
  /\ flattenMacro \in Flatten
  /\ phase = "extract"
  /\ stream = deck
  /\ pos = 1
  /\ macros = [n \in {} |-> NoName]
  /\ local = NoLocals
  /\ error = NoError
  /\ calls = <<>>

Step ==
  \/ ExtractMacro
  \/ ParseCMacro
  \/ TakeArgument
  \/ RejectArgument
  \/ ReplaceCMacro
  \/ CopyToken
  \/ EndCopy
  \/ CopyPastEnd
  \/ CallWithoutName
  \/ Skip
  \/ EndExtract
  \/ EndPass
  \/ FirstCall
  \/ NoCall

Next == Step \/ Halted

Spec == Init /\ [][Next]_vars /\ WF_vars(Step)
=============================================================================
