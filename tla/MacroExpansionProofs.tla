------------------------ MODULE MacroExpansionProofs ------------------------
(***************************************************************************)
(* Theorems about MacroExpansion, for every deck: its state keeps its      *)
(* type, no two expansions get the same scope, in lower case no macro is   *)
(* expanded inside of its own expansion, definitions that stay spell their *)
(* layers in one way, and tokens carry the scopes of their expansion.      *)
(***************************************************************************)
EXTENDS MacroExpansionProperties, ListLemmas

-----------------------------------------------------------------------------
LEMMA Position ==
  ASSUME NEW s \in Seq(Token), NEW i \in Nat, NEW types, NEW f,
         f = Find(s, i, types)
  PROVE  /\ f \in Nat
         /\ f <= Len(s) + 1
         /\ i <= f \/ f = Len(s) + 1
         /\ f # Len(s) + 1 => s[f].type \in types
<1> DEFINE F == {Len(s) + 1} \cup {j \in i..Len(s) : s[j].type \in types}
<1>1. Len(s) \in Nat
  BY LenProperties
<1>2. F \in SUBSET Nat /\ F # {}
  BY <1>1
<1>3. f = Min(F)
  BY DEF Find
<1>4. f \in F
  <2> HIDE DEF F
  <2> QED
    BY <1>2, <1>3, MinIn
<1> QED
  BY <1>1, <1>4

LEMMA NextPosition ==
  ASSUME NEW s \in Seq(Token), NEW i \in Nat,
         NEW n, n = SkipBlankSpaceToken(s, i)
  PROVE  n \in Nat /\ 1 <= n /\ n <= Len(s) + 1 /\ (i < n \/ n = Len(s) + 1)
<1>1. i + 1 \in Nat /\ Len(s) \in Nat
  BY LenProperties
<1>2. n = Find(s, i + 1, TokenTypes \ {"BLANK"})
  BY DEF SkipBlankSpaceToken
<1> QED
  BY <1>1, <1>2, Position

LEMMA ClosePosition ==
  ASSUME NEW s \in Seq(Token), NEW i \in Nat, NEW c, c = CloseOf(s, i)
  PROVE  c \in Nat /\ c <= Len(s) + 1 /\ (i < c \/ c = Len(s) + 1)
<1> DEFINE C == {Len(s) + 1} \cup
                {j \in (i + 1)..Len(s) :
                   /\ s[j].type = "CLOSE"
                   /\ CountOf(s, i, j, "OPEN") = CountOf(s, i, j, "CLOSE")}
<1>1. Len(s) \in Nat
  BY LenProperties
<1>2. C \in SUBSET Nat /\ C # {}
  BY <1>1
<1>3. c \in C
  BY <1>2, MinIn DEF CloseOf
<1> QED
  BY <1>1, <1>3

LEMMA KeyTyped ==
  ASSUME NEW token
  PROVE  Key(token) \in Names \cup {NoName}
BY ConstantsTyped DEF Key

-----------------------------------------------------------------------------
(***************************************************************************)
(* The inductive invariant.  With low = TRUE it is about decks in lower    *)
(* case: a token's scopes then name each macro once.                       *)
(***************************************************************************)
NamedOnce(scopes) ==
  /\ \A j \in DOMAIN scopes : Lower[scopes[j].name] = scopes[j].name
  /\ \A j, k \in DOMAIN scopes : scopes[j].name = scopes[k].name => j = k

GoodScopes(low) == {s \in Seq(Scope) : low => NamedOnce(s)}

GoodToken(low) ==
  {t \in Token : /\ t.namescopes \in GoodScopes(low)
                 /\ low /\ t.value \in Names => Lower[t.value] = t.value}

GoodMacro(low) ==
  [tokens : Seq(GoodToken(low)), nParas : Nat, nCallTimes : Nat]

GoodArgument(low) ==
  [para : Names \cup {NoName}, tokens : Seq(GoodToken(low))]

GoodLocals(low) ==
  [name : Names \cup {NoName}, iCMacro : Nat, iDMacro : Nat,
   vArguments : Seq(GoodArgument(low)), namescopes : GoodScopes(low),
   nBrace : Nat]

InputsTyped ==
  /\ deck \in Seq(Token)
  /\ flattenMacro \in BOOLEAN
  /\ error \in [type : ErrorTypes, line : Nat] \cup {NoError}

StreamTyped(low) ==
  /\ stream \in Seq(GoodToken(low))
  /\ pos \in 1..(Len(stream) + 1)

MacrosTyped(low) ==
  /\ DOMAIN macros \subseteq Names
  /\ macros \in [DOMAIN macros -> GoodMacro(low)]

\* What parseCMacro() checked holds until the call is replaced.
PhaseInv ==
  /\ phase \in {"extract", "expand", "arguments", "copy", "rescan",
                "done", "exited", "undefined"}
  /\ phase \in {"arguments", "copy"} =>
       local.name \in DOMAIN macros /\ 1 <= local.iDMacro
  /\ phase = "arguments" =>
       /\ pos < Len(stream)
       /\ NameAccepted(CallName)
       /\ local.name = Key(CallName)
       /\ ~InOwnScope
       /\ pos < local.iCMacro
       /\ local.iCMacro <= Len(stream) + 1
  /\ phase = "copy" => 1 <= local.nBrace

\* Scopes are numbered by the counter of their macro.
CallsNumbered ==
  /\ calls \in Seq(Call)
  /\ \A i \in DOMAIN calls :
       /\ calls[i].macro \in DOMAIN macros
       /\ calls[i].macro = Lower[calls[i].scope.name]
       /\ calls[i].scope.n <= macros[calls[i].macro].nCallTimes

Inv(low) ==
  /\ InputsTyped
  /\ StreamTyped(low)
  /\ MacrosTyped(low)
  /\ local \in GoodLocals(low)
  /\ PhaseInv
  /\ CallsNumbered
  /\ FreshScopes

IInv == Inv(Lowercase)

-----------------------------------------------------------------------------
(***************************************************************************)
(* Tokens of the stream.                                                   *)
(***************************************************************************)
LEMMA GoodIsToken ==
  ASSUME NEW low \in BOOLEAN, NEW s \in Seq(GoodToken(low))
  PROVE  /\ s \in Seq(Token)
         /\ Len(s) \in Nat
         /\ DOMAIN s = 1..Len(s)
         /\ \A i \in 1..Len(s) : s[i] \in GoodToken(low)
<1>1. GoodToken(low) \subseteq Token
  BY DEF GoodToken
<1> QED
  BY <1>1, SeqMonotonic, LenProperties, ElementOfSeq

LEMMA Accepted ==
  ASSUME NEW token \in Token, NameAccepted(token)
  PROVE  /\ token.value \in Names
         /\ Key(token) \in Names
         /\ Key(token) = Lower[token.value]
BY ConstantsTyped DEF NameAccepted, Token, NameTypes, Key

\* Steps that change none of the lists.
LEMMA Quiet ==
  ASSUME NEW low \in BOOLEAN, Inv(low),
         UNCHANGED <<inputs, stream, macros, calls>>,
         pos' \in 1..(Len(stream) + 1),
         phase' \in {"extract", "expand", "rescan", "done", "exited",
                    "undefined"},
         local' \in {local, NoLocals},
         error' \in {error} \cup [type : ErrorTypes, line : Nat]
  PROVE  Inv(low)'
<1>1. NoLocals \in GoodLocals(low)
  <2>1. <<>> \in Seq(GoodArgument(low)) /\ <<>> \in Seq(Scope)
    BY EmptySeq
  <2>2. <<>> \in GoodScopes(low)
    BY <2>1 DEF GoodScopes, NamedOnce
  <2> QED
    BY <2>1, <2>2 DEF NoLocals, GoodLocals
<1>2. local' \in GoodLocals(low)
  BY <1>1 DEF Inv
<1>3. InputsTyped' /\ StreamTyped(low)' /\ MacrosTyped(low)'
  BY DEF Inv, InputsTyped, StreamTyped, MacrosTyped, inputs
<1>4. PhaseInv' /\ CallsNumbered' /\ FreshScopes'
  BY DEF Inv, PhaseInv, CallsNumbered, FreshScopes
<1> QED
  BY <1>2, <1>3, <1>4 DEF Inv

LEMMA ExitTyped ==
  ASSUME NEW low \in BOOLEAN, Inv(low), NEW type \in ErrorTypes,
         NEW line \in Nat, Exit(type, line)
  PROVE  Inv(low)'
<1>1. pos \in 1..(Len(stream) + 1)
  BY DEF Inv, StreamTyped
<1> QED
  BY <1>1, Quiet DEF Exit

LEMMA PastEndTyped ==
  ASSUME NEW low \in BOOLEAN, Inv(low), ReadPastEnd
  PROVE  Inv(low)'
<1>1. pos \in 1..(Len(stream) + 1)
  BY DEF Inv, StreamTyped
<1> QED
  BY <1>1, Quiet DEF ReadPastEnd

LEMMA RewindTyped ==
  ASSUME NEW low \in BOOLEAN, Inv(low), NEW next \in {"expand", "rescan", "done"},
         Rewind(next)
  PROVE  Inv(low)'
<1>1. 1 \in 1..(Len(stream) + 1)
  BY GoodIsToken DEF Inv, StreamTyped
<1> QED
  BY <1>1, Quiet DEF Rewind

-----------------------------------------------------------------------------
(***************************************************************************)
(* Definitions.                                                            *)
(***************************************************************************)
LEMMA DefinitionPlaced ==
  ASSUME NEW low \in BOOLEAN, Inv(low), phase = "extract", ~AtEnd(stream, pos),
         NEW d, d = Definition
  PROVE  /\ stream \in Seq(Token) /\ Len(stream) \in Nat
         /\ pos \in 1..Len(stream)
         /\ d.name \in Nat /\ pos <= d.name /\ d.name <= Len(stream) + 1
         /\ d.open \in Nat /\ pos <= d.open /\ d.open <= Len(stream) + 1
         /\ d.close \in Nat /\ pos <= d.close /\ d.close <= Len(stream) + 1
<1>1. /\ stream \in Seq(Token) /\ Len(stream) \in Nat
      /\ pos \in 1..Len(stream) /\ pos \in Nat
  BY GoodIsToken DEF Inv, StreamTyped, AtEnd
<1> DEFINE name  == SkipBlankSpaceToken(stream, pos)
           open  == IF AtEnd(stream, name) THEN name
                    ELSE Find(stream, name + 1, {"OPEN"})
           close == CloseOf(stream, open)
<1>2. name \in Nat /\ pos <= name /\ name <= Len(stream) + 1
  <2>1. /\ name \in Nat /\ name <= Len(stream) + 1
        /\ pos < name \/ name = Len(stream) + 1
    BY <1>1, NextPosition
  <2> HIDE DEF name
  <2> QED
    BY <1>1, <2>1
<1>3. name + 1 \in Nat
  BY <1>2
<1>4. open \in Nat /\ pos <= open /\ open <= Len(stream) + 1
  <2>1. CASE AtEnd(stream, name)
    BY <1>2, <2>1
  <2>2. CASE ~AtEnd(stream, name)
    <3>1. open = Find(stream, name + 1, {"OPEN"})
      BY <2>2
    <3> HIDE DEF name, open
    <3>2. /\ open \in Nat /\ open <= Len(stream) + 1
          /\ name + 1 <= open \/ open = Len(stream) + 1
      BY <1>1, <1>3, <3>1, Position
    <3> QED
      BY <1>1, <1>2, <3>2
  <2> QED
    BY <2>1, <2>2
<1>5. close \in Nat /\ pos <= close /\ close <= Len(stream) + 1
  <2> HIDE DEF open
  <2>1. /\ close \in Nat /\ close <= Len(stream) + 1
        /\ open < close \/ close = Len(stream) + 1
    BY <1>1, <1>4, ClosePosition
  <2> HIDE DEF close
  <2> QED
    BY <1>1, <1>4, <2>1
<1>6. d = [name |-> name, open |-> open, close |-> close]
  BY DEF Definition
<1> HIDE DEF name, open, close
<1> QED
  BY <1>1, <1>2, <1>4, <1>5, <1>6

LEMMA RejectDefinitionTyped ==
  ASSUME NEW low \in BOOLEAN, Inv(low), phase = "extract", ~AtEnd(stream, pos),
         NEW d, d = Definition, RejectDefinition(d)
  PROVE  Inv(low)'
<1>1. /\ stream \in Seq(Token) /\ Len(stream) \in Nat
      /\ pos \in 1..Len(stream)
      /\ d.name \in Nat /\ d.open \in Nat /\ d.open <= Len(stream) + 1
  BY DefinitionPlaced
<1>2. \A i \in 1..Len(stream) : stream[i].line \in Nat
  <2>1. \A i \in 1..Len(stream) : stream[i] \in Token
    BY <1>1, ElementOfSeq
  <2> QED
    BY <2>1 DEF Token
<1>3. Here.line \in Nat
  <2>1. pos \in 1..Len(stream) /\ Here = stream[pos]
    BY <1>1 DEF Here
  <2> QED
    BY <1>2, <2>1
<1>4. ASSUME BadParas(d) # {},
             NEW j, j = Min(BadParas(d)),
             Exit(IF InvalidPara(j) THEN "MAC4" ELSE "MAC5", stream[j].line)
      PROVE  Inv(low)'
  <2>1. BadParas(d) \in SUBSET Nat /\ BadParas(d) \subseteq 1..Len(stream)
    BY <1>1 DEF BadParas
  <2>2. j \in 1..Len(stream)
    BY <1>4, <2>1, MinIn
  <2>3. stream[j].line \in Nat
    BY <1>2, <2>2
  <2>4. (IF InvalidPara(j) THEN "MAC4" ELSE "MAC5") \in ErrorTypes
    BY DEF ErrorTypes
  <2> QED
    BY <1>4, <2>3, <2>4, ExitTyped
<1>5. {"MAC1", "MAC2", "MAC3"} \subseteq ErrorTypes
  BY DEF ErrorTypes
<1>6. CASE \E type \in {"MAC1", "MAC2", "MAC3"} : Exit(type, Here.line)
  BY <1>3, <1>5, <1>6, ExitTyped
<1> QED
  BY <1>4, <1>6 DEF RejectDefinition

LEMMA DefineMacroTyped ==
  ASSUME NEW low \in BOOLEAN, Inv(low), phase = "extract", ~AtEnd(stream, pos),
         NEW d, d = Definition, DefineMacro(d)
  PROVE  Inv(low)'
<1>1. /\ stream \in Seq(Token) /\ Len(stream) \in Nat
      /\ pos \in 1..Len(stream)
      /\ d.name \in Nat /\ pos <= d.name /\ d.name <= Len(stream) + 1
      /\ d.open \in Nat /\ d.open <= Len(stream) + 1
      /\ d.close \in Nat /\ pos <= d.close /\ d.close <= Len(stream) + 1
  BY DefinitionPlaced
<1>2. d.name \in 1..Len(stream) /\ NameAccepted(stream[d.name])
  <2>1. d.name # Len(stream) + 1 /\ NameAccepted(stream[d.name])
    BY DEF DefineMacro, AcceptDefinition, DefNamed, AtEnd
  <2> QED
    BY <1>1, <2>1
<1>3. Key(stream[d.name]) \in Names
  <2>1. stream[d.name] \in Token
    BY <1>1, <1>2, ElementOfSeq
  <2> QED
    BY <1>2, <2>1, Accepted
<1>4. d.close <= Len(stream)
  BY SMTT(30), <1>1 DEF DefineMacro, AtEnd
<1>5. stream' \in Seq(GoodToken(low)) /\ Len(stream') = Len(stream) - (d.close + 1 - pos)
  <2>1. stream \in Seq(GoodToken(low))
    BY DEF Inv, StreamTyped
  <2>2. d.close + 1 \in Nat
    BY <1>1
  <2>3. stream' = SubSeq(stream, 1, pos - 1)
                  \o SubSeq(stream, d.close + 1, Len(stream))
    BY DEF DefineMacro
  <2>4. pos <= d.close + 1 /\ d.close + 1 <= Len(stream) + 1 /\ 1 <= pos /\ pos \in Nat
    BY <1>1, <1>4
  <2> DEFINE b == d.close + 1
  <2>5. b \in Nat /\ pos <= b /\ b <= Len(stream) + 1
    BY <2>2, <2>4
  <2>6. stream' = SubSeq(stream, 1, pos - 1) \o SubSeq(stream, b, Len(stream))
    BY <2>3
  <2>7. stream' \in Seq(GoodToken(low)) /\ Len(stream') = Len(stream) - (b - pos)
    <3> HIDE DEF b
    <3> QED
      BY <2>1, <2>4, <2>5, <2>6, Cut
  <2> QED
    BY <1>1, <2>7
<1>6. StreamTyped(low)'
  <2>1. pos' = pos
    BY DEF DefineMacro
  <2> QED
    BY <1>1, <1>4, <1>5, <2>1 DEF StreamTyped
<1>7. NewMacro(d) \in GoodMacro(low)
  <2>1. SubSeq(stream, pos, d.close) \in Seq(GoodToken(low))
    BY <1>1, <1>4, Stretch DEF Inv, StreamTyped
  <2>2. Cardinality(Paras(d.name + 1, d.open - 1)) \in Nat
    <3> DEFINE lo == d.name + 1
               hi == d.open - 1
    <3>1. IsFiniteSet(lo..hi)
      <4>1. lo \in Int /\ hi \in Int
        BY <1>1
      <4> HIDE DEF lo, hi
      <4> QED
        BY <4>1, FS_Interval
    <3> DEFINE K == {k \in lo..hi : ParaAt(k)}
               keys == {Key(stream[j]) : j \in K}
               g == [j \in K |-> Key(stream[j])]
    <3>2. IsFiniteSet(K)
      BY <3>1, FS_Subset
    <3>3. g \in Surjection(K, keys)
      BY DEF Surjection
    <3>4. IsFiniteSet(keys)
      <4> HIDE DEF K, keys, g
      <4> QED
        BY <3>2, <3>3, FS_Surjection
    <3>5. keys = Paras(d.name + 1, d.open - 1)
      BY DEF Paras
    <3> QED
      BY <3>4, <3>5, FS_CardinalityType
  <2> QED
    BY <2>1, <2>2 DEF NewMacro, GoodMacro
<1>8. MacrosTyped(low)'
  BY <1>3, <1>7 DEF MacrosTyped, Inv, DefineMacro
<1>9. InputsTyped' /\ local' \in GoodLocals(low)
  BY DEF Inv, InputsTyped, DefineMacro, inputs
<1>10. PhaseInv'
  BY DEF Inv, PhaseInv, DefineMacro
<1>11. CallsNumbered' /\ FreshScopes'
  BY DEF Inv, CallsNumbered, FreshScopes, DefineMacro
<1> QED
  BY <1>6, <1>8, <1>9, <1>10, <1>11 DEF Inv

LEMMA KeepMacroTyped ==
  ASSUME NEW low \in BOOLEAN, Inv(low), phase = "extract", ~AtEnd(stream, pos),
         NEW d, d = Definition, KeepMacro(d)
  PROVE  Inv(low)'
<1>1. /\ stream \in Seq(Token) /\ Len(stream) \in Nat
      /\ pos \in 1..Len(stream)
      /\ d.close \in Nat /\ pos <= d.close /\ d.close <= Len(stream) + 1
  BY DefinitionPlaced
<1>2. PICK names \in {LocalNames(d)} :
        stream' = [j \in DOMAIN stream |->
                    IF /\ j \in BodyOf(d)
                       /\ stream[j].type \in NameTypes
                       /\ Key(stream[j]) \in names
                    THEN [stream[j] EXCEPT !.value = Key(stream[j])]
                    ELSE stream[j]]
  BY DEF KeepMacro
<1>3. DOMAIN stream = 1..Len(stream) /\ \A j \in 1..Len(stream) : stream[j] \in GoodToken(low)
  BY GoodIsToken DEF Inv, StreamTyped
<1>4. \A j \in 1..Len(stream) : stream'[j] \in GoodToken(low)
  <2> SUFFICES ASSUME NEW j \in 1..Len(stream)
               PROVE  stream'[j] \in GoodToken(low)
    OBVIOUS
  <2> DEFINE t == stream[j]
  <2>1. t \in GoodToken(low) /\ t \in Token
    BY <1>3 DEF GoodToken
  <2>2. ASSUME t.type \in NameTypes
        PROVE  [t EXCEPT !.value = Key(t)] \in GoodToken(low)
    <3>1. t.value \in Names /\ Key(t) = Lower[t.value] /\ Key(t) \in Names
          /\ Lower[Key(t)] = Key(t)
      BY <2>1, <2>2, ConstantsTyped DEF Token, Key
    <3> QED
      BY <2>1, <3>1 DEF GoodToken, Token
  <2> QED
    BY <1>2, <1>3, <2>1, <2>2
<1>5. stream' \in Seq(GoodToken(low)) /\ Len(stream') = Len(stream)
  BY <1>1, <1>2, <1>3, <1>4
<1>6. StreamTyped(low)'
  BY <1>1, <1>5 DEF StreamTyped, KeepMacro
<1>7. InputsTyped' /\ local' \in GoodLocals(low) /\ MacrosTyped(low)'
  BY DEF Inv, InputsTyped, MacrosTyped, KeepMacro, inputs
<1>8. PhaseInv' /\ CallsNumbered' /\ FreshScopes'
  BY DEF Inv, PhaseInv, CallsNumbered, FreshScopes, KeepMacro
<1> QED
  BY <1>6, <1>7, <1>8 DEF Inv

LEMMA ExtractMacroTyped ==
  ASSUME NEW low \in BOOLEAN, Inv(low), ExtractMacro
  PROVE  Inv(low)'
<1>1. PICK d \in {Definition} : \/ RejectDefinition(d)
                                \/ DefineMacro(d)
                                \/ DefineUnclosed(d)
                                \/ KeepMacro(d)
  BY DEF ExtractMacro
<1>2. phase = "extract" /\ ~AtEnd(stream, pos)
  BY DEF ExtractMacro
<1>3. CASE RejectDefinition(d)
  BY <1>2, <1>3, RejectDefinitionTyped
<1>4. CASE DefineMacro(d)
  BY <1>2, <1>4, DefineMacroTyped
<1>5. CASE DefineUnclosed(d)
  BY <1>5, PastEndTyped DEF DefineUnclosed
<1>6. CASE KeepMacro(d)
  BY <1>2, <1>6, KeepMacroTyped
<1> QED
  BY <1>1, <1>3, <1>4, <1>5, <1>6

-----------------------------------------------------------------------------
(***************************************************************************)
(* Calls.                                                                  *)
(***************************************************************************)
LEMMA StreamTokens ==
  ASSUME NEW low \in BOOLEAN, Inv(low)
  PROVE  /\ stream \in Seq(Token) /\ Len(stream) \in Nat
         /\ pos \in Nat /\ 1 <= pos /\ pos <= Len(stream) + 1
         /\ \A i \in 1..Len(stream) :
              stream[i] \in GoodToken(low) /\ stream[i] \in Token
<1>1. \A t \in GoodToken(low) : t \in Token
  BY DEF GoodToken
<1> QED
  BY <1>1, GoodIsToken DEF Inv, StreamTyped

LEMMA ParseCMacroTyped ==
  ASSUME NEW low \in BOOLEAN, Inv(low), ParseCMacro
  PROVE  Inv(low)'
<1>1. /\ Here \in GoodToken(low) /\ Here \in Token /\ CallName \in Token
      /\ pos < Len(stream) /\ pos + 1 \in 1..Len(stream)
  BY StreamTokens DEF ParseCMacro, Here, CallName
<1>2. CASE RejectCall
  <2>1. Here.line \in Nat /\ CallName.line \in Nat
    BY <1>1 DEF Token
  <2>2. "MAC6" \in ErrorTypes /\ "MAC10" \in ErrorTypes
    BY DEF ErrorTypes
  <2> QED
    BY <1>2, <2>1, <2>2, ExitTyped DEF RejectCall
<1>3. CASE EnterCall
  <2>1. Key(CallName) \in DOMAIN macros /\ phase = "expand"
    BY DEF ParseCMacro, CallsDefined
  <2>2. PICK tokens \in {macros[Key(CallName)].tokens} :
          local' = [NoLocals EXCEPT
                   !.name    = Key(CallName),
                   !.iCMacro = SkipBlankSpaceToken(stream, pos + 1),
                   !.iDMacro = SkipBlankSpaceToken(tokens,
                                 SkipBlankSpaceToken(tokens, 1))]
    BY <1>3 DEF EnterCall
  <2> DEFINE iCMacro == SkipBlankSpaceToken(stream, pos + 1)
             iName   == SkipBlankSpaceToken(tokens, 1)
             iDMacro == SkipBlankSpaceToken(tokens, iName)
  <2>3. tokens \in Seq(Token)
    <3>1. macros[Key(CallName)] \in GoodMacro(low)
      BY <2>1 DEF Inv, MacrosTyped
    <3>2. tokens \in Seq(GoodToken(low))
      BY <3>1 DEF GoodMacro
    <3> QED
      BY <3>2, GoodIsToken
  <2>4. iDMacro \in Nat /\ 1 <= iDMacro
    <3>1. iName \in Nat
      BY <2>3, NextPosition
    <3> HIDE DEF iName
    <3> QED
      BY <2>3, <3>1, NextPosition
  <2>5. iCMacro \in Nat /\ pos < iCMacro /\ iCMacro <= Len(stream) + 1
    <3>1. /\ iCMacro \in Nat /\ iCMacro <= Len(stream) + 1
          /\ pos + 1 < iCMacro \/ iCMacro = Len(stream) + 1
      BY <1>1, StreamTokens, NextPosition
    <3> HIDE DEF iCMacro
    <3> QED
      BY <1>1, <3>1, StreamTokens
  <2>6. Key(CallName) \in Names
    BY <1>1, <1>3, Accepted DEF EnterCall
  <2>7. /\ <<>> \in Seq(GoodArgument(low))
        /\ <<>> \in GoodScopes(low)
    BY EmptySeq DEF GoodScopes, NamedOnce
  <2>8. local' = [name |-> Key(CallName), iCMacro |-> iCMacro,
                  iDMacro |-> iDMacro, vArguments |-> <<>>,
                  namescopes |-> <<>>, nBrace |-> 0]
    BY <2>2 DEF NoLocals
  <2> HIDE DEF iCMacro, iDMacro
  <2>9. local' \in GoodLocals(low)
    BY <2>4, <2>5, <2>6, <2>7, <2>8 DEF GoodLocals
  <2>10. PhaseInv'
    BY <1>1, <1>3, <2>1, <2>4, <2>5, <2>8
    DEF PhaseInv, EnterCall, CallName, InOwnScope, Here, NameAccepted, Key
  <2>11. InputsTyped' /\ StreamTyped(low)' /\ MacrosTyped(low)'
    BY <1>3 DEF Inv, InputsTyped, StreamTyped, MacrosTyped, EnterCall, inputs
  <2>12. CallsNumbered' /\ FreshScopes'
    BY <1>3 DEF Inv, CallsNumbered, FreshScopes, EnterCall
  <2> QED
    BY <2>9, <2>10, <2>11, <2>12 DEF Inv
<1> QED
  BY <1>2, <1>3 DEF ParseCMacro

LEMMA CalledTyped ==
  ASSUME NEW low \in BOOLEAN, Inv(low), phase \in {"arguments", "copy"}
  PROVE  /\ local.name \in DOMAIN macros
         /\ Called \in GoodMacro(low)
         /\ Called.tokens \in Seq(GoodToken(low))
         /\ Called.tokens \in Seq(Token)
         /\ local \in GoodLocals(low)
         /\ local.iDMacro \in Nat /\ 1 <= local.iDMacro
<1>1. local.name \in DOMAIN macros /\ 1 <= local.iDMacro
  BY DEF Inv, PhaseInv
<1>2. Called \in GoodMacro(low)
  BY <1>1 DEF Inv, MacrosTyped, Called
<1>3. Called.tokens \in Seq(GoodToken(low))
  BY <1>2 DEF GoodMacro
<1>4. local \in GoodLocals(low) /\ local.iDMacro \in Nat
  BY DEF Inv, GoodLocals
<1> QED
  BY <1>1, <1>2, <1>3, <1>4, GoodIsToken

LEMMA TakeArgumentTyped ==
  ASSUME NEW low \in BOOLEAN, Inv(low), TakeArgument
  PROVE  Inv(low)'
<1> DEFINE i == local.iCMacro
<1>1. /\ phase = "arguments" /\ phase' = phase
      /\ ~AtEnd(stream, i)
  BY DEF TakeArgument, ExpectsArgument
<1>2. /\ i \in 1..Len(stream) /\ pos < i /\ i \in Nat
      /\ stream[i] \in GoodToken(low)
  <2>1. pos < i /\ i <= Len(stream) + 1 /\ i \in Nat
    BY <1>1, CalledTyped DEF Inv, PhaseInv, GoodLocals
  <2>2. i # Len(stream) + 1
    BY <1>1 DEF AtEnd
  <2> QED
    BY <2>1, <2>2, StreamTokens
<1>3. PICK last \in {ArgumentEnd(i)} :
       local' = [local EXCEPT
         !.vArguments = Append(@,
            [para   |-> Key(Called.tokens[local.iDMacro]),
             tokens |-> IF last = local.iCMacro THEN <<stream[last]>>
                        ELSE <<stream[local.iCMacro], stream[last]>>]),
         !.iDMacro = SkipBlankSpaceToken(Called.tokens, @),
         !.iCMacro = SkipBlankSpaceToken(stream, last)]
  BY DEF TakeArgument
<1>4. last \in 1..Len(stream) /\ last \in Nat /\ i <= last
  <2>1. CASE ~SignedNumber(i)
    BY <1>2, <2>1 DEF ArgumentEnd
  <2>2. CASE SignedNumber(i)
    <3> DEFINE n == SkipBlankSpaceToken(stream, i)
    <3>1. /\ n \in Nat /\ n <= Len(stream) + 1
          /\ i < n \/ n = Len(stream) + 1
      BY <1>2, StreamTokens, NextPosition
    <3>2. n # Len(stream) + 1 /\ last = n
      BY <2>2 DEF SignedNumber, AtEnd, ArgumentEnd
    <3> HIDE DEF n
    <3> QED
      BY <1>2, <3>1, <3>2, StreamTokens
  <2> QED
    BY <2>1, <2>2
<1>5. stream[last] \in GoodToken(low)
  BY <1>4, StreamTokens
<1> DEFINE arg == [para   |-> Key(Called.tokens[local.iDMacro]),
                   tokens |-> IF last = local.iCMacro THEN <<stream[last]>>
                              ELSE <<stream[local.iCMacro], stream[last]>>]
           iDMacro == SkipBlankSpaceToken(Called.tokens, local.iDMacro)
           iCMacro == SkipBlankSpaceToken(stream, last)
<1>6. arg \in GoodArgument(low)
  <2>1. <<stream[last]>> \in Seq(GoodToken(low))
    BY <1>5
  <2>2. <<stream[local.iCMacro], stream[last]>> \in Seq(GoodToken(low))
    BY <1>2, <1>5
  <2> QED
    BY <2>1, <2>2, KeyTyped DEF GoodArgument
<1>7. iDMacro \in Nat /\ 1 <= iDMacro
  BY <1>1, CalledTyped, NextPosition
<1>8. iCMacro \in Nat /\ pos < iCMacro /\ iCMacro <= Len(stream) + 1
  <2>1. /\ iCMacro \in Nat /\ iCMacro <= Len(stream) + 1
        /\ last < iCMacro \/ iCMacro = Len(stream) + 1
    BY <1>4, StreamTokens, NextPosition
  <2> HIDE DEF iCMacro
  <2> QED
    BY <1>2, <1>4, <2>1, StreamTokens
<1>9. Append(local.vArguments, arg) \in Seq(GoodArgument(low))
  <2> HIDE DEF arg
  <2> QED
    BY <1>6 DEF Inv, GoodLocals
<1>10. local' = [local EXCEPT !.vArguments = Append(local.vArguments, arg),
                             !.iDMacro = iDMacro, !.iCMacro = iCMacro]
  BY <1>3
<1> HIDE DEF arg, iDMacro, iCMacro
<1>11. local' \in GoodLocals(low) /\ local'.name = local.name
       /\ local'.iDMacro = iDMacro /\ local'.iCMacro = iCMacro
  BY <1>7, <1>8, <1>9, <1>10 DEF Inv, GoodLocals
<1>12. PhaseInv'
  BY <1>1, <1>7, <1>8, <1>11
  DEF Inv, PhaseInv, TakeArgument, CallName, InOwnScope, Here, NameAccepted, Key
<1>13. InputsTyped' /\ StreamTyped(low)' /\ MacrosTyped(low)'
  BY DEF Inv, InputsTyped, StreamTyped, MacrosTyped, TakeArgument, inputs
<1>14. CallsNumbered' /\ FreshScopes'
  BY DEF Inv, CallsNumbered, FreshScopes, TakeArgument
<1> QED
  BY <1>11, <1>12, <1>13, <1>14 DEF Inv

LEMMA RejectArgumentTyped ==
  ASSUME NEW low \in BOOLEAN, Inv(low), RejectArgument
  PROVE  Inv(low)'
<1>1. phase = "arguments"
  BY DEF RejectArgument, ExpectsArgument
<1>2. \A i \in 1..Len(stream) : stream[i].line \in Nat
  BY StreamTokens DEF Token
<1>3. "MAC7" \in ErrorTypes /\ "MAC9" \in ErrorTypes
  BY DEF ErrorTypes
<1>4. ASSUME ~AtEnd(stream, local.iCMacro),
             Exit("MAC7", stream[local.iCMacro].line)
      PROVE  Inv(low)'
  <2>1. /\ pos < local.iCMacro /\ local.iCMacro <= Len(stream) + 1
        /\ local.iCMacro \in Nat /\ local.iCMacro # Len(stream) + 1
    BY <1>1, <1>4, CalledTyped DEF Inv, PhaseInv, GoodLocals, AtEnd
  <2>2. local.iCMacro \in 1..Len(stream)
    BY <2>1, StreamTokens
  <2> QED
    BY <1>2, <1>3, <1>4, <2>2, ExitTyped
<1>5. ASSUME NEW line \in {0} \cup {stream[i].line : i \in DOMAIN stream},
             Exit("MAC9", line)
      PROVE  Inv(low)'
  <2>1. DOMAIN stream = 1..Len(stream)
    BY StreamTokens
  <2>2. line \in Nat
    BY <1>2, <2>1
  <2> QED
    BY <1>3, <1>5, <2>2, ExitTyped
<1> QED
  BY <1>4, <1>5 DEF RejectArgument

\* The scope of an expansion is new: the counter of the macro is.
LEMMA ReplaceCMacroTyped ==
  ASSUME NEW low \in BOOLEAN, Inv(low), ReplaceCMacro
  PROVE  Inv(low)'
<1>1. /\ phase = "arguments" /\ phase' = "copy" /\ pos' = pos
      /\ UNCHANGED inputs /\ error' = error
  BY DEF ReplaceCMacro
<1>2. /\ pos < Len(stream) /\ NameAccepted(CallName)
      /\ local.name = Key(CallName) /\ ~InOwnScope
      /\ pos < local.iCMacro /\ local.iCMacro <= Len(stream) + 1
      /\ local.iCMacro \in Nat
  BY <1>1, CalledTyped DEF Inv, PhaseInv, GoodLocals
<1>3. /\ Here \in GoodToken(low) /\ Here \in Token
      /\ CallName \in GoodToken(low) /\ CallName \in Token
  <2>1. pos \in 1..Len(stream) /\ pos + 1 \in 1..Len(stream)
    BY <1>2, StreamTokens
  <2> QED
    BY <2>1, StreamTokens DEF Here, CallName
<1>4. /\ CallName.value \in Names /\ local.name = Lower[CallName.value]
      /\ local.name \in Names /\ local.name \in DOMAIN macros
  BY <1>1, <1>2, <1>3, Accepted, CalledTyped
<1>5. Called \in GoodMacro(low) /\ Called.nCallTimes \in Nat
  BY <1>1, CalledTyped DEF GoodMacro
<1>6. NewScope \in Scope /\ NewScope.name = CallName.value
      /\ NewScope.n = Called.nCallTimes + 1
  BY <1>4, <1>5 DEF NewScope, Scope
<1>7. StreamTyped(low)'
  <2> DEFINE t == SubSeq(stream, 1, pos - 1)
                  \o SubSeq(stream, local.iCMacro, Len(stream))
  <2>1. stream \in Seq(GoodToken(low)) /\ pos <= local.iCMacro
    BY <1>2, StreamTokens DEF Inv, StreamTyped
  <2>2. t \in Seq(GoodToken(low)) /\ Len(t) = Len(stream) - (local.iCMacro - pos)
    <3> DEFINE b == local.iCMacro
    <3>1. /\ b \in Nat /\ pos \in Nat /\ 1 <= pos /\ pos <= b
          /\ b <= Len(stream) + 1
      BY <1>2, <2>1, StreamTokens
    <3>2. LET u == SubSeq(stream, 1, pos - 1) \o SubSeq(stream, b, Len(stream))
          IN  u \in Seq(GoodToken(low)) /\ Len(u) = Len(stream) - (b - pos)
      <4> HIDE DEF b
      <4> QED
        BY <2>1, <3>1, Cut
    <3> QED
      BY <3>2
  <2>3. stream' = t
    BY DEF ReplaceCMacro
  <2> HIDE DEF t
  <2>4. pos <= Len(stream') + 1
    BY <1>2, <2>2, <2>3, StreamTokens
  <2> QED
    BY <1>1, <2>2, <2>3, <2>4, StreamTokens DEF StreamTyped
<1>8. /\ DOMAIN macros' = DOMAIN macros
      /\ macros'[local.name] = [Called EXCEPT !.nCallTimes = @ + 1]
      /\ \A n \in DOMAIN macros : n # local.name => macros'[n] = macros[n]
  BY <1>4 DEF ReplaceCMacro, Called, Inv, MacrosTyped
<1>9. MacrosTyped(low)'
  <2>1. [Called EXCEPT !.nCallTimes = @ + 1] \in GoodMacro(low)
    BY <1>5 DEF GoodMacro
  <2>2. macros' = [macros EXCEPT ![local.name] =
                     [Called EXCEPT !.nCallTimes = @ + 1]]
    BY <1>4 DEF ReplaceCMacro, Called, Inv, MacrosTyped
  <2> QED
    BY <1>4, <2>1, <2>2 DEF Inv, MacrosTyped
<1>10. Append(Here.namescopes, NewScope) \in GoodScopes(low)
  <2> DEFINE old == Here.namescopes
             new == Append(old, NewScope)
  <2>1. old \in Seq(Scope) /\ (low => NamedOnce(old))
    BY <1>3 DEF GoodToken, GoodScopes
  <2>2. /\ new \in Seq(Scope) /\ DOMAIN new = 1..(Len(old) + 1)
        /\ Len(old) \in Nat /\ DOMAIN old = 1..Len(old)
        /\ new[Len(old) + 1] = NewScope
        /\ \A k \in 1..Len(old) : new[k] = old[k]
    BY <1>6, <2>1
  <2>3. ASSUME low
        PROVE  NamedOnce(new)
    <3>1. Lower[NewScope.name] = NewScope.name
      BY <1>3, <1>4, <1>6, <2>3 DEF GoodToken
    <3>2. \A k \in 1..Len(old) :
            /\ Lower[old[k].name] = old[k].name
            /\ old[k].name # NewScope.name
      BY <1>2, <1>4, <1>6, <2>1, <2>2, <2>3, <3>1 DEF NamedOnce, InOwnScope
    <3>3. \A j, k \in 1..Len(old) : old[j].name = old[k].name => j = k
      BY <2>1, <2>2, <2>3 DEF NamedOnce
    <3>4. \A k \in DOMAIN new :
            \/ k \in 1..Len(old) /\ new[k] = old[k]
            \/ k = Len(old) + 1 /\ new[k] = NewScope
      BY <2>2
    <3> HIDE DEF new, old
    <3> QED
      BY <3>1, <3>2, <3>3, <3>4 DEF NamedOnce
  <2> QED
    BY <2>2, <2>3 DEF GoodScopes
<1>11. /\ local' \in GoodLocals(low) /\ local'.name = local.name
       /\ 1 <= local'.iDMacro /\ local'.nBrace = 1
  <2> DEFINE iDMacro == SkipBlankSpaceToken(Called.tokens, local.iDMacro)
  <2>1. iDMacro \in Nat /\ 1 <= iDMacro
    BY <1>1, CalledTyped, NextPosition
  <2>2. local' = [local EXCEPT
                 !.namescopes = Append(Here.namescopes, NewScope),
                 !.iDMacro = iDMacro, !.nBrace = 1]
    BY DEF ReplaceCMacro
  <2> HIDE DEF iDMacro
  <2> QED
    BY <1>10, <2>1, <2>2 DEF Inv, GoodLocals
<1>12. PhaseInv'
  BY <1>1, <1>4, <1>8, <1>11 DEF PhaseInv
<1> DEFINE call == [macro |-> local.name, caller |-> Here.call, scope |-> NewScope]
<1>13. /\ call \in Call
       /\ calls \in Seq(Call) /\ calls' = Append(calls, call)
  BY <1>3, <1>4, <1>6 DEF Call, Token, ReplaceCMacro, Inv, CallsNumbered
<1> HIDE DEF call
<1>14. /\ calls' \in Seq(Call) /\ DOMAIN calls' = 1..(Len(calls) + 1)
       /\ Len(calls) \in Nat /\ DOMAIN calls = 1..Len(calls)
       /\ calls'[Len(calls) + 1] = call
       /\ \A i \in 1..Len(calls) : calls'[i] = calls[i]
  BY <1>13
<1>15. \A i \in 1..Len(calls) :
         /\ calls[i].macro \in DOMAIN macros
         /\ calls[i].macro = Lower[calls[i].scope.name]
         /\ calls[i].scope.n \in Nat
         /\ calls[i].scope.n <= macros[calls[i].macro].nCallTimes
  <2>1. \A i \in 1..Len(calls) : calls[i] \in Call
    BY <1>13, ElementOfSeq
  <2>2. \A c \in Call : c.scope.n \in Nat
    BY DEF Call, Scope
  <2>3. CallsNumbered
    BY DEF Inv
  <2> QED
    BY <1>14, <2>1, <2>2, <2>3 DEF CallsNumbered
<1>16. /\ macros'[local.name].nCallTimes = Called.nCallTimes + 1
       /\ \A n \in DOMAIN macros :
            /\ macros[n].nCallTimes \in Nat
            /\ macros[n].nCallTimes <= macros'[n].nCallTimes
  <2>1. \A n \in DOMAIN macros : macros[n].nCallTimes \in Nat
    BY DEF Inv, MacrosTyped, GoodMacro
  <2>2. macros'[local.name].nCallTimes = Called.nCallTimes + 1
    BY <1>5, <1>8 DEF GoodMacro
  <2>3. ASSUME NEW n \in DOMAIN macros
        PROVE  macros[n].nCallTimes <= macros'[n].nCallTimes
    <3>1. CASE n = local.name
      BY <1>5, <2>2, <3>1 DEF Called
    <3>2. CASE n # local.name
      BY <1>8, <2>1, <3>2
    <3> QED
      BY <3>1, <3>2
  <2> QED
    BY <2>1, <2>2, <2>3
<1>17. CallsNumbered'
  <2>1. /\ call.macro = local.name /\ call.scope = NewScope
    BY DEF call
  <2>2. ASSUME NEW i \in DOMAIN calls'
        PROVE  /\ calls'[i].macro \in DOMAIN macros'
               /\ calls'[i].macro = Lower[calls'[i].scope.name]
               /\ calls'[i].scope.n <= macros'[calls'[i].macro].nCallTimes
    <3>1. CASE i \in 1..Len(calls)
      <4>1. macros'[calls[i].macro].nCallTimes \in Nat
        BY <1>8, <1>9, <1>15, <3>1 DEF MacrosTyped, GoodMacro
      <4> QED
        BY <1>8, <1>14, <1>15, <1>16, <3>1, <4>1
    <3>2. CASE i = Len(calls) + 1
      <4>1. calls'[i].macro = local.name /\ calls'[i].scope = NewScope
        BY <1>14, <2>1, <3>2
      <4>2. NewScope.n <= macros'[local.name].nCallTimes
        BY <1>5, <1>6, <1>16
      <4> QED
        BY <1>4, <1>6, <1>8, <4>1, <4>2
    <3> QED
      BY <1>14, <2>2, <3>1, <3>2
  <2> QED
    BY <1>14, <2>2 DEF CallsNumbered
<1>18. FreshScopes'
  <2>1. \A i \in 1..Len(calls) : calls[i].scope # NewScope
    <3> SUFFICES ASSUME NEW i \in 1..Len(calls), calls[i].scope = NewScope
                 PROVE  FALSE
      OBVIOUS
    <3>1. calls[i].macro = local.name
      BY <1>4, <1>6, <1>15
    <3> QED
      BY <1>5, <1>6, <1>15, <3>1 DEF Called
  <2>2. call.scope = NewScope
    BY DEF call
  <2>3. \A i, j \in 1..Len(calls) : calls[i].scope = calls[j].scope => i = j
    BY <1>14 DEF Inv, FreshScopes
  <2>4. \A i \in DOMAIN calls' :
          \/ i \in 1..Len(calls) /\ calls'[i] = calls[i]
          \/ i = Len(calls) + 1 /\ calls'[i] = call
    BY <1>14
  <2> QED
    BY <2>1, <2>2, <2>3, <2>4 DEF FreshScopes
<1>19. InputsTyped'
  BY <1>1 DEF Inv, InputsTyped, inputs
<1> QED
  BY <1>7, <1>9, <1>11, <1>12, <1>17, <1>18, <1>19 DEF Inv

-----------------------------------------------------------------------------
(***************************************************************************)
(* Copying, and the loops of parse().                                      *)
(***************************************************************************)
LEMMA SubstitutedTyped ==
  ASSUME NEW low \in BOOLEAN, Inv(low), phase = "copy",
         NEW token \in GoodToken(low)
  PROVE  Substituted(token) \in Seq(GoodToken(low))
<1>1. /\ local.vArguments \in Seq(GoodArgument(low))
      /\ local.namescopes \in GoodScopes(low)
      /\ Len(calls) \in Nat
  BY DEF Inv, GoodLocals, CallsNumbered
<1>2. CASE ArgumentsFor(token) = {}
  <2>1. [token EXCEPT !.namescopes = local.namescopes, !.call = Len(calls)]
          \in GoodToken(low)
    BY <1>1 DEF GoodToken, Token, GoodScopes
  <2> QED
    BY <1>2, <2>1 DEF Substituted
<1>3. CASE ArgumentsFor(token) # {}
  <2> DEFINE k == Min(ArgumentsFor(token))
             arg == ArgumentFor(token)
  <2>1. /\ ArgumentsFor(token) \in SUBSET Nat
        /\ ArgumentsFor(token) \subseteq 1..Len(local.vArguments)
    <3>1. DOMAIN local.vArguments = 1..Len(local.vArguments)
      BY <1>1
    <3> QED
      BY <3>1 DEF ArgumentsFor
  <2>2. k \in 1..Len(local.vArguments)
    BY <1>3, <2>1, MinIn
  <2>3. arg \in Seq(GoodToken(low))
    <3>1. local.vArguments[k] \in GoodArgument(low)
      BY <1>1, <2>2, ElementOfSeq
    <3> QED
      BY <3>1 DEF GoodArgument, ArgumentFor
  <2> HIDE DEF k, arg
  <2>4. /\ DOMAIN arg = 1..Len(arg) /\ Len(arg) \in Nat
        /\ \A a \in 1..Len(arg) : arg[a] \in GoodToken(low)
    BY <2>3, GoodIsToken
  <2>5. token.line \in Nat
    BY DEF GoodToken, Token
  <2>6. \A t \in GoodToken(low) : [t EXCEPT !.line = token.line] \in GoodToken(low)
    BY <2>5 DEF GoodToken, Token
  <2>7. [a \in DOMAIN arg |-> [arg[a] EXCEPT !.line = token.line]]
          \in Seq(GoodToken(low))
    BY <2>4, <2>6
  <2>8. Substituted(token) = [a \in DOMAIN arg |-> [arg[a] EXCEPT !.line = token.line]]
    BY <1>3 DEF Substituted, arg
  <2> QED
    BY <2>7, <2>8
<1> QED
  BY <1>2, <1>3

LEMMA CopyTokenTyped ==
  ASSUME NEW low \in BOOLEAN, Inv(low), CopyToken
  PROVE  Inv(low)'
<1>1. /\ phase = "copy" /\ phase' = phase
      /\ local.iDMacro \in 1..Len(Called.tokens)
      /\ local.nBrace \in Nat /\ 1 <= local.nBrace
  <2>1. phase = "copy" /\ local.iDMacro <= Len(Called.tokens)
    BY DEF CopyToken
  <2>2. Called.tokens \in Seq(Token) /\ Len(Called.tokens) \in Nat
    BY <2>1, CalledTyped, LenProperties
  <2>3. local.iDMacro \in Nat /\ 1 <= local.iDMacro
    BY <2>1, CalledTyped
  <2>4. local.nBrace \in Nat /\ 1 <= local.nBrace
    BY <2>1 DEF Inv, PhaseInv, GoodLocals
  <2> QED
    BY <2>1, <2>2, <2>3, <2>4 DEF CopyToken
<1>2. DToken \in GoodToken(low)
  BY <1>1, CalledTyped, ElementOfSeq DEF DToken
<1>3. PICK piece \in {Substituted(DToken)} :
        /\ stream' = SubSeq(stream, 1, pos - 1) \o piece
                     \o SubSeq(stream, pos, Len(stream))
        /\ pos' = pos + Len(piece)
  BY DEF CopyToken
<1>4. piece \in Seq(GoodToken(low)) /\ Len(piece) \in Nat
  BY <1>1, <1>2, SubstitutedTyped, LenProperties
<1>5. stream' \in Seq(GoodToken(low)) /\ Len(stream') = Len(stream) + Len(piece)
  <2>1. stream \in Seq(GoodToken(low))
    BY DEF Inv, StreamTyped
  <2>2. /\ pos \in Nat /\ 1 <= pos /\ pos <= Len(stream) + 1
        /\ piece \in Seq(GoodToken(low))
    BY <1>4, StreamTokens
  <2>3. LET u == SubSeq(stream, 1, pos - 1) \o piece
                 \o SubSeq(stream, pos, Len(stream))
        IN  u \in Seq(GoodToken(low)) /\ Len(u) = Len(stream) + Len(piece)
    BY <2>1, <2>2, Insertion
  <2> QED
    BY <1>3, <2>3
<1>6. StreamTyped(low)'
  <2>1. pos \in Nat /\ 1 <= pos /\ pos <= Len(stream) + 1 /\ Len(stream) \in Nat
    BY StreamTokens
  <2>2. pos' = pos + Len(piece)
    BY <1>3
  <2>3. Len(piece) \in Nat /\ Len(stream') = Len(stream) + Len(piece)
    BY <1>4, <1>5
  <2>4. pos' \in 1..(Len(stream') + 1)
    BY <2>1, <2>2, <2>3
  <2> QED
    BY <1>5, <2>4 DEF StreamTyped
<1>7. BraceStep(DToken) \in {-1, 0, 1}
  BY DEF BraceStep
<1>8. /\ local' \in GoodLocals(low) /\ local'.name = local.name
      /\ 1 <= local'.iDMacro /\ 1 <= local'.nBrace
  <2>1. /\ local' = [local EXCEPT !.iDMacro = local.iDMacro + 1,
                                   !.nBrace  = local.nBrace + BraceStep(DToken)]
        /\ local.nBrace + BraceStep(DToken) # 0
    BY DEF CopyToken
  <2> DEFINE nBrace == local.nBrace + BraceStep(DToken)
  <2>2. nBrace \in Nat /\ 1 <= nBrace
    BY <1>1, <1>7, <2>1
  <2>3. local.iDMacro + 1 \in Nat /\ 1 <= local.iDMacro + 1
    BY <1>1
  <2> HIDE DEF nBrace
  <2> QED
    BY <2>1, <2>2, <2>3 DEF Inv, GoodLocals, nBrace
<1>9. PhaseInv'
  BY <1>1, <1>8 DEF Inv, PhaseInv, CopyToken
<1>10. InputsTyped' /\ MacrosTyped(low)' /\ CallsNumbered' /\ FreshScopes'
  BY DEF Inv, InputsTyped, MacrosTyped, CallsNumbered, FreshScopes, CopyToken,
         inputs
<1> QED
  BY <1>6, <1>8, <1>9, <1>10 DEF Inv

LEMMA StepTyped ==
  ASSUME NEW low \in BOOLEAN, Inv(low), [Next]_vars
  PROVE  Inv(low)'
<1>1. pos \in 1..(Len(stream) + 1)
  BY DEF Inv, StreamTyped
<1>2. CASE ExtractMacro
  BY <1>2, ExtractMacroTyped
<1>3. CASE ParseCMacro
  BY <1>3, ParseCMacroTyped
<1>4. CASE TakeArgument
  BY <1>4, TakeArgumentTyped
<1>5. CASE RejectArgument
  BY <1>5, RejectArgumentTyped
<1>6. CASE ReplaceCMacro
  BY <1>6, ReplaceCMacroTyped
<1>7. CASE CopyToken
  BY <1>7, CopyTokenTyped
<1>8. CASE EndCopy
  BY <1>1, <1>8, Quiet DEF EndCopy
<1>9. CASE CopyPastEnd
  BY <1>9, PastEndTyped DEF CopyPastEnd
<1>10. CASE CallWithoutName
  BY <1>10, PastEndTyped DEF CallWithoutName
<1>11. CASE Skip
  <2>1. pos + 1 \in 1..(Len(stream) + 1)
    BY <1>11, StreamTokens DEF Skip, AtEnd
  <2>2. phase \in {"extract", "expand", "rescan"}
    BY <1>11 DEF Skip
  <2> QED
    BY <1>11, <2>1, <2>2, Quiet DEF Skip
<1>12. CASE EndExtract \/ EndPass \/ FirstCall \/ NoCall
  BY <1>12, RewindTyped DEF EndExtract, EndPass, FirstCall, NoCall
<1>13. CASE UNCHANGED vars
  BY <1>13 DEF vars, inputs, Inv, InputsTyped, StreamTyped, MacrosTyped,
     PhaseInv, CallsNumbered, FreshScopes, CallName, InOwnScope, Here,
     NameAccepted, Key
<1> QED
  BY <1>2, <1>3, <1>4, <1>5, <1>6, <1>7, <1>8, <1>9, <1>10, <1>11, <1>12, <1>13
  DEF Next, Step, Halted

LEMMA InitTyped ==
  ASSUME Init
  PROVE  IInv
<1>1. deck \in Decks /\ stream = deck /\ deck \in Seq(Token)
  BY ConstantsTyped DEF Init
<1>2. Lowercase \in BOOLEAN
  BY DEF Lowercase
<1>3. /\ Len(deck) \in Nat /\ DOMAIN deck = 1..Len(deck)
      /\ \A i \in 1..Len(deck) : deck[i] \in Token
  BY <1>1, LenProperties, ElementOfSeq
<1>4. <<>> \in Seq(Scope) /\ <<>> \in GoodScopes(Lowercase)
  BY EmptySeq DEF GoodScopes, NamedOnce
<1>5. \A i \in 1..Len(deck) : deck[i] \in GoodToken(Lowercase)
  <2> SUFFICES ASSUME NEW i \in 1..Len(deck)
               PROVE  deck[i] \in GoodToken(Lowercase)
    OBVIOUS
  <2>1. deck[i].namescopes = <<>>
    BY <1>1, <1>3, ConstantsTyped
  <2>2. Lowercase /\ deck[i].value \in Names => Lower[deck[i].value] = deck[i].value
    BY <1>3 DEF Lowercase, Key
  <2> QED
    BY <1>3, <1>4, <2>1, <2>2 DEF GoodToken
<1>6. deck \in Seq(GoodToken(Lowercase))
  BY <1>1, <1>3, <1>5
<1>7. StreamTyped(Lowercase)
  BY <1>1, <1>3, <1>6 DEF StreamTyped, Init
<1>8. MacrosTyped(Lowercase) /\ InputsTyped /\ PhaseInv
  BY <1>1, ConstantsTyped DEF MacrosTyped, InputsTyped, PhaseInv, Init
<1>9. local \in GoodLocals(Lowercase)
  <2>1. <<>> \in Seq(GoodArgument(Lowercase))
    BY EmptySeq
  <2> QED
    BY <1>4, <2>1 DEF GoodLocals, Init, NoLocals
<1>10. CallsNumbered /\ FreshScopes
  <2>1. <<>> \in Seq(Call)
    BY EmptySeq
  <2> QED
    BY <2>1 DEF Init, CallsNumbered, FreshScopes
<1> QED
  BY <1>7, <1>8, <1>9, <1>10 DEF IInv, Inv

LEMMA StepInductive ==
  ASSUME IInv, [Next]_vars
  PROVE  IInv'
<1>1. Lowercase \in BOOLEAN /\ deck' = deck
  BY DEF Lowercase, vars, inputs, Next, Step, ExtractMacro, RejectDefinition,
     DefineMacro, DefineUnclosed, KeepMacro, ParseCMacro, RejectCall, EnterCall,
     TakeArgument, RejectArgument, ReplaceCMacro, CopyToken, EndCopy,
     CopyPastEnd, CallWithoutName, Skip, EndExtract, EndPass, FirstCall, NoCall,
     Halted, Rewind, Exit, ReadPastEnd
<1>2. Lowercase' = Lowercase
  BY <1>1 DEF Lowercase, Key
<1>3. Inv(Lowercase)
  BY DEF IInv
<1> DEFINE low == Lowercase
<1>4. PICK b \in BOOLEAN : b = low
  BY <1>1
<1>5. Inv(b)
  BY <1>3, <1>4
<1>6. Inv(b)'
  BY <1>5, StepTyped
<1> QED
  BY <1>2, <1>4, <1>6 DEF IInv

LEMMA Inductive == Spec => []IInv
BY InitTyped, StepInductive, PTL DEF Spec

-----------------------------------------------------------------------------
(***************************************************************************)
(* What follows for every deck.                                            *)
(***************************************************************************)
\* The iterators stay in their lists, up to end(), and names, lines, scopes
\* and counters keep their type in all the loops of parse().
THEOREM TypeCorrect == Spec => []TypeOK
<1>1. ASSUME IInv
      PROVE  TypeOK
  <2> DEFINE low == Lowercase
  <2>1. low \in BOOLEAN /\ Inv(low)
    BY <1>1 DEF IInv, Lowercase
  <2> HIDE DEF low
  <2>2. GoodToken(low) \subseteq Token /\ GoodScopes(low) \subseteq Seq(Scope)
    BY DEF GoodToken, GoodScopes
  <2>3. stream \in Seq(Token) /\ pos \in 1..(Len(stream) + 1)
    BY <2>1, StreamTokens DEF Inv, StreamTyped
  <2>4. macros \in [DOMAIN macros -> Macro] /\ DOMAIN macros \subseteq Names
    <3>1. GoodMacro(low) \subseteq Macro
      BY <2>2, SeqMonotonic DEF GoodMacro, Macro
    <3> QED
      BY <2>1, <3>1 DEF Inv, MacrosTyped
  <2>5. local \in Locals
    <3>1. GoodArgument(low) \subseteq Argument
      BY <2>2, SeqMonotonic DEF GoodArgument, Argument
    <3> QED
      BY <2>1, <2>2, <3>1, SeqMonotonic DEF Inv, GoodLocals, Locals
  <2> QED
    BY <2>1, <2>3, <2>4, <2>5
    DEF TypeOK, Inv, InputsTyped, PhaseInv, CallsNumbered
<1> QED
  BY <1>1, Inductive, PTL

\* Two expansions never have the same scope, so that the layers of two calls
\* get different names later: the counter nCallTimes is the macro's own, and
\* a scope's name tells the macro (CallsNumbered).
THEOREM ScopesAreFresh == Spec => []FreshScopes
<1>1. IInv => FreshScopes
  BY DEF IInv, Inv
<1> QED
  BY <1>1, Inductive, PTL

\* In a deck in lower case no macro is expanded inside of its own expansion,
\* through whatever chain of calls and arguments: every token carries the
\* scopes of its expansions, and they name each macro once.
THEOREM RecursionIsStopped == Spec => []RecursionStopped
<1>1. ASSUME IInv
      PROVE  RecursionStopped
  <2>1. local.namescopes \in GoodScopes(Lowercase)
    BY <1>1 DEF IInv, Inv, GoodLocals
  <2> QED
    BY <2>1 DEF GoodScopes, NamedOnce, RecursionStopped, RecursionCaught
<1> QED
  BY <1>1, Inductive, PTL

-----------------------------------------------------------------------------
(***************************************************************************)
(* Definitions that stay.                                                  *)
(***************************************************************************)
\* Rewriting names leaves the types where they are.
SameTypes(s, t) ==
  Len(t) = Len(s) /\ \A i \in 1..Len(s) : t[i].type = s[i].type

LEMMA FindSame ==
  ASSUME NEW s \in Seq(Token), NEW t \in Seq(Token), SameTypes(s, t),
         NEW i \in Nat, 1 <= i, NEW types
  PROVE  Find(t, i, types) = Find(s, i, types)
<1>1. Len(s) \in Nat /\ Len(t) = Len(s)
  BY LenProperties DEF SameTypes
<1>2. \A j \in i..Len(s) : t[j].type = s[j].type
  BY <1>1 DEF SameTypes
<1>3. {j \in i..Len(t) : t[j].type \in types}
      = {j \in i..Len(s) : s[j].type \in types}
  BY <1>1, <1>2
<1> QED
  BY <1>1, <1>3 DEF Find

LEMMA CloseSame ==
  ASSUME NEW s \in Seq(Token), NEW t \in Seq(Token), SameTypes(s, t),
         NEW i \in Nat, 1 <= i
  PROVE  CloseOf(t, i) = CloseOf(s, i)
<1>1. Len(s) \in Nat /\ Len(t) = Len(s)
  BY LenProperties DEF SameTypes
<1>2. \A j \in i..Len(s) : t[j].type = s[j].type
  BY <1>1 DEF SameTypes
<1>3. ASSUME NEW j \in (i + 1)..Len(s), NEW type
      PROVE  CountOf(t, i, j, type) = CountOf(s, i, j, type)
  <2>1. {k \in i..j : t[k].type = type} = {k \in i..j : s[k].type = type}
    BY <1>1, <1>2
  <2> QED
    BY <2>1 DEF CountOf
<1> DEFINE Closes(u, j) == /\ u[j].type = "CLOSE"
                           /\ CountOf(u, i, j, "OPEN") = CountOf(u, i, j, "CLOSE")
<1>4. \A j \in (i + 1)..Len(s) : Closes(t, j) <=> Closes(s, j)
  BY <1>1, <1>2, <1>3
<1> HIDE DEF Closes
<1>5. {j \in (i + 1)..Len(t) : Closes(t, j)}
      = {j \in (i + 1)..Len(s) : Closes(s, j)}
  BY <1>1, <1>4
<1> QED
  BY <1>1, <1>5 DEF CloseOf, Closes

LEMMA BodyPlace ==
  ASSUME NEW s \in Seq(Token), NEW d \in Nat, 1 <= d,
         NEW open, open = Find(s, d, {"OPEN"}),
         NEW close, close = CloseOf(s, open)
  PROVE  /\ open \in Nat /\ 1 <= open /\ open <= Len(s) + 1
         /\ d <= open \/ open = Len(s) + 1
         /\ close \in Nat /\ close <= Len(s) + 1
         /\ BodyRange(s, d) = open..(close - 1)
<1>1. Len(s) \in Nat
  BY LenProperties
<1>2. /\ open \in Nat /\ open <= Len(s) + 1
      /\ d <= open \/ open = Len(s) + 1
  BY Position
<1>3. close \in Nat /\ close <= Len(s) + 1
  BY <1>2, ClosePosition
<1> QED
  BY <1>1, <1>2, <1>3 DEF BodyRange

LEMMA BodySame ==
  ASSUME NEW s \in Seq(Token), NEW t \in Seq(Token), SameTypes(s, t),
         NEW d \in Nat, 1 <= d
  PROVE  /\ Find(t, d, {"OPEN"}) = Find(s, d, {"OPEN"})
         /\ CloseOf(t, Find(t, d, {"OPEN"})) = CloseOf(s, Find(s, d, {"OPEN"}))
         /\ BodyRange(t, d) = BodyRange(s, d)
<1> DEFINE open == Find(s, d, {"OPEN"})
<1>1. open \in Nat /\ 1 <= open
  BY BodyPlace
<1>2. Find(t, d, {"OPEN"}) = open
  BY FindSame
<1>3. CloseOf(t, open) = CloseOf(s, open)
  <2> HIDE DEF open
  <2> QED
    BY <1>1, CloseSame
<1> QED
  BY <1>2, <1>3 DEF BodyRange

LEMMA NestedSame ==
  ASSUME NEW s \in Seq(Token), NEW t \in Seq(Token), SameTypes(s, t),
         NEW d \in 1..Len(s)
  PROVE  Nested(t, d) <=> Nested(s, d)
<1>1. Len(s) \in Nat
  BY LenProperties
<1>2. \A c \in 1..(d - 1) :
        /\ t[c].type = s[c].type
        /\ CloseOf(t, Find(t, c, {"OPEN"})) = CloseOf(s, Find(s, c, {"OPEN"}))
  <2>1. ASSUME NEW c \in 1..(d - 1)
        PROVE  c \in Nat /\ 1 <= c /\ c \in 1..Len(s)
    BY <1>1
  <2> QED
    BY <2>1, BodySame DEF SameTypes
<1> QED
  BY <1>2 DEF Nested

\* Up to position p each definition has its layers spelled alike.
Settled(s, p) ==
  \A d \in 1..(p - 1) :
    s[d].type = "DMACRO" /\ ~Nested(s, d) =>
      /\ CloseOf(s, Find(s, d, {"OPEN"})) <= p
      /\ SpelledAlike(s, d)

KeptInv ==
  ~flattenMacro =>
    /\ DOMAIN macros = {}
    /\ phase \notin {"arguments", "copy"}
    /\ phase = "extract" => Settled(stream, pos)
    /\ phase \in {"expand", "rescan", "done"} =>
         Settled(stream, Len(stream) + 1)

LEMMA MaxIn ==
  ASSUME NEW n \in Nat, NEW S \in SUBSET 0..n, S # {}
  PROVE  Max(S) \in S /\ \A y \in S : y <= Max(S)
<1>1. \E x \in S : \A y \in S : y <= x
  BY MaxOfSegment
<1>2. Max(S) = CHOOSE x \in S : \A y \in S : x >= y
  BY DEF Max
<1>3. \A x, y \in S : y <= x <=> x >= y
  OBVIOUS
<1> QED
  BY <1>1, <1>2, <1>3

\* What KeepMacro() finds is the body of the definition.
LEMMA DefinitionBody ==
  ASSUME NEW low \in BOOLEAN, Inv(low), phase = "extract", ~AtEnd(stream, pos),
         Here.type = "DMACRO", NEW d, d = Definition, DefNamed(d)
  PROVE  d.open = Find(stream, pos, {"OPEN"}) /\ d.close = CloseOf(stream, d.open)
<1>1. /\ stream \in Seq(Token) /\ Len(stream) \in Nat /\ pos \in 1..Len(stream)
      /\ d.name \in Nat
  BY DefinitionPlaced
<1>2. \A i \in 1..Len(stream) : stream[i] \in Token
  BY <1>1, ElementOfSeq
<1> DEFINE types == TokenTypes \ {"BLANK"}
           F == {Len(stream) + 1} \cup
                {j \in (pos + 1)..Len(stream) : stream[j].type \in types}
<1>3. d.name = Min(F)
  BY DEF Definition, SkipBlankSpaceToken, Find
<1>4. d.name \in F /\ \A j \in F : d.name <= j
  <2>1. F \in SUBSET Nat /\ F # {}
    BY <1>1
  <2> HIDE DEF F
  <2> QED
    BY <1>3, <2>1, MinOfNaturals
<1>5. d.name # Len(stream) + 1 /\ stream[d.name].type \in {"STRING", "NAME"}
  BY DEF DefNamed, AtEnd, NameAccepted
<1>6. d.name \in (pos + 1)..Len(stream)
  BY <1>4, <1>5
<1>7. ASSUME NEW j \in pos..d.name
      PROVE  stream[j].type # "OPEN"
  <2>1. CASE j = pos
    BY <2>1 DEF Here
  <2>2. CASE j = d.name
    BY <1>5, <2>2
  <2>3. CASE j # pos /\ j # d.name
    <3>1. j \in (pos + 1)..Len(stream) /\ ~(d.name <= j)
      BY <1>1, <1>6, <2>3
    <3>2. stream[j].type \notin types
      BY <1>4, <3>1
    <3> QED
      BY <3>2 DEF TokenTypes, Separators
  <2> QED
    BY <2>1, <2>2, <2>3
<1>8. {j \in pos..Len(stream) : stream[j].type \in {"OPEN"}}
      = {j \in (d.name + 1)..Len(stream) : stream[j].type \in {"OPEN"}}
  <2> HIDE DEF F
  <2>1. \A j \in pos..Len(stream) : j \in pos..d.name \/ j \in (d.name + 1)..Len(stream)
    BY <1>1, <1>6
  <2>2. \A j \in (d.name + 1)..Len(stream) : j \in pos..Len(stream)
    BY <1>1, <1>6
  <2> QED
    BY <1>7, <2>1, <2>2
<1>9. d.open = Find(stream, d.name + 1, {"OPEN"})
  BY <1>5 DEF Definition, AtEnd
<1>10. d.close = CloseOf(stream, d.open)
  BY DEF Definition
<1> QED
  BY <1>8, <1>9, <1>10 DEF Find

LEMMA BodyInside ==
  ASSUME stream \in Seq(Token), NEW p \in 1..Len(stream), NEW d,
         d.open = Find(stream, p, {"OPEN"}),
         d.close = CloseOf(stream, d.open),
         NEW k \in BodyRange(stream, p)
  PROVE  k \in BodyOf(d) /\ k \in 1..Len(stream)
<1> DEFINE size == Len(stream)
           ends == {d.close, size}
<1>1. size \in Nat /\ p \in Nat /\ 1 <= p
  BY LenProperties
<1>2. /\ d.open \in Nat /\ 1 <= d.open /\ d.close \in Nat
      /\ d.close <= size + 1
      /\ BodyRange(stream, p) = d.open..(d.close - 1)
  BY <1>1, BodyPlace
<1>3. ends \in SUBSET Nat /\ ends # {}
  BY <1>1, <1>2
<1>4. Min(ends) \in ends
  <2> HIDE DEF ends
  <2> QED
    BY <1>3, MinIn
<1>5. k <= d.close /\ k <= size /\ d.open <= k /\ k \in Nat /\ 1 <= k
  BY <1>1, <1>2
<1>6. k <= Min(ends) /\ Min(ends) \in Nat
  BY <1>1, <1>2, <1>4, <1>5
<1>7. BodyOf(d) = d.open..Min(ends)
  BY DEF BodyOf
<1> HIDE DEF ends
<1> QED
  BY <1>1, <1>2, <1>5, <1>6, <1>7

\* A name in front of "=" is one of the layers that are collected.
LEMMA LayerCollected ==
  ASSUME stream \in Seq(Token), NEW p \in 1..Len(stream), NEW d,
         d.open = Find(stream, p, {"OPEN"}),
         d.close = CloseOf(stream, d.open),
         NEW i \in BodyRange(stream, p), DefinesLayer(stream, p, i)
  PROVE  Key(stream[i]) \in LocalNames(d)
<1> DEFINE s == stream
           size == Len(stream)
           body == BodyOf(d)
<1>1. /\ size \in Nat /\ \A k \in 1..size : s[k] \in Token
      /\ p \in Nat /\ 1 <= p
  BY LenProperties, ElementOfSeq
<1>2. /\ d.open \in Nat /\ 1 <= d.open /\ d.close \in Nat
      /\ d.close <= size + 1
      /\ p <= d.open \/ d.open = size + 1
      /\ BodyRange(s, p) = d.open..(d.close - 1)
  BY <1>1, BodyPlace
<1>3. \A k \in BodyRange(s, p) : k \in body /\ k \in 1..size
  BY BodyInside
<1>4. /\ i \in body /\ i \in 1..size /\ s[i].type \in NameTypes
      /\ i + 1 \in body /\ i + 1 \in 1..size /\ s[i + 1].type = "EQUAL"
  BY <1>3 DEF DefinesLayer
<1> HIDE DEF body
<1>5. SkipBlankSpaceToken(s, i) = i + 1
  <2> DEFINE types == TokenTypes \ {"BLANK"}
             F == {size + 1} \cup {j \in (i + 1)..size : s[j].type \in types}
  <2>1. SkipBlankSpaceToken(s, i) = Min(F)
    BY DEF SkipBlankSpaceToken, Find
  <2>2. F \in SUBSET Nat /\ F # {} /\ i + 1 \in F
    BY <1>1, <1>4 DEF TokenTypes, Separators
  <2>3. \A j \in F : i + 1 <= j
    BY <1>1, <1>4
  <2> HIDE DEF F
  <2>4. Min(F) \in F /\ Min(F) <= i + 1
    BY <2>2, MinOfNaturals
  <2>5. Min(F) \in Nat /\ i + 1 \in Nat
    BY <2>2, <2>4
  <2> QED
    BY <2>1, <2>3, <2>4, <2>5
<1> DEFINE brackets == {k \in d.open..i : s[k].type \in {"LBRACKET", "RBRACKET"}}
<1>6. brackets # {} => s[Max(brackets)].type = "RBRACKET"
  <2> SUFFICES ASSUME brackets # {}
               PROVE  s[Max(brackets)].type = "RBRACKET"
    OBVIOUS
  <2>1. brackets \in SUBSET 0..i /\ i \in Nat
    BY <1>2, <1>4
  <2>2. Max(brackets) \in brackets /\ \A y \in brackets : y <= Max(brackets)
    <3> HIDE DEF brackets
    <3> QED
      BY <2>1, MaxIn
  <2>3. PICK x \in brackets : x = Max(brackets)
    BY <2>2
  <2> SUFFICES ASSUME s[x].type = "LBRACKET"
               PROVE  FALSE
    BY <2>3
  <2>4. x \in p..i
    BY <1>1, <1>2, <1>4
  <2>5. PICK r \in x..i : s[r].type = "RBRACKET"
    BY <2>4 DEF DefinesLayer
  <2>6. r \in brackets /\ x \in Nat /\ x <= r
    BY <1>2, <1>4, <2>4, <2>5
  <2>7. r <= x
    BY <2>2, <2>3, <2>6
  <2>8. r = x
    BY <1>1, <1>4, <2>4, <2>5, <2>6, <2>7
  <2> QED
    BY <2>5, <2>8
<1>7. Key(s[i]) \in DefLayers(d)
  <2> DEFINE Collected(k) ==
        LET next == SkipBlankSpaceToken(stream, k)
            between == {j \in d.open..k :
                          stream[j].type \in {"LBRACKET", "RBRACKET"}}
        IN  /\ stream[k].type \in NameTypes
            /\ next \in BodyOf(d)
            /\ stream[next].type = "EQUAL"
            /\ between # {} => stream[Max(between)].type = "RBRACKET"
  <2>1. Collected(i)
    BY <1>4, <1>5, <1>6 DEF body
  <2>2. DefLayers(d) = {Key(stream[j]) : j \in {k \in BodyOf(d) : Collected(k)}}
    BY DEF DefLayers
  <2> HIDE DEF Collected
  <2> QED
    BY <1>4, <2>1, <2>2 DEF body
<1> QED
  BY <1>7 DEF LocalNames

LEMMA KeepMacroSettled ==
  ASSUME NEW low \in BOOLEAN, Inv(low), phase = "extract", ~AtEnd(stream, pos),
         Here.type = "DMACRO", NEW d, d = Definition, KeepMacro(d),
         Settled(stream, pos)
  PROVE  Settled(stream, pos)'
<1>1. PICK names : names = LocalNames(d)
  OBVIOUS
<1>2. PICK s : s = stream
  OBVIOUS
<1>3. PICK t : t = stream'
  OBVIOUS
<1>4. PICK p : p = pos
  OBVIOUS
<1>5. /\ s \in Seq(Token) /\ Len(s) \in Nat /\ p \in 1..Len(s) /\ p \in Nat
      /\ d.close \in Nat /\ p <= d.close /\ d.close <= Len(s) + 1
      /\ DOMAIN s = 1..Len(s)
      /\ \A j \in 1..Len(s) : s[j] \in Token
  BY <1>2, <1>4, DefinitionPlaced, LenProperties, ElementOfSeq
<1>6. d.open = Find(s, p, {"OPEN"}) /\ d.close = CloseOf(s, d.open)
  BY <1>2, <1>4, DefinitionBody DEF KeepMacro, AcceptDefinition
<1>7. pos' = d.close
  BY DEF KeepMacro
<1> DEFINE Local(j) == /\ j \in BodyOf(d)
                       /\ s[j].type \in NameTypes
                       /\ Key(s[j]) \in names
<1>8. t = [j \in 1..Len(s) |->
             IF Local(j) THEN [s[j] EXCEPT !.value = Key(s[j])] ELSE s[j]]
  BY <1>1, <1>2, <1>3, <1>5 DEF KeepMacro
<1>9. t \in Seq(Token) /\ Len(t) = Len(s)
  <2>1. Inv(low)'
    BY KeepMacroTyped
  <2>2. t \in Seq(Token)
    BY <1>3, <2>1, GoodIsToken DEF Inv, StreamTyped
  <2>3. DOMAIN t = 1..Len(s)
    BY <1>8
  <2> QED
    BY <1>5, <2>2, <2>3, LenProperties
<1>10. ASSUME NEW j \in 1..Len(s)
       PROVE  /\ t[j].type = s[j].type /\ Key(t[j]) = Key(s[j])
              /\ Local(j) => t[j].value = Key(s[j])
              /\ ~Local(j) => t[j] = s[j]
  <2>1. s[j] \in Token
    BY <1>5
  <2>2. CASE Local(j)
    <3>1. t[j] = [s[j] EXCEPT !.value = Key(s[j])]
      BY <1>8, <2>2
    <3>2. t[j].type = s[j].type /\ t[j].value = Key(s[j])
      BY <2>1, <3>1 DEF Token
    <3>3. s[j].value \in Names /\ Key(s[j]) = Lower[s[j].value]
          /\ Key(s[j]) \in Names /\ Lower[Key(s[j])] = Key(s[j])
      BY <2>1, <2>2, ConstantsTyped DEF Token, Key
    <3>4. Key(t[j]) = Lower[t[j].value]
      BY <3>2, <3>3 DEF Key
    <3> QED
      BY <2>2, <3>2, <3>3, <3>4
  <2>3. CASE ~Local(j)
    BY <1>8, <2>3
  <2> QED
    BY <2>2, <2>3
<1>11. SameTypes(s, t)
  BY <1>9, <1>10 DEF SameTypes
<1>12. /\ d.open \in Nat
       /\ p <= d.open \/ d.open = Len(s) + 1
  BY <1>5, <1>6, BodyPlace
<1>13. ASSUME NEW j \in 1..(p - 1)
       PROVE  j \in 1..Len(s) /\ t[j] = s[j]
  <2>1. j \in 1..Len(s)
    BY <1>5
  <2>2. j \notin BodyOf(d)
    BY <1>5, <1>12, <2>1 DEF BodyOf
  <2> QED
    BY <1>10, <2>1, <2>2
<1>14. SpelledAlike(t, p)
  <2>1. SUFFICES ASSUME NEW i \in BodyRange(t, p), NEW j \in BodyRange(t, p),
                        DefinesLayer(t, p, i), t[j].type \in NameTypes,
                        Key(t[j]) = Key(t[i])
                 PROVE  t[j].value = t[i].value
    BY DEF SpelledAlike
  <2>2. BodyRange(t, p) = BodyRange(s, p)
    BY <1>5, <1>9, <1>11, BodySame
  <2>3. \A k \in BodyRange(s, p) : k \in BodyOf(d) /\ k \in 1..Len(s)
    BY <1>2, <1>5, <1>6, BodyInside
  <2>4. i \in 1..Len(s) /\ j \in 1..Len(s) /\ i + 1 \in BodyRange(s, p)
        /\ i + 1 \in 1..Len(s)
    BY <2>1, <2>2, <2>3 DEF DefinesLayer
  <2>5. \A k \in p..i : k \in 1..Len(s)
    BY <1>5, <2>4
  <2>6. DefinesLayer(s, p, i)
    <3>1. s[i].type = t[i].type /\ s[i + 1].type = t[i + 1].type
      BY <1>10, <2>4
    <3>2. \A k \in p..i : s[k].type = t[k].type
      BY <1>10, <2>5
    <3>3. \A k \in p..i : \A r \in k..i : r \in p..i
      BY <1>5, <2>4
    <3> QED
      BY <2>1, <2>4, <3>1, <3>2, <3>3 DEF DefinesLayer
  <2>7. Key(s[i]) \in names
    BY <1>1, <1>2, <1>5, <1>6, <2>1, <2>2, <2>6, LayerCollected
  <2>8. s[i].type \in NameTypes /\ s[j].type \in NameTypes
    BY <1>10, <2>1, <2>4 DEF DefinesLayer
  <2>9. Key(t[i]) = Key(s[i]) /\ Key(t[j]) = Key(s[j])
    BY <1>10, <2>4
  <2>10. Local(i) /\ Local(j)
    BY <2>1, <2>2, <2>3, <2>7, <2>8, <2>9
  <2>11. t[i].value = Key(s[i]) /\ t[j].value = Key(s[j])
    BY <1>10, <2>4, <2>10
  <2> QED
    BY <2>1, <2>9, <2>11
<1>15. Settled(s, p)
  BY <1>2, <1>4
<1>16. ASSUME NEW c \in 1..(d.close - 1), t[c].type = "DMACRO", ~Nested(t, c)
       PROVE  /\ CloseOf(t, Find(t, c, {"OPEN"})) <= d.close
              /\ SpelledAlike(t, c)
  <2>1. c \in Nat /\ 1 <= c /\ c \in 1..Len(s)
    BY <1>5
  <2>2. t[c].type = s[c].type
    BY <1>10, <2>1
  <2>3. CASE c < p
    <3>1. c \in 1..(p - 1)
      BY <1>5, <2>1, <2>3
    <3>2. ~Nested(s, c)
      BY <1>5, <1>9, <1>11, <1>16, <2>1, NestedSame
    <3>3. /\ CloseOf(s, Find(s, c, {"OPEN"})) <= p
          /\ SpelledAlike(s, c)
      BY <1>15, <1>16, <2>2, <3>1, <3>2 DEF Settled
    <3> DEFINE open  == Find(s, c, {"OPEN"})
               close == CloseOf(s, open)
    <3>4. /\ CloseOf(t, Find(t, c, {"OPEN"})) = close
          /\ BodyRange(t, c) = BodyRange(s, c)
      BY <1>5, <1>9, <1>11, <2>1, BodySame
    <3>5. /\ open \in Nat /\ 1 <= open /\ close \in Nat
          /\ BodyRange(s, c) = open..(close - 1)
      BY <1>5, <2>1, BodyPlace
    <3>6. close <= p
      BY <3>3
    <3> HIDE DEF open, close
    <3>7. \A k \in BodyRange(s, c) : k \in 1..(p - 1)
      BY <1>5, <3>5, <3>6
    <3>8. SpelledAlike(t, c)
      <4>1. SUFFICES ASSUME NEW i \in BodyRange(t, c),
                            NEW j \in BodyRange(t, c),
                            DefinesLayer(t, c, i), t[j].type \in NameTypes,
                            Key(t[j]) = Key(t[i])
                     PROVE  t[j].value = t[i].value
        BY DEF SpelledAlike
      <4>2. i \in BodyRange(s, c) /\ j \in BodyRange(s, c)
            /\ i + 1 \in BodyRange(s, c)
        BY <3>4, <4>1 DEF DefinesLayer
      <4>3. i \in 1..(p - 1) /\ j \in 1..(p - 1) /\ i + 1 \in 1..(p - 1)
        BY <3>7, <4>2
      <4>4. t[i] = s[i] /\ t[j] = s[j] /\ t[i + 1] = s[i + 1]
        BY <1>13, <4>3
      <4>5. \A k \in c..i : t[k] = s[k]
        BY <1>5, <1>13, <2>1, <4>3
      <4>6. \A k \in c..i : \A r \in k..i : r \in c..i
        BY <2>1, <4>3
      <4>7. DefinesLayer(s, c, i)
        BY <4>1, <4>2, <4>4, <4>5, <4>6 DEF DefinesLayer
      <4> QED
        BY <3>3, <4>1, <4>2, <4>4, <4>7 DEF SpelledAlike
    <3> QED
      BY <1>5, <3>4, <3>5, <3>6, <3>8
  <2>4. CASE c = p
    <3>1. CloseOf(t, Find(t, p, {"OPEN"})) = d.close
      BY <1>5, <1>6, <1>9, <1>11, BodySame
    <3> QED
      BY <1>5, <1>14, <2>4, <3>1
  <2>5. CASE c > p
    <3>1. CloseOf(t, Find(t, p, {"OPEN"})) = d.close
      BY <1>5, <1>6, <1>9, <1>11, BodySame
    <3>2. p \in 1..(c - 1) /\ c < d.close
      BY <1>5, <1>16, <2>5
    <3>3. t[p].type = "DMACRO"
      BY <1>2, <1>4, <1>5, <1>10 DEF Here
    <3> QED
      BY <1>16, <3>1, <3>2, <3>3 DEF Nested
  <2> QED
    BY <1>5, <2>1, <2>3, <2>4, <2>5
<1>17. Settled(t, d.close)
  BY <1>16 DEF Settled
<1> QED
  BY <1>3, <1>7, <1>17

LEMMA KeptStep ==
  ASSUME NEW low \in BOOLEAN, Inv(low), KeptInv, [Next]_vars
  PROVE  KeptInv'
<1> SUFFICES ASSUME ~flattenMacro'
             PROVE  /\ DOMAIN macros' = {}
                    /\ phase' \notin {"arguments", "copy"}
                    /\ phase' = "extract" => Settled(stream, pos)'
                    /\ phase' \in {"expand", "rescan", "done"} =>
                         Settled(stream', Len(stream') + 1)
  BY DEF KeptInv
<1>1. flattenMacro' = flattenMacro
  BY DEF vars, inputs, Next, Step, ExtractMacro, RejectDefinition,
     DefineMacro, DefineUnclosed, KeepMacro, ParseCMacro, RejectCall, EnterCall,
     TakeArgument, RejectArgument, ReplaceCMacro, CopyToken, EndCopy,
     CopyPastEnd, CallWithoutName, Skip, EndExtract, EndPass, FirstCall, NoCall,
     Halted, Rewind, Exit, ReadPastEnd
<1>2. /\ DOMAIN macros = {}
      /\ phase \notin {"arguments", "copy"}
      /\ phase = "extract" => Settled(stream, pos)
      /\ phase \in {"expand", "rescan", "done"} =>
           Settled(stream, Len(stream) + 1)
  BY <1>1 DEF KeptInv
<1>3. CASE ExtractMacro
  <2>1. PICK d \in {Definition} : \/ RejectDefinition(d)
                                  \/ DefineMacro(d)
                                  \/ DefineUnclosed(d)
                                  \/ KeepMacro(d)
    BY <1>3 DEF ExtractMacro
  <2>2. phase = "extract" /\ ~AtEnd(stream, pos) /\ Here.type = "DMACRO"
    BY <1>3 DEF ExtractMacro
  <2>3. CASE RejectDefinition(d)
    BY <1>2, <2>3 DEF RejectDefinition, Exit
  <2>4. CASE KeepMacro(d)
    <3>1. Settled(stream, pos)'
      BY <1>2, <2>2, <2>4, KeepMacroSettled
    <3> QED
      BY <1>2, <2>2, <2>4, <3>1 DEF KeepMacro
  <2> QED
    BY <1>1, <2>1, <2>3, <2>4 DEF DefineMacro, DefineUnclosed
<1>4. CASE \/ ParseCMacro \/ TakeArgument \/ RejectArgument \/ ReplaceCMacro
           \/ CopyToken \/ EndCopy \/ CopyPastEnd
  BY <1>2, <1>4 DEF ParseCMacro, CallsDefined, TakeArgument, RejectArgument,
     ExpectsArgument, ReplaceCMacro, CopyToken, EndCopy, CopyPastEnd
<1>5. CASE CallWithoutName
  BY <1>2, <1>5 DEF CallWithoutName, ReadPastEnd
<1>6. CASE Skip
  <2>1. /\ UNCHANGED <<phase, stream, macros>> /\ pos' = pos + 1
        /\ phase = "extract" => Here.type # "DMACRO"
    BY <1>6 DEF Skip
  <2>2. ASSUME phase = "extract"
        PROVE  Settled(stream, pos + 1)
    <3>1. PICK p \in Nat : p = pos
      BY StreamTokens
    <3>2. PICK s \in Seq(Token) : s = stream
      BY StreamTokens
    <3>3. Settled(s, p) /\ s[p].type # "DMACRO"
      BY <1>2, <2>1, <2>2, <3>1, <3>2 DEF Here
    <3>4. ASSUME NEW c \in 1..((p + 1) - 1), s[c].type = "DMACRO",
                 ~Nested(s, c)
          PROVE  /\ CloseOf(s, Find(s, c, {"OPEN"})) <= p + 1
                 /\ SpelledAlike(s, c)
      <4>1. c \in 1..(p - 1) /\ c \in Nat /\ 1 <= c
        BY <3>3, <3>4
      <4>2. /\ CloseOf(s, Find(s, c, {"OPEN"})) <= p
            /\ SpelledAlike(s, c)
        BY <3>3, <3>4, <4>1 DEF Settled
      <4>3. CloseOf(s, Find(s, c, {"OPEN"})) \in Nat
        BY <4>1, BodyPlace
      <4> QED
        BY <4>2, <4>3
    <3>5. Settled(s, p + 1)
      BY <3>4 DEF Settled
    <3> QED
      BY <3>1, <3>2, <3>5
  <2> QED
    BY <1>2, <2>1, <2>2
<1>7. CASE EndExtract
  BY <1>2, <1>7 DEF EndExtract, Rewind, AtEnd
<1>8. CASE EndPass \/ FirstCall \/ NoCall
  BY <1>2, <1>8 DEF EndPass, FirstCall, NoCall, Rewind
<1>9. CASE UNCHANGED vars
  BY <1>2, <1>9 DEF vars
<1> QED
  BY <1>3, <1>4, <1>5, <1>6, <1>7, <1>8, <1>9 DEF Next, Step, Halted

\* Where definitions stay, every layer is spelled as its key in all of the body
\* that it is defined in, for every deck: definitions are looked at in order,
\* and behind a body nothing in front of it changes (extractMacro).
THEOREM LayersAreSpelledAlike == Spec => []LayersSpelledAlike
<1>1. Init => KeptInv
  BY DEF Init, KeptInv, Settled
<1>2. IInv /\ KeptInv /\ [Next]_vars => KeptInv'
  <2>1. Lowercase \in BOOLEAN
    BY DEF Lowercase
  <2> QED
    BY <2>1, KeptStep DEF IInv
<1>3. ASSUME IInv, KeptInv
      PROVE  LayersSpelledAlike
  <2>1. Len(stream) \in Nat /\ DOMAIN stream = 1..Len(stream)
    <3>1. Lowercase \in BOOLEAN
      BY DEF Lowercase
    <3> QED
      BY <1>3, <3>1, StreamTokens, LenProperties DEF IInv
  <2>2. \A d \in DOMAIN stream : d \in 1..((Len(stream) + 1) - 1)
    BY <2>1
  <2> QED
    BY <1>3, <2>2 DEF KeptInv, Settled, LayersSpelledAlike
<1> QED
  BY <1>1, <1>2, <1>3, Inductive, PTL DEF Spec

-----------------------------------------------------------------------------
(***************************************************************************)
(* The scopes of a token are those of its expansion.                       *)
(***************************************************************************)
\* F gives each of the expansions cs its scopes; a call is in the text of an
\* earlier one.
Scoping(F, cs) ==
  /\ F \in [0..Len(cs) -> Seq(Scope)]
  /\ F[0] = <<>>
  /\ \A c \in 1..Len(cs) : /\ cs[c].caller \in 0..(c - 1)
                           /\ F[c] = Append(F[cs[c].caller], cs[c].scope)

Scoped(F, n) == {t \in Token : t.call \in 0..n /\ t.namescopes = F[t.call]}

ScopedArgument(F, n) ==
  [para : Names \cup {NoName}, tokens : Seq(Scoped(F, n))]

Scopes(F) ==
  /\ Scoping(F, calls)
  /\ stream \in Seq(Scoped(F, Len(calls)))
  /\ local.vArguments \in Seq(ScopedArgument(F, Len(calls)))
  /\ phase = "copy" => local.namescopes = F[Len(calls)]

NestInv == \E F : Scopes(F)

LEMMA ScopesQuiet ==
  ASSUME NEW F, Scopes(F), UNCHANGED <<stream, calls>>,
         local'.vArguments = local.vArguments \/ local'.vArguments = <<>>,
         phase' = "copy" =>
           phase = "copy" /\ local'.namescopes = local.namescopes
  PROVE  Scopes(F)'
<1>1. <<>> \in Seq(ScopedArgument(F, Len(calls)))
  BY EmptySeq
<1> QED
  BY <1>1 DEF Scopes

LEMMA ScopedTokens ==
  ASSUME NEW F, NEW n \in Nat, NEW s \in Seq(Scoped(F, n))
  PROVE  /\ Len(s) \in Nat /\ DOMAIN s = 1..Len(s) /\ s \in Seq(Token)
         /\ \A i \in 1..Len(s) : s[i] \in Scoped(F, n) /\ s[i] \in Token
<1>1. Scoped(F, n) \subseteq Token
  BY DEF Scoped
<1> QED
  BY <1>1, SeqMonotonic, LenProperties, ElementOfSeq

LEMMA ExtractMacroScopes ==
  ASSUME NEW low \in BOOLEAN, Inv(low), NEW F, Scopes(F), ExtractMacro
  PROVE  Scopes(F)'
<1> DEFINE S == Scoped(F, Len(calls))
<1>1. PICK d \in {Definition} : \/ RejectDefinition(d)
                                \/ DefineMacro(d)
                                \/ DefineUnclosed(d)
                                \/ KeepMacro(d)
  BY DEF ExtractMacro
<1>2. phase = "extract" /\ ~AtEnd(stream, pos)
  BY DEF ExtractMacro
<1>3. CASE RejectDefinition(d)
  BY <1>3, ScopesQuiet DEF RejectDefinition, Exit
<1>4. CASE DefineUnclosed(d)
  BY <1>4, ScopesQuiet DEF DefineUnclosed, ReadPastEnd
<1>5. stream \in Seq(S) /\ Len(calls) \in Nat
  BY LenProperties DEF Scopes, Inv, CallsNumbered
<1>6. ASSUME stream' \in Seq(S), UNCHANGED <<phase, local, calls>>
      PROVE  Scopes(F)'
  BY <1>6 DEF Scopes
<1>7. CASE DefineMacro(d)
  <2>1. /\ pos \in Nat /\ 1 <= pos /\ d.close \in Nat /\ pos <= d.close
        /\ Len(stream) \in Nat /\ d.close <= Len(stream) + 1
    BY <1>2, DefinitionPlaced
  <2>2. d.close # Len(stream) + 1
    BY <1>7 DEF DefineMacro, AtEnd
  <2>3. PICK b \in Nat : b = d.close + 1
    BY <2>1
  <2>4. pos <= b /\ b <= Len(stream) + 1
    BY <2>1, <2>2, <2>3
  <2>5. LET t == SubSeq(stream, 1, pos - 1) \o SubSeq(stream, b, Len(stream))
        IN  t \in Seq(S) /\ Len(t) = Len(stream) - (b - pos)
    <3>1. stream \in Seq(S) /\ pos \in Nat /\ 1 <= pos /\ b \in Nat
      BY <1>5, <2>1, <2>3
    <3> HIDE DEF S
    <3> QED
      BY <3>1, <2>4, Cut
  <2>6. stream' \in Seq(S)
    BY <1>7, <2>3, <2>5 DEF DefineMacro
  <2> QED
    BY <1>6, <1>7, <2>6 DEF DefineMacro
<1>8. CASE KeepMacro(d)
  <2>1. PICK names \in {LocalNames(d)} :
        stream' = [j \in DOMAIN stream |->
                    IF /\ j \in BodyOf(d)
                       /\ stream[j].type \in NameTypes
                       /\ Key(stream[j]) \in names
                    THEN [stream[j] EXCEPT !.value = Key(stream[j])]
                    ELSE stream[j]]
    BY <1>8 DEF KeepMacro
  <2>2. /\ Len(stream) \in Nat /\ DOMAIN stream = 1..Len(stream)
        /\ \A i \in 1..Len(stream) : stream[i] \in S /\ stream[i] \in Token
    BY <1>5, ScopedTokens
  <2>3. ASSUME NEW j \in 1..Len(stream), stream[j].type \in NameTypes
        PROVE  [stream[j] EXCEPT !.value = Key(stream[j])] \in S
    <3>1. stream[j] \in S /\ stream[j] \in Token
      BY <2>2
    <3>2. Key(stream[j]) \in Names
      BY <2>3, <3>1, ConstantsTyped DEF Token, Key
    <3> QED
      BY <3>1, <3>2 DEF Scoped, Token
  <2>4. \A j \in 1..Len(stream) : stream'[j] \in S
    BY <2>1, <2>2, <2>3
  <2>5. stream' \in Seq(S)
    BY <2>1, <2>2, <2>4
  <2> QED
    BY <1>6, <1>8, <2>5 DEF KeepMacro
<1> QED
  BY <1>1, <1>3, <1>4, <1>7, <1>8

LEMMA ArgumentPlace ==
  ASSUME NEW low \in BOOLEAN, Inv(low), TakeArgument
  PROVE  /\ local.iCMacro \in 1..Len(stream)
         /\ ArgumentEnd(local.iCMacro) \in 1..Len(stream)
<1> DEFINE i == local.iCMacro
           n == SkipBlankSpaceToken(stream, i)
<1>1. phase = "arguments" /\ ~AtEnd(stream, i)
  BY DEF TakeArgument, ExpectsArgument
<1>2. pos < i /\ i <= Len(stream) + 1 /\ i \in Nat
  BY <1>1, CalledTyped DEF Inv, PhaseInv, GoodLocals
<1>3. i \in 1..Len(stream)
  BY <1>1, <1>2, StreamTokens DEF AtEnd
<1>4. n \in Nat /\ 1 <= n /\ n <= Len(stream) + 1
  BY <1>2, StreamTokens, NextPosition
<1>5. SignedNumber(i) => n # Len(stream) + 1
  BY DEF SignedNumber, AtEnd
<1> HIDE DEF n
<1>6. SignedNumber(i) => n \in 1..Len(stream)
  BY <1>4, <1>5, StreamTokens
<1> QED
  BY <1>3, <1>6 DEF ArgumentEnd, n

LEMMA TakeArgumentScopes ==
  ASSUME NEW low \in BOOLEAN, Inv(low), NEW F, Scopes(F), TakeArgument
  PROVE  Scopes(F)'
<1> DEFINE A == ScopedArgument(F, Len(calls))
           S == Scoped(F, Len(calls))
<1>1. phase = "arguments"
  BY DEF TakeArgument, ExpectsArgument
<1>2. PICK last \in {ArgumentEnd(local.iCMacro)} :
       local' = [local EXCEPT
         !.vArguments = Append(@,
            [para   |-> Key(Called.tokens[local.iDMacro]),
             tokens |-> IF last = local.iCMacro THEN <<stream[last]>>
                        ELSE <<stream[local.iCMacro], stream[last]>>]),
         !.iDMacro = SkipBlankSpaceToken(Called.tokens, @),
         !.iCMacro = SkipBlankSpaceToken(stream, last)]
  BY DEF TakeArgument
<1>3. stream[local.iCMacro] \in S /\ stream[last] \in S
  <2>1. Len(calls) \in Nat /\ stream \in Seq(S)
    BY LenProperties DEF Scopes, Inv, CallsNumbered
  <2> QED
    BY <1>2, <2>1, ArgumentPlace, ScopedTokens
<1> DEFINE arg == [para   |-> Key(Called.tokens[local.iDMacro]),
                   tokens |-> IF last = local.iCMacro THEN <<stream[last]>>
                              ELSE <<stream[local.iCMacro], stream[last]>>]
<1>4. arg \in A
  <2> HIDE DEF S
  <2>1. <<stream[last]>> \in Seq(S)
    BY <1>3
  <2>2. <<stream[local.iCMacro], stream[last]>> \in Seq(S)
    BY <1>3
  <2> QED
    BY <2>1, <2>2, KeyTyped DEF ScopedArgument, S
<1> HIDE DEF arg, A
<1>5. Append(local.vArguments, arg) \in Seq(A)
  BY <1>4, AppendProperties DEF Scopes, A
<1>6. local'.vArguments = Append(local.vArguments, arg)
  BY <1>1, <1>2, CalledTyped DEF arg, GoodLocals
<1> QED
  BY <1>1, <1>5, <1>6 DEF Scopes, TakeArgument, A

LEMMA ReplacedCall ==
  ASSUME NEW low \in BOOLEAN, Inv(low), ReplaceCMacro
  PROVE  /\ pos \in 1..Len(stream) /\ Here \in Token
         /\ local.iCMacro \in Nat /\ pos <= local.iCMacro
         /\ local.iCMacro <= Len(stream) + 1
         /\ NewScope \in Scope
         /\ local \in GoodLocals(low)
<1>1. phase = "arguments"
  BY DEF ReplaceCMacro
<1>2. /\ pos < Len(stream) /\ NameAccepted(CallName)
      /\ local.name = Key(CallName)
      /\ pos < local.iCMacro /\ local.iCMacro <= Len(stream) + 1
      /\ local.iCMacro \in Nat /\ local \in GoodLocals(low)
  BY <1>1, CalledTyped DEF Inv, PhaseInv, GoodLocals
<1>3. pos \in 1..Len(stream) /\ pos + 1 \in 1..Len(stream) /\ pos \in Nat
  BY <1>2, StreamTokens
<1>4. Here \in Token /\ CallName \in Token
  BY <1>3, StreamTokens DEF Here, CallName
<1>5. CallName.value \in Names
  BY <1>2, <1>4, Accepted
<1>6. Called.nCallTimes \in Nat
  BY <1>1, CalledTyped DEF GoodMacro
<1> QED
  BY <1>2, <1>3, <1>4, <1>5, <1>6 DEF NewScope, Scope

LEMMA ReplaceCMacroScopes ==
  ASSUME NEW low \in BOOLEAN, Inv(low), NEW F, Scopes(F), ReplaceCMacro
  PROVE  NestInv'
<1>1. PICK n \in Nat : n = Len(calls)
  BY LenProperties DEF Inv, CallsNumbered
<1>2. PICK new : new = Append(Here.namescopes, NewScope)
  OBVIOUS
<1> DEFINE G == [c \in 0..(n + 1) |-> IF c = n + 1 THEN new ELSE F[c]]
           S == Scoped(F, n)
           T == Scoped(G, n + 1)
<1>3. /\ F \in [0..n -> Seq(Scope)] /\ F[0] = <<>>
      /\ \A c \in 1..n : /\ calls[c].caller \in 0..(c - 1)
                         /\ F[c] = Append(F[calls[c].caller], calls[c].scope)
      /\ stream \in Seq(S)
      /\ local.vArguments \in Seq(ScopedArgument(F, n))
  BY <1>1 DEF Scopes, Scoping
<1>4. /\ pos \in 1..Len(stream) /\ Here \in Token
      /\ local.iCMacro \in Nat /\ pos <= local.iCMacro
      /\ local.iCMacro <= Len(stream) + 1
      /\ NewScope \in Scope /\ local \in GoodLocals(low)
  BY ReplacedCall
<1>5. Here \in S
  BY <1>3, <1>4, ScopedTokens DEF Here
<1>6. /\ Here.call \in 0..n /\ new = Append(F[Here.call], NewScope)
      /\ new \in Seq(Scope)
  <2>1. Here.call \in 0..n /\ Here.namescopes = F[Here.call]
    BY <1>5 DEF Scoped
  <2>2. F[Here.call] \in Seq(Scope)
    BY <1>3, <2>1
  <2> QED
    BY <1>2, <1>4, <2>1, <2>2, AppendProperties
<1>7. /\ G \in [0..(n + 1) -> Seq(Scope)]
      /\ G[n + 1] = new
      /\ \A c \in 0..n : G[c] = F[c]
  <2>1. n + 1 \in 0..(n + 1) /\ n + 1 \notin 0..n
    OBVIOUS
  <2>2. \A c \in 0..(n + 1) : c # n + 1 => c \in 0..n
    OBVIOUS
  <2>3. \A c \in 0..n : c \in 0..(n + 1) /\ c # n + 1
    OBVIOUS
  <2>4. \A c \in 0..(n + 1) :
          (IF c = n + 1 THEN new ELSE F[c]) \in Seq(Scope)
    BY <1>3, <1>6, <2>2
  <2> QED
    BY <2>1, <2>3, <2>4
<1> HIDE DEF G
<1>8. S \subseteq T
  BY <1>7 DEF Scoped
<1> DEFINE call == [macro |-> local.name, caller |-> Here.call,
                    scope |-> NewScope]
<1>9. calls' = Append(calls, call)
  BY DEF ReplaceCMacro
<1>10. call.caller = Here.call /\ call.scope = NewScope
  OBVIOUS
<1> HIDE DEF call
<1>11. /\ Len(calls') = n + 1 /\ calls'[n + 1] = call
       /\ \A c \in 1..n : calls'[c] = calls[c]
  <2>1. calls \in Seq(Call)
    BY DEF Inv, CallsNumbered
  <2> QED
    BY <1>1, <1>9, <2>1, LenProperties, AppendProperties
<1>12. Scoping(G, calls')
  <2>1. ASSUME NEW c \in 1..(n + 1)
        PROVE  /\ calls'[c].caller \in 0..(c - 1)
               /\ G[c] = Append(G[calls'[c].caller], calls'[c].scope)
    <3>1. CASE c \in 1..n
      <4>1. /\ calls'[c] = calls[c] /\ calls[c].caller \in 0..(c - 1)
            /\ F[c] = Append(F[calls[c].caller], calls[c].scope)
        BY <1>3, <1>11, <3>1
      <4>2. calls[c].caller \in 0..n /\ c \in 0..n
        BY <3>1, <4>1
      <4> QED
        BY <1>7, <4>1, <4>2
    <3>2. CASE c = n + 1
      <4>1. calls'[c] = call /\ G[c] = new
        BY <1>7, <1>11, <3>2
      <4>2. G[Here.call] = F[Here.call]
        BY <1>6, <1>7
      <4>3. Here.call \in 0..(c - 1)
        BY <1>6, <3>2
      <4> QED
        BY <1>6, <1>10, <4>1, <4>2, <4>3
    <3> QED
      BY <2>1, <3>1, <3>2
  <2>2. G[0] = <<>>
    BY <1>3, <1>7
  <2> QED
    BY <1>7, <1>11, <2>1, <2>2 DEF Scoping
<1>13. stream' \in Seq(T)
  <2>1. PICK b \in Nat : b = local.iCMacro
    BY <1>4
  <2>2. /\ pos \in Nat /\ 1 <= pos /\ pos <= b /\ b <= Len(stream) + 1
        /\ stream \in Seq(S)
    BY <1>3, <1>4, <2>1
  <2>3. LET u == SubSeq(stream, 1, pos - 1) \o SubSeq(stream, b, Len(stream))
        IN  u \in Seq(S) /\ Len(u) = Len(stream) - (b - pos)
    <3> HIDE DEF S
    <3> QED
      BY <2>2, Cut
  <2>4. stream' \in Seq(S)
    BY <2>1, <2>3 DEF ReplaceCMacro
  <2> HIDE DEF S, T
  <2> QED
    BY <1>8, <2>4, SeqMonotonic
<1>14. local'.vArguments \in Seq(ScopedArgument(G, n + 1))
  <2>1. ScopedArgument(F, n) \subseteq ScopedArgument(G, n + 1)
    <3>1. Seq(S) \subseteq Seq(T)
      <4> HIDE DEF S, T
      <4> QED
        BY <1>8, SeqMonotonic
    <3> QED
      BY <3>1 DEF ScopedArgument
  <2>2. local'.vArguments = local.vArguments
    BY <1>4 DEF ReplaceCMacro, GoodLocals
  <2> QED
    BY <1>3, <2>1, <2>2, SeqMonotonic
<1>15. local'.namescopes = new
  BY <1>2, <1>4 DEF ReplaceCMacro, GoodLocals
<1>16. Scopes(G)'
  BY <1>7, <1>11, <1>12, <1>13, <1>14, <1>15 DEF Scopes
<1> QED
  BY <1>16 DEF NestInv

\* A token of a body gets the scopes of the copy, a parameter becomes the
\* tokens of its argument.
LEMMA SubstitutedScopes ==
  ASSUME NEW low \in BOOLEAN, Inv(low), NEW F, Scopes(F), phase = "copy",
         NEW token \in Token
  PROVE  Substituted(token) \in Seq(Scoped(F, Len(calls)))
<1>1. PICK n \in Nat : n = Len(calls)
  BY LenProperties DEF Inv, CallsNumbered
<1>2. PICK args : args = local.vArguments
  OBVIOUS
<1>3. /\ args \in Seq(ScopedArgument(F, n))
      /\ local.namescopes = F[n] /\ local.namescopes \in Seq(Scope)
  BY <1>1, <1>2 DEF Scopes, Scoping
<1>4. DOMAIN args = 1..Len(args) /\ Len(args) \in Nat
  BY <1>3, LenProperties
<1>5. CASE ArgumentsFor(token) = {}
  <2>1. [token EXCEPT !.namescopes = local.namescopes, !.call = n]
          \in Scoped(F, n)
    <3> DEFINE t == [token EXCEPT !.namescopes = local.namescopes, !.call = n]
    <3>1. t \in Token
      BY <1>3 DEF Token
    <3>2. t.call = n /\ t.namescopes = F[n] /\ n \in 0..n
      BY <1>3 DEF Token
    <3> QED
      BY <3>1, <3>2 DEF Scoped
  <2> QED
    BY <1>1, <1>5, <2>1 DEF Substituted
<1>6. CASE ArgumentsFor(token) # {}
  <2> DEFINE k   == Min(ArgumentsFor(token))
             arg == ArgumentFor(token)
  <2>1. /\ ArgumentsFor(token) \in SUBSET Nat
        /\ ArgumentsFor(token) \subseteq 1..Len(args)
    BY <1>2, <1>4 DEF ArgumentsFor
  <2>2. k \in 1..Len(args)
    BY <1>6, <2>1, MinIn
  <2>3. arg \in Seq(Scoped(F, n))
    <3>1. args[k] \in ScopedArgument(F, n)
      BY <1>3, <2>2, ElementOfSeq
    <3> QED
      BY <1>2, <3>1 DEF ScopedArgument, ArgumentFor
  <2> HIDE DEF k, arg
  <2>4. /\ DOMAIN arg = 1..Len(arg) /\ Len(arg) \in Nat
        /\ \A a \in 1..Len(arg) : arg[a] \in Scoped(F, n)
    BY <2>3, ScopedTokens
  <2>5. \A t \in Scoped(F, n) :
          [t EXCEPT !.line = token.line] \in Scoped(F, n)
    BY DEF Scoped, Token
  <2>6. [a \in DOMAIN arg |-> [arg[a] EXCEPT !.line = token.line]]
          \in Seq(Scoped(F, n))
    BY <2>4, <2>5
  <2>7. Substituted(token) =
          [a \in DOMAIN arg |-> [arg[a] EXCEPT !.line = token.line]]
    BY <1>6 DEF Substituted, arg
  <2> QED
    BY <1>1, <2>6, <2>7
<1> QED
  BY <1>5, <1>6

LEMMA CopyTokenScopes ==
  ASSUME NEW low \in BOOLEAN, Inv(low), NEW F, Scopes(F), CopyToken
  PROVE  Scopes(F)'
<1> DEFINE S == Scoped(F, Len(calls))
<1>1. /\ phase = "copy" /\ UNCHANGED <<phase, calls>>
      /\ local.iDMacro <= Len(Called.tokens)
  BY DEF CopyToken
<1>2. DToken \in Token
  <2>1. /\ Called.tokens \in Seq(Token) /\ Len(Called.tokens) \in Nat
        /\ local.iDMacro \in Nat /\ 1 <= local.iDMacro
    BY <1>1, CalledTyped, LenProperties
  <2> QED
    BY <1>1, <2>1, ElementOfSeq DEF DToken
<1>3. PICK piece \in {Substituted(DToken)} :
        stream' = SubSeq(stream, 1, pos - 1) \o piece
                  \o SubSeq(stream, pos, Len(stream))
  BY DEF CopyToken
<1>4. piece \in Seq(S)
  BY <1>1, <1>2, SubstitutedScopes
<1>5. stream \in Seq(S)
  BY DEF Scopes
<1>6. pos \in Nat /\ 1 <= pos /\ pos <= Len(stream) + 1
  BY StreamTokens
<1> HIDE DEF S
<1>7. stream' \in Seq(S)
  BY <1>3, <1>4, <1>5, <1>6, Insertion
<1>8. /\ local'.vArguments = local.vArguments
      /\ local'.namescopes = local.namescopes
  <2>1. local \in GoodLocals(low)
    BY DEF Inv
  <2>2. local' = [local EXCEPT !.iDMacro = local.iDMacro + 1,
                               !.nBrace  = local.nBrace + BraceStep(DToken)]
    BY DEF CopyToken
  <2> QED
    BY <2>1, <2>2 DEF GoodLocals
<1> QED
  BY <1>1, <1>7, <1>8 DEF Scopes, S

LEMMA ScopesStep ==
  ASSUME NEW low \in BOOLEAN, Inv(low), NestInv, [Next]_vars
  PROVE  NestInv'
<1>1. PICK F : Scopes(F)
  BY DEF NestInv
<1>2. Scopes(F)' => NestInv'
  BY DEF NestInv
<1>3. CASE ExtractMacro
  BY <1>1, <1>2, <1>3, ExtractMacroScopes
<1>4. CASE ParseCMacro
  <2>1. CASE RejectCall
    BY <1>1, <1>2, <2>1, ScopesQuiet DEF RejectCall, Exit
  <2>2. CASE EnterCall
    <3>1. UNCHANGED <<stream, calls>> /\ phase' = "arguments"
      BY <2>2 DEF EnterCall
    <3>2. local'.vArguments = <<>>
      BY <2>2 DEF EnterCall, NoLocals
    <3> QED
      BY <1>1, <1>2, <3>1, <3>2, ScopesQuiet
  <2> QED
    BY <1>4, <2>1, <2>2 DEF ParseCMacro
<1>5. CASE TakeArgument
  BY <1>1, <1>2, <1>5, TakeArgumentScopes
<1>6. CASE RejectArgument
  BY <1>1, <1>2, <1>6, ScopesQuiet DEF RejectArgument, Exit
<1>7. CASE ReplaceCMacro
  BY <1>1, <1>7, ReplaceCMacroScopes
<1>8. CASE CopyToken
  BY <1>1, <1>2, <1>8, CopyTokenScopes
<1>9. CASE EndCopy
  BY <1>1, <1>2, <1>9, ScopesQuiet DEF EndCopy, NoLocals
<1>10. CASE CopyPastEnd \/ CallWithoutName
  BY <1>1, <1>2, <1>10, ScopesQuiet
  DEF CopyPastEnd, CallWithoutName, ReadPastEnd
<1>11. CASE Skip
  BY <1>1, <1>2, <1>11, ScopesQuiet DEF Skip
<1>12. CASE EndExtract \/ EndPass \/ FirstCall \/ NoCall
  BY <1>1, <1>2, <1>12, ScopesQuiet
  DEF EndExtract, EndPass, FirstCall, NoCall, Rewind
<1>13. CASE UNCHANGED vars
  BY <1>1, <1>2, <1>13, ScopesQuiet DEF vars
<1> QED
  BY <1>3, <1>4, <1>5, <1>6, <1>7, <1>8, <1>9, <1>10, <1>11, <1>12, <1>13
  DEF Next, Step, Halted

LEMMA ScopesInit ==
  ASSUME Init
  PROVE  NestInv
<1> DEFINE F == [c \in 0..0 |-> <<>>]
<1>1. calls = <<>> /\ Len(calls) = 0 /\ stream = deck /\ deck \in Decks
      /\ phase = "extract" /\ local.vArguments = <<>>
  BY DEF Init, NoLocals
<1>2. F \in [0..0 -> Seq(Scope)] /\ F[0] = <<>>
  BY EmptySeq
<1> HIDE DEF F
<1>3. Scoping(F, calls)
  <2>1. \A c : c \notin 1..0
    OBVIOUS
  <2> QED
    BY <1>1, <1>2, <2>1 DEF Scoping
<1>4. stream \in Seq(Scoped(F, 0))
  <2>1. /\ Len(deck) \in Nat /\ DOMAIN deck = 1..Len(deck)
        /\ \A i \in 1..Len(deck) : deck[i] \in Token
    BY <1>1, ConstantsTyped, LenProperties, ElementOfSeq
  <2>2. \A i \in 1..Len(deck) : deck[i].namescopes = <<>> /\ deck[i].call = 0
    BY <1>1, <2>1, ConstantsTyped
  <2>3. \A i \in 1..Len(deck) : deck[i] \in Scoped(F, 0)
    BY <1>2, <2>1, <2>2 DEF Scoped
  <2>4. deck \in Seq(Scoped(F, 0))
    <3>1. deck \in Seq(Token)
      BY <1>1, ConstantsTyped
    <3> QED
      BY <2>1, <2>3, <3>1
  <2> QED
    BY <1>1, <2>4
<1>5. local.vArguments \in Seq(ScopedArgument(F, 0))
  BY <1>1, EmptySeq
<1>6. Scopes(F)
  BY <1>1, <1>3, <1>4, <1>5 DEF Scopes
<1> QED
  BY <1>6 DEF NestInv

\* ScopesOf is the one function that gives the expansions their scopes.
LEMMA ScopesGiven ==
  ASSUME NEW F, calls \in Seq(Call), Scoping(F, calls)
  PROVE  \A c \in 0..Len(calls) : ScopesOf[c] = F[c]
<1>1. PICK n \in Nat : n = Len(calls)
  BY LenProperties
<1>2. /\ F \in [0..n -> Seq(Scope)] /\ F[0] = <<>>
      /\ \A c \in 1..n : /\ calls[c].caller \in 0..(c - 1)
                         /\ F[c] = Append(F[calls[c].caller], calls[c].scope)
  BY <1>1 DEF Scoping
<1> DEFINE body(g) == [c \in 0..n |->
                         IF c = 0 THEN <<>>
                         ELSE Append(g[calls[c].caller], calls[c].scope)]
           scopes == CHOOSE g : g = body(g)
<1>3. F = body(F)
  <2>1. \A c \in 0..n : c # 0 => c \in 1..n
    OBVIOUS
  <2>2. \A c \in 0..n : F[c] = body(F)[c]
    BY <1>2, <2>1
  <2>3. F = [c \in 0..n |-> F[c]]
    BY <1>2
  <2> QED
    BY <2>2, <2>3
<1>4. scopes = body(scopes)
  <2> HIDE DEF body
  <2> QED
    BY <1>3
<1>5. ScopesOf = scopes
  BY <1>1 DEF ScopesOf
<1>6. PICK g : g = scopes
  OBVIOUS
<1>7. g = body(g)
  BY <1>4, <1>6
<1> HIDE DEF scopes
<1>8. /\ g[0] = <<>>
      /\ \A c \in 1..n : g[c] = Append(g[calls[c].caller], calls[c].scope)
  <2>1. 0 \in 0..n /\ \A c \in 1..n : c \in 0..n /\ c # 0
    OBVIOUS
  <2>2. \A c \in 0..n : g[c] = body(g)[c]
    <3> HIDE DEF body
    <3> QED
      BY <1>7
  <2> QED
    BY <2>1, <2>2
<1> DEFINE P == {m \in Nat : \A c \in 0..m : g[c] = F[c]}
<1>9. 0 \in P
  BY <1>2, <1>8
<1>10. ASSUME NEW m \in 1..n, m - 1 \in P
       PROVE  m \in P
  <2>1. m \in Nat /\ \A c \in 0..(m - 1) : g[c] = F[c]
    BY <1>10
  <2>2. calls[m].caller \in 0..(m - 1)
    BY <1>2
  <2>3. g[m] = F[m]
    BY <1>2, <1>8, <2>1, <2>2
  <2>4. \A c \in 0..m : c \in 0..(m - 1) \/ c = m
    BY <2>1
  <2> QED
    BY <2>1, <2>3, <2>4
<1> HIDE DEF P
<1>11. \A m \in 0..n : m \in P
  BY <1>9, <1>10, UpTo
<1>12. n \in P
  BY <1>11
<1> QED
  BY <1>1, <1>5, <1>6, <1>12 DEF P

\* A token carries the scopes of the expansion that put it there, at whatever
\* depth: arguments keep the scopes of the place they were written at, and the
\* text of a body gets those of the call it replaces and one more
\* (replaceCMacro).
THEOREM ScopesAreNested == Spec => []ScopesNest
<1>1. Init => NestInv
  BY ScopesInit
<1>2. IInv /\ NestInv /\ [Next]_vars => NestInv'
  <2>1. Lowercase \in BOOLEAN
    BY DEF Lowercase
  <2> QED
    BY <2>1, ScopesStep DEF IInv
<1>3. ASSUME IInv, NestInv
      PROVE  ScopesNest
  <2>1. PICK F : Scopes(F)
    BY <1>3 DEF NestInv
  <2>2. calls \in Seq(Call) /\ Len(calls) \in Nat
    BY <1>3, LenProperties DEF IInv, Inv, CallsNumbered
  <2>3. \A c \in 0..Len(calls) : ScopesOf[c] = F[c]
    BY <2>1, <2>2, ScopesGiven DEF Scopes
  <2>4. /\ DOMAIN stream = 1..Len(stream)
        /\ \A i \in 1..Len(stream) : stream[i] \in Scoped(F, Len(calls))
    BY <2>1, <2>2, ScopedTokens DEF Scopes
  <2> QED
    BY <2>3, <2>4 DEF ScopesNest, Scoped
<1> QED
  BY <1>1, <1>2, <1>3, Inductive, PTL DEF Spec
=============================================================================
