------------------------------ MODULE PvrsWriter ------------------------------
(***************************************************************************)
(* The writer of new PVRS for layers, rcsSynPvrsConvertor, a visitor of    *)
(* the tree that SyntaxNodes describes.  The tree is the list of its nodes *)
(* in the order of their visits.  Under -kt, and if there is a temporary   *)
(* layer, there are two rounds of visits; only the second one writes.      *)
(*                                                                         *)
(* The definitions of temporary layers are skipped, and their operations   *)
(* are written where the temporary names are used, one inside of another.  *)
(* Names in expanded macros get the scope of their macro in front of them; *)
(* the token itself is changed, and is read again in a second round.       *)
(*                                                                         *)
(* Left out: layout, line breaks, quotes, and the statements of SVRF that  *)
(* -as repeats as comments.  The tokens of an operation are on one line.   *)
(***************************************************************************)
EXTENDS NumberExpressions, LayerCommands, FiniteSetsExt

CONSTANT Decks  \* the trees to consider, and whether their statements are correct

\* A name is `name' with the scopes that have been written in front of it.
TokenTypes ==
  {"OPERATION", "CMACRO", "KEY", "NAME", "STRING", "NUMBER", "OPERATOR", "SEPARATOR"}
Token == [type : TokenTypes, name : STRING, path : Seq(STRING),
          scopes : Seq(STRING)]

\* The kinds of nodes.  A rule check has a node where it begins and one where
\* it ends; "dummy" and "unknown" nodes hold tokens that make no statement.
Kinds == {"definition", "operation", "rule", "end", "comment", "buildin", "dummy", "unknown"}
Node == [kind : Kinds, head : Token, operation : DOMAIN Commands,
         tokens : Seq(Token)]

\* What is being written: the node, the position in its tokens, the option
\* whose code is running on, and which operands may come.
OptionNames == UNION {DOMAIN Commands[op].options : op \in DOMAIN Commands}
Steps       == UNION {DOMAIN Commands[op].operands : op \in DOMAIN Commands}
Call == [node : Nat, pos : Nat, option : {""} \cup OptionNames, step : Steps]

ASSUME DecksAssumption ==
  \A d \in Decks :
    /\ d.nodes \in Seq(Node)
    /\ d.keepTmp \in BOOLEAN /\ d.correct \in BOOLEAN
    /\ \A n \in DOMAIN d.tmpLayers : d.tmpLayers[n] \in DOMAIN d.nodes
    /\ \A v \in DOMAIN d.nodes :
         /\ d.nodes[v].head.path = <<>>
         /\ \A i \in DOMAIN d.nodes[v].tokens : d.nodes[v].tokens[i].path = <<>>

VARIABLES
  deck,       \* the tree as it was given to the writer, fixed
  nodes,      \* the nodes with the tokens as they are now
  collecting, \* ~m_hasGetTmpLayerValue: the first of two rounds
  at,         \* the node that is visited
  calls,      \* operations that are being written, the innermost is the last
  defLayers,  \* m_vDefLayers: the names of macros' layers
  out,        \* what has been written
  status

vars == <<deck, nodes, collecting, at, calls, defLayers, out, status>>

Statuses == {"writing", "done", "thrown", "undefined", "endless"}

WriterTypeOK ==
  /\ nodes \in Seq(Node) /\ Len(nodes) = Len(deck.nodes)
  /\ collecting \in BOOLEAN
  /\ at \in 1..(Len(nodes) + 1)
  /\ calls \in Seq(Call)
  /\ \A c \in DOMAIN calls :
       /\ calls[c].node \in DOMAIN nodes
       /\ calls[c].pos \in 1..(Len(nodes[calls[c].node].tokens) + 1)
       /\ LET now == Commands[nodes[calls[c].node].operation]
          IN  /\ calls[c].option \in {""} \cup DOMAIN now.options
              /\ calls[c].step \in DOMAIN now.operands
  /\ calls # <<>> => ~collecting /\ calls[1].node = at
  /\ status \in Statuses

-----------------------------------------------------------------------------
Piece(is, name, path, text) ==
  [is |-> is, name |-> name, path |-> path, text |-> text]

Text(word)      == Piece("text", word, <<>>, <<>>)
Number(text)    == Piece("number", "", <<>>, text)
Layer(token)    == Piece("layer", token.name, token.path, <<>>)
Defined(token)  == Piece("define", token.name, token.path, <<>>)
Open(operation) == Piece("open", operation, <<>>, <<>>)
Close           == Piece("close", "", <<>>, <<>>)

TmpLayers      == DOMAIN deck.tmpLayers
IsTmpLayer(t)  == t.name \in TmpLayers
FullName(k, t) == <<SubSeq(t.scopes, 1, k) \o t.path, t.name>>

\* Mutant: the scopes are not looked up.
AnyScopes(t) == DOMAIN t.scopes

\* getRealLayerName(): the innermost scope that has a layer of that name.
DefinedScopes(t) == {k \in DOMAIN t.scopes : FullName(k, t) \in defLayers}

Scoped(t) == t.scopes # <<>> /\ ~IsTmpLayer(t)

\* Mutant: the scopes are looked up from the outermost one on.
Outermost(t) ==
  IF ~Scoped(t) THEN t
  ELSE [t EXCEPT !.type = "STRING",
                 !.path = IF DefinedScopes(t) = {} THEN @
                          ELSE SubSeq(t.scopes, 1, Min(DefinedScopes(t))) \o @]

Real(t) ==
  IF ~Scoped(t) THEN t
  ELSE [t EXCEPT !.type = "STRING",
                 !.path = IF DefinedScopes(t) = {} THEN @
                          ELSE SubSeq(t.scopes, 1, Max(DefinedScopes(t))) \o @]

\* getLayerName(): all scopes.
AllName(t) ==
  IF ~Scoped(t) THEN t
  ELSE [t EXCEPT !.type = "STRING", !.path = t.scopes \o @]

\* getStringName() throws.
Conflicts(t) == t.type \in NameTypes /\ ~IsValidSvrfName(t)

-----------------------------------------------------------------------------
(***************************************************************************)
(* The operation that is being written.                                    *)
(***************************************************************************)
Innermost == calls[Len(calls)]
Here      == nodes[Innermost.node]
Tokens    == Here.tokens
Pos       == Innermost.pos
Now       == Commands[Here.operation]

Busy    == status = "writing" /\ calls # <<>>
WrittenAsIs == Now.rest \in {"names", "raw", "blind"}
Reading     == Busy /\ Pos \in DOMAIN Tokens /\ ~WrittenAsIs

\* The option at Pos, or the one whose code is running on.
AtKey == IF Innermost.option # "" THEN Innermost.option ELSE Tokens[Pos].name
AtOption(kind) ==
  /\ Reading
  /\ Innermost.option # "" \/ Tokens[Pos].type = "KEY"
  /\ AtKey \in DOMAIN Now.options
  /\ Now.options[AtKey].kind = kind
Otherwise == Now.options[AtKey].otherwise

AtOperand ==
  /\ Reading
  /\ Innermost.option = ""
  /\ ~(Tokens[Pos].type = "KEY" /\ AtKey \in DOMAIN Now.options)

\* The operands that may come, and the step after one of them.
Step          == Now.operands[Innermost.step]
Accepts(kind) == kind \in DOMAIN Step
StepAfter(kind) == Step[kind]

MovedTo(pos, option) ==
  [calls EXCEPT ![Len(calls)].pos = pos, ![Len(calls)].option = option]

WriteStep(pieces, pos, step) ==
  /\ out' = out \o pieces
  /\ calls' = [MovedTo(pos, "") EXCEPT ![Len(calls)].step = step]
  /\ UNCHANGED <<deck, nodes, collecting, at, defLayers, status>>

Write(pieces, pos) == WriteStep(pieces, pos, Innermost.step)

Stop(how) ==
  /\ status' = how
  /\ UNCHANGED <<deck, nodes, collecting, at, calls, defLayers, out>>

Throw == Stop("thrown")

\* The end of the list is read as a token.
StopAt(pos) == Stop(IF pos > Len(Tokens) THEN "undefined" ELSE "thrown")

\* The loop looks at the same token, again and again.
Endless == Stop("endless")

\* The operation of a node is begun: its head, and a call to go on with.  A
\* call of a macro has its name written, too.
Heads(v) ==
  IF nodes[v].operation = "CMACRO" THEN <<Open("CMACRO"), Text(nodes[v].tokens[2].name)>>
  ELSE <<Open(nodes[v].operation)>>
Begun(v) ==
  [node |-> v, pos |-> IF nodes[v].operation = "CMACRO" THEN 3 ELSE 1,
   option |-> "", step |-> "first"]

NotConverted(v) ==
  nodes[v].operation \in DirectCommands /\ HasOnlyDirectKeyword(nodes[v].tokens)

\* convExecProcCmd(): the name of the macro.
WithoutName(v) == nodes[v].operation = "CMACRO" /\ Len(nodes[v].tokens) < 2
BadName(v) == nodes[v].operation = "CMACRO" /\ Conflicts(nodes[v].tokens[2])

-----------------------------------------------------------------------------
(***************************************************************************)
(* Layers among the operands.                                              *)
(***************************************************************************)
\* getLayerRefName() at position i.
LayerRef(i) ==
  LET t == Tokens[i]
      r == Real(t)
  IN  IF i \notin DOMAIN Tokens THEN [is |-> "undefined"]
      ELSE IF t.type \in NameTypes \cup {"STRING"}
      THEN IF Conflicts(r) THEN [is |-> "thrown"]
           ELSE [is |-> "layer", at |-> i + 1, token |-> r]
      ELSE IF t.type = "NUMBER"
      THEN [is |-> "layer", at |-> i + 1, token |-> t]
      ELSE IF ~Is(Tokens, i, "OPERATOR", {"+"}) THEN [is |-> "none"]
      ELSE IF i < Len(Tokens) /\ Tokens[i + 1].type = "NUMBER"
      THEN [is |-> "layer", at |-> i + 2, token |-> Tokens[i + 1]]
      ELSE [is |-> "thrown"]

WriteLayer(pieces, ref, step) ==
  /\ out' = out \o pieces \o <<Layer(ref.token)>>
  /\ nodes' = [nodes EXCEPT ![Innermost.node].tokens[ref.at - 1] = ref.token]
  /\ calls' = [MovedTo(ref.at, "") EXCEPT ![Len(calls)].step = step]
  /\ UNCHANGED <<deck, collecting, at, defLayers, status>>

IsTmpName(i) ==
  i \in DOMAIN Tokens /\ Tokens[i].type = "NAME" /\ IsTmpLayer(Tokens[i])

\* parseTmpLayerForOperation(): the operation of the temporary layer at i is
\* written here; the caller goes on at `back'.
Expand(pieces, i, back) ==
  LET v == deck.tmpLayers[Tokens[i].name]
  IN  IF NotConverted(v) THEN Write(pieces, back)
      ELSE IF WithoutName(v) THEN Stop("undefined")
      ELSE IF BadName(v) THEN Throw
      ELSE /\ out' = out \o pieces \o Heads(v)
           /\ calls' = Append(MovedTo(back, ""), Begun(v))
           /\ UNCHANGED <<deck, nodes, collecting, at, defLayers, status>>

\* Mutant: the loop goes on without the next token.
SameToken ==
  AtOperand /\ Tokens[Pos].type = "OPERATION" /\ Write(<<>>, Pos)

OperationKeyword ==
  AtOperand /\ Tokens[Pos].type = "OPERATION" /\ Write(<<>>, Pos + 1)

\* The operands of EXTENT CELL are names only.
TakesLayers == \E step \in DOMAIN Now.operands : "layer" \in DOMAIN Now.operands[step]

AtTmp      == AtOperand /\ TakesLayers /\ IsTmpName(Pos)
AtOwnName  == AtOperand /\ ~AtTmp /\ Tokens[Pos].type # "OPERATION"
IsName(i)  == Tokens[i].type \in NameTypes \cup {"STRING"}

\* convCheckFittingRectangleCmd() writes an operator before it looks at what
\* it belongs to.
Echo ==
  IF Now.rest = "twice" /\ Tokens[Pos].type = "OPERATOR"
  THEN <<Text(Tokens[Pos].name)>> ELSE <<>>

\* convGeomGetNetByNameCmd(), convGeomGetNetByAreaCmd(): a keyword of SVRF is
\* no operand, in a macro neither.
CheckedFirst ==
  Here.operation \in {"NET", "NOT_NET", "NET_AREA"} /\ Conflicts(Tokens[Pos])

TmpOperand == AtTmp /\ Expand(<<>>, Pos, Pos + 1)

LayerOperand ==
  /\ AtOwnName /\ Accepts("layer") /\ ~CheckedFirst
  /\ LayerRef(Pos).is = "layer"
  /\ WriteLayer(Echo, LayerRef(Pos), StepAfter("layer"))

BadOperand ==
  /\ AtOwnName /\ Accepts("layer")
  /\ LayerRef(Pos).is = "thrown" \/ CheckedFirst
  /\ Throw

NameOperand ==
  /\ AtOwnName /\ Accepts("name")
  /\ IsName(Pos)
  /\ IF Conflicts(Tokens[Pos]) THEN Throw
     ELSE WriteStep(<<Text(Tokens[Pos].name)>>, Pos + 1, StepAfter("name"))

NumberOperand ==
  /\ AtOwnName /\ Accepts("number")
  /\ Accepts("layer") => LayerRef(Pos).is = "none"
  /\ Tokens[Pos].type = "SEPARATOR" => Now.rest # "skip"
  /\ \E r \in GetNumberExp(Tokens, Pos) :
       \/ /\ r.is = "got"
          /\ WriteStep(Append(Echo, Number(r.text)), r.at, StepAfter("number"))
       \/ r.is = "undefined" /\ Stop("undefined")
       \/ /\ r.is = "none"
          /\ \/ Now.rest = "reject" /\ StopAt(r.at)
             \/ Now.rest = "skip" /\ r.at = Pos /\ Endless
             \/ Now.rest = "skip" /\ r.at # Pos /\ Write(<<>>, r.at)
             \/ Now.rest = "twice" /\ WriteStep(Echo, r.at, StepAfter("number"))

\* Nothing of the kind may come now.
RejectOperand ==
  /\ AtOwnName
  /\ Tokens[Pos].type # "SEPARATOR"
  /\ ~Accepts("layer") /\ ~Accepts("number")
  /\ Accepts("name") => ~IsName(Pos)
  /\ Throw

-----------------------------------------------------------------------------
(***************************************************************************)
(* Operators and separators.                                               *)
(***************************************************************************)
AtOperator ==
  /\ AtOperand
  /\ Tokens[Pos].type = "OPERATOR"
  /\ Accepts("layer") /\ ~Accepts("number")
  /\ LayerRef(Pos).is = "none"
AtRest == AtOperator /\ Now.rest \in {"checked", "echo", "ignored"}
Found(is) == {r \in GetConstraint(Tokens, Pos) : r.is = is}

ConstraintOperand ==
  AtRest /\ \E r \in Found("got") : Write(<<Number(r.text)>>, r.at)

ConstraintPast == AtRest /\ \E r \in Found("undefined") : Stop("undefined")

RejectConstraint ==
  AtRest /\ Now.rest = "checked" /\ \E r \in Found("none") : StopAt(r.at)

\* convGeomTopoCmd(): the token the constraint ends with is written.
EchoConstraint ==
  /\ AtRest /\ Now.rest = "echo"
  /\ \E r \in Found("none") :
       IF r.at > Len(Tokens) THEN Stop("undefined")
       ELSE Write(<<Text(Tokens[r.at].name)>>, r.at + 1)

\* The result is not looked at.  Without a sign nothing has been read.
IgnoreConstraint ==
  /\ AtRest /\ Now.rest = "ignored"
  /\ \E r \in Found("none") :
       IF r.at = Pos THEN Endless ELSE Write(<<Number(r.text)>>, r.at)

RejectOperator == AtOperator /\ Now.rest \in {"reject", "skip"} /\ Throw
OperatorAgain  == AtOperator /\ Now.rest \in {"again", "twice"} /\ Endless

AtSeparator ==
  /\ AtOperand /\ Tokens[Pos].type = "SEPARATOR"
  /\ Accepts("number") => Now.rest = "skip"
EchoSeparator ==
  AtSeparator /\ Now.rest = "echo" /\ Write(<<Text(Tokens[Pos].name)>>, Pos + 1)
SeparatorAgain == AtSeparator /\ Now.rest = "twice" /\ Accepts("layer") /\ Endless
RejectSeparator ==
  /\ AtSeparator /\ Now.rest # "echo"
  /\ ~(Now.rest = "twice" /\ Accepts("layer"))
  /\ Throw

-----------------------------------------------------------------------------
(***************************************************************************)
(* Options.                                                                *)
(***************************************************************************)
FlagOption == AtOption("flag") /\ Write(<<Text(AtKey)>>, Pos + 1)
OmitOption == AtOption("omit") /\ Write(<<>>, Pos + 1)

SkipOption ==
  AtOption("skip") /\ Write(<<>>, IF Pos = Len(Tokens) THEN Pos + 1 ELSE Pos + 2)

SecondWord == Is(Tokens, Pos + 1, "KEY", Now.options[AtKey].second)

PairOption ==
  /\ AtOption("pair") /\ SecondWord
  /\ Write(<<Text(AtKey), Text(Tokens[Pos + 1].name)>>, Pos + 2)
RejectPair == AtOption("pair") /\ ~SecondWord /\ Throw

FollowOption ==
  /\ AtOption("follow")
  /\ IF SecondWord THEN Write(<<Text(AtKey), Text(Tokens[Pos + 1].name)>>, Pos + 2)
     ELSE Write(<<Text(AtKey)>>, Pos + 1)

WordOption ==
  /\ AtOption("word")
  /\ IF Pos = Len(Tokens) THEN Stop("undefined")
     ELSE Write(<<Text(AtKey), Text(Tokens[Pos + 1].name)>>, Pos + 2)

NameOption ==
  /\ AtOption("name")
  /\ IF Pos < Len(Tokens) /\ IsName(Pos + 1) /\ ~Conflicts(Tokens[Pos + 1])
     THEN Write(<<Text(AtKey), Text(Tokens[Pos + 1].name)>>, Pos + 2)
     ELSE Throw

\* The code for operands looks at what is there instead of the number.
OperandInstead(i) ==
  IF i \in DOMAIN Tokens /\ LayerRef(i).is = "layer"
  THEN WriteLayer(<<>>, LayerRef(i), Innermost.step)
  ELSE StopAt(i)

\* What shrinks is written as something that grows.
Sign == IF Here.operation = "SHRINK" THEN <<"-">> ELSE <<>>

ValueOption ==
  /\ AtOption("value")
  /\ \E r \in GetNumberExp(Tokens, Pos + 1) :
       \/ r.is = "got" /\ Write(<<Text(AtKey), Number(Sign \o r.text)>>, r.at)
       \/ r.is = "undefined" /\ Stop("undefined")
       \/ /\ r.is = "none"
          /\ \/ Otherwise = "drop" /\ Write(<<>>, r.at)
             \/ Otherwise = "keep" /\ Write(<<Text(AtKey)>>, r.at)
             \/ Otherwise = "operand" /\ OperandInstead(r.at)

AfterOption ==
  /\ AtOption("after") /\ SecondWord
  /\ \E r \in GetNumberExp(Tokens, Pos + 2) :
       \/ r.is = "got" /\ Write(<<Text(AtKey), Number(Sign \o r.text)>>, r.at)
       \/ r.is = "undefined" /\ Stop("undefined")
       \/ r.is = "none" /\ Write(<<>>, r.at)

\* Without its second keyword the option is an operand.
KeyOperand ==
  /\ AtOption("after") /\ ~SecondWord
  /\ IF LayerRef(Pos).is = "layer"
     THEN WriteLayer(<<>>, LayerRef(Pos), Innermost.step)
     ELSE Throw

\* The second number has to be there, but what is there is not looked at.
TwoOption ==
  /\ AtOption("two")
  /\ \E r1 \in GetNumberExp(Tokens, Pos + 1) :
       LET first == IF r1.is = "got" THEN <<Text(AtKey), Number(r1.text)>> ELSE <<>>
       IN  IF r1.is = "undefined" THEN Stop("undefined")
           ELSE IF r1.at > Len(Tokens) THEN Throw
           ELSE \E r2 \in GetNumberExp(Tokens, r1.at) :
                  \/ r2.is = "got" /\ Write(Append(first, Number(r2.text)), r2.at)
                  \/ r2.is = "undefined" /\ Stop("undefined")
                  \/ r2.is = "none" /\ Write(first, r2.at)

LimitOption ==
  /\ AtOption("limit")
  /\ \E r \in GetConstraint(Tokens, Pos + 1) :
       CASE r.is = "undefined" -> Stop("undefined")
         [] r.is = "none" /\ Otherwise = "drop" -> Write(<<>>, r.at)
         [] OTHER -> Write(<<Text(AtKey), Number(r.text)>>, r.at)

AtLayerOption == (AtOption("layer") \/ AtOption("again")) /\ ~IsTmpName(Pos + 1)

TmpOption ==
  AtOption("layer") /\ IsTmpName(Pos + 1) /\ Expand(<<Text(AtKey)>>, Pos + 1, Pos + 2)

\* convGeomSelectInCellCmd(): the temporary layer is an operand, too.
TmpOptionAgain ==
  AtOption("again") /\ IsTmpName(Pos + 1) /\ Expand(<<Text(AtKey)>>, Pos + 1, Pos + 1)

LayerOption ==
  /\ AtLayerOption
  /\ LayerRef(Pos + 1).is = "layer"
  /\ WriteLayer(<<Text(AtKey)>>, LayerRef(Pos + 1), Innermost.step)

BadLayerOption ==
  /\ AtLayerOption
  /\ LayerRef(Pos + 1).is \in {"thrown", "undefined"}
  /\ Stop(LayerRef(Pos + 1).is)

WithoutLayer ==
  /\ AtLayerOption
  /\ LayerRef(Pos + 1).is = "none"
  /\ CASE Otherwise = "keep"   -> Write(<<Text(AtKey)>>, Pos + 1)
       [] Otherwise = "reject" -> Throw
       [] Otherwise = "again"  -> Endless
       [] OTHER -> /\ out' = Append(out, Text(AtKey))
                   /\ calls' = MovedTo(Pos + 1, Otherwise)
                   /\ UNCHANGED <<deck, nodes, collecting, at, defLayers, status>>

-----------------------------------------------------------------------------
\* convExecProcCmd(), convDfmOrEdge() and convSize_XYCmd(): all tokens but the
\* keyword are written.
Arguing == Busy /\ Pos \in DOMAIN Tokens /\ WrittenAsIs

AtKeyword ==
  \/ Now.rest = "raw" /\ Tokens[Pos].type = "OPERATION"
  \/ Now.rest = "blind" /\ Pos = 1
OwnKeyword == Arguing /\ AtKeyword /\ Write(<<>>, Pos + 1)

TmpArgument ==
  Arguing /\ Now.rest # "blind" /\ IsTmpName(Pos) /\ Expand(<<>>, Pos, Pos + 1)

Argument ==
  /\ Arguing /\ ~AtKeyword
  /\ Now.rest # "blind" => ~IsTmpName(Pos)
  /\ IF Now.rest = "names" /\ Conflicts(Tokens[Pos]) THEN Throw
     ELSE Write(<<Text(Tokens[Pos].name)>>, Pos + 1)

\* Mutant: an operation inside of another ends the visit, too.
EndsVisit ==
  /\ Busy /\ Pos > Len(Tokens)
  /\ out' = Append(out, Close)
  /\ calls' = Front(calls)
  /\ at' = at + 1
  /\ UNCHANGED <<deck, nodes, collecting, defLayers, status>>

\* The operation ends, and so does the visit of its node if it was not written
\* for another one.
Return ==
  /\ Busy /\ Pos > Len(Tokens)
  /\ out' = Append(out, Close)
  /\ calls' = Front(calls)
  /\ at' = IF Len(calls) = 1 THEN at + 1 ELSE at
  /\ UNCHANGED <<deck, nodes, collecting, defLayers, status>>

Operands ==
  \/ OperationKeyword \/ TmpOperand \/ LayerOperand \/ BadOperand
  \/ NameOperand \/ NumberOperand \/ RejectOperand
  \/ ConstraintOperand \/ ConstraintPast \/ RejectConstraint
  \/ EchoConstraint \/ IgnoreConstraint \/ RejectOperator \/ OperatorAgain
  \/ EchoSeparator \/ SeparatorAgain \/ RejectSeparator

Options ==
  \/ FlagOption \/ OmitOption \/ SkipOption \/ PairOption \/ RejectPair
  \/ FollowOption \/ WordOption \/ NameOption
  \/ ValueOption \/ AfterOption \/ KeyOperand \/ TwoOption \/ LimitOption
  \/ TmpOption \/ TmpOptionAgain \/ LayerOption \/ BadLayerOption \/ WithoutLayer

Written == OwnKeyword \/ TmpArgument \/ Argument

-----------------------------------------------------------------------------
(***************************************************************************)
(* The visits.                                                             *)
(***************************************************************************)
Visiting(kinds) ==
  /\ status = "writing" /\ calls = <<>>
  /\ at <= Len(nodes)
  /\ nodes[at].kind \in kinds

NextNode(pieces) ==
  /\ out' = out \o pieces
  /\ at' = at + 1
  /\ UNCHANGED <<deck, collecting, calls, status>>

\* beginVisitLayerOperationNode() with what comes before it.
BeginOperation(pieces) ==
  IF NotConverted(at) THEN NextNode(pieces)
  ELSE IF WithoutName(at) \/ BadName(at)
  THEN /\ status' = IF WithoutName(at) THEN "undefined" ELSE "thrown"
       /\ out' = out \o pieces
       /\ UNCHANGED <<deck, collecting, at, calls>>
  ELSE /\ out' = out \o pieces \o Heads(at)
       /\ calls' = <<Begun(at)>>
       /\ UNCHANGED <<deck, collecting, at, status>>

\* beginVisitLayerDefinitionNode(): the name is put into defLayers, and the
\* token is changed, before the round is known.
VisitLayerDefinition ==
  /\ Visiting({"definition"}) /\ ~IsTmpLayer(nodes[at].head)
  /\ LET head == AllName(nodes[at].head)
     IN  IF Conflicts(head) THEN Throw
         ELSE /\ nodes' = [nodes EXCEPT ![at].head = head]
              /\ defLayers' = defLayers \cup
                   IF Scoped(head) THEN {<<head.path, head.name>>} ELSE {}
              /\ IF collecting THEN NextNode(<<>>)
                 ELSE BeginOperation(<<Defined(head)>>)

VisitTmpLayer ==
  /\ Visiting({"definition"}) /\ IsTmpLayer(nodes[at].head)
  /\ NextNode(<<>>)
  /\ UNCHANGED <<nodes, defLayers>>

VisitLayerOperation ==
  /\ Visiting({"operation"})
  /\ IF collecting THEN NextNode(<<>>) ELSE BeginOperation(<<>>)
  /\ UNCHANGED <<nodes, defLayers>>

VisitRuleCheck ==
  /\ Visiting({"rule"})
  /\ IF ~collecting /\ Conflicts(nodes[at].head) THEN Throw
     ELSE /\ NextNode(IF collecting THEN <<>>
                      ELSE <<Text("rule"), Text(nodes[at].head.name)>>)
          /\ UNCHANGED <<nodes, defLayers>>

VisitText ==
  /\ Visiting({"end", "comment", "buildin"})
  /\ NextNode(IF collecting THEN <<>> ELSE <<Text(nodes[at].kind)>>)
  /\ UNCHANGED <<nodes, defLayers>>

\* Written in both rounds.
VisitUnknow ==
  /\ Visiting({"dummy", "unknown"})
  /\ NextNode(<<Text(nodes[at].kind)>>)
  /\ UNCHANGED <<nodes, defLayers>>

\* rcsSynConvertor::execute(): setHasGetTmpLayerValues(), the second round.
SecondRound ==
  /\ status = "writing" /\ at > Len(nodes) /\ collecting
  /\ collecting' = FALSE
  /\ at' = 1
  /\ UNCHANGED <<deck, nodes, calls, defLayers, out, status>>

Finish ==
  status = "writing" /\ at > Len(nodes) /\ ~collecting /\ Stop("done")

Visits ==
  \/ VisitLayerDefinition \/ VisitTmpLayer \/ VisitLayerOperation
  \/ VisitRuleCheck \/ VisitText \/ VisitUnknow
  \/ SecondRound \/ Finish

Init ==
  /\ deck \in Decks
  /\ nodes = deck.nodes
  /\ collecting = (deck.keepTmp /\ TmpLayers # {})
  /\ at = 1
  /\ calls = <<>>
  /\ defLayers = {}
  /\ out = <<>>
  /\ status = "writing"

Next == Operands \/ Options \/ Written \/ Return \/ Visits

Spec == Init /\ [][Next]_vars /\ WF_vars(Next)
=============================================================================
