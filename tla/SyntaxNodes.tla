----------------------------- MODULE SyntaxNodes -----------------------------
(***************************************************************************)
(* The third pass of rcsSynConvertor::execute(), which cuts the list of    *)
(* tokens into the nodes that the writers convert one by one               *)
(* (syntax/rcsSynConvertor.cpp).  The pass begins when ImplicitLayers has  *)
(* rewritten the list.                                                     *)
(*                                                                         *)
(* The code erases the comments inside of an operation from the list once  *)
(* it is past them.  As nothing looks back further than one token, and     *)
(* never at those, they stay in `stream' here and are left out of the node.*)
(***************************************************************************)
EXTENDS ImplicitLayers, Functions, FiniteSets

CONSTANT
  ParaSizes   \* the numbers of parameters of the macros that were kept

ASSUME ParaSizesAssumption ==
  \A n \in DOMAIN ParaSizes : n \in Names /\ ParaSizes[n] \in Nat

VARIABLES
  iter,       \* position in the list
  begin,      \* iterBegin: tokens from here on are in no node
  rule,       \* the rule check or macro that is being read
  nodes,      \* the children of the root node
  tmpLayers,  \* m_vTmpLayers: the definition of each temporary name
  status,
  nodeError

nodeVars == <<iter, begin, rule, nodes, tmpLayers, status, nodeError>>
vars     == <<layerVars, nodeVars>>

NoRule == [kind |-> "none", head |-> <<>>, tokens |-> <<>>, children |-> <<>>]

Kinds == {"operation", "specification", "definition", "rulecheck", "proc",
          "preprocess", "comment", "buildin", "dummy", "unknown"}
ChildKinds == Kinds \ {"rulecheck", "proc", "unknown"}

Child == [kind : ChildKinds, head : Seq(Token), tokens : Seq(Token),
          children : {<<>>}]
Node == [kind : Kinds, head : Seq(Token), tokens : Seq(Token),
         children : Seq(Child)]

\* The third pass stays in the list, what is pending is behind the position,
\* and rule checks and macros do not nest (rcsSynConvertor::execute,
\* parseRuleCheck).
NodesTypeOK ==
  /\ iter \in 1..(Len(stream) + 1)
  /\ begin \in 1..iter
  /\ \/ rule = NoRule
     \/ rule \in Node /\ rule.kind \in {"rulecheck", "proc"}
  /\ nodes \in Seq(Node)
  /\ DOMAIN tmpLayers \subseteq (Numbered + 1)..nTmpNo
  /\ \A k \in DOMAIN tmpLayers : tmpLayers[k] \in Node
  /\ status \in {"parsing", "done", "exited", "undefined"}
  /\ nodeError \in {"none", "SYN1"}

-----------------------------------------------------------------------------
Leaf(kind, head, tokens) ==
  [kind |-> kind, head |-> head, tokens |-> tokens, children |-> <<>>]

\* The tokens of a node, from position i up to j; comments make no part of an
\* operation or a specification.
Tokens(i, j) == SubSeq(stream, i, j - 1)
TokensInside(i, j) ==
  LET all == Tokens(i, j)
      inside[n \in 0..Len(all)] ==
        IF n = 0 THEN <<>>
        ELSE IF all[n].type = "COMMENT" THEN inside[n - 1]
        ELSE Append(inside[n - 1], all[n])
  IN  inside[Len(all)]

AtNode(types) ==
  /\ phase = "layered" /\ status = "parsing"
  /\ iter <= Len(stream)
  /\ stream[iter].type \in types

InRoot == rule = NoRule
InRule == rule # NoRule
InMacro == rule.kind = "proc"

\* Mutant: an operation without a name begins with its keyword.
EndsAtKeyword(k) ==
  LET j == First(k + 1, OperationTypes \cup SpecTypes \cup PreTypes
                        \cup {"DMACRO", "EQUAL", "OPEN", "CLOSE"})
  IN  IF j \in DOMAIN stream /\ stream[j].type \in {"EQUAL", "OPEN"}
      THEN j - 1 ELSE j

\* Where the statement with its keyword at position k has to end: before the
\* name of the next one, or before its line if it has no name.
NextStatement(k) ==
  LET j == First(k + 1, OperationTypes \cup SpecTypes \cup PreTypes
                        \cup {"DMACRO", "EQUAL", "OPEN", "CLOSE"})
  IN  IF j \notin DOMAIN stream THEN j
      ELSE IF stream[j].type \in {"EQUAL", "OPEN"} THEN j - 1
      ELSE IF stream[j].type = "OPERATION" /\ stream[j].line # stream[k].line
      THEN CHOOSE i \in (k + 1)..j :
             /\ stream[i].line = stream[j].line
             /\ \A h \in (k + 1)..(i - 1) : stream[h].line # stream[j].line
      ELSE j

\* parseLayerOperation() and parseSpecification(): comments in front of the
\* next statement are left for it.
StatementEnd(k) ==
  CHOOSE e \in k..NextStatement(k) :
    /\ e = k \/ stream[e - 1].type # "COMMENT"
    /\ \A i \in e..(NextStatement(k) - 1) : stream[i].type = "COMMENT"

MoveTo(i) ==
  /\ iter' = i
  /\ begin' = i
  /\ UNCHANGED <<layerVars, status, nodeError>>

\* Tokens in front of a node of the root go into a node of their own.
Pending(i) ==
  IF begin = i THEN <<>> ELSE <<Leaf("unknown", <<>>, Tokens(begin, i))>>

AddToRoot(node, from) == nodes' = nodes \o Pending(from) \o <<node>>
AddToRule(node) == rule' = [rule EXCEPT !.children = Append(@, node)]

Add(node) ==
  IF InRoot THEN nodes' = Append(nodes, node) /\ UNCHANGED rule
            ELSE AddToRule(node) /\ UNCHANGED nodes

\* Memory outside of the list is read, or copied into a node.
NodesUndefined ==
  /\ status' = "undefined"
  /\ UNCHANGED <<layerVars, iter, begin, rule, nodes, tmpLayers, nodeError>>

Unrecognized ==
  /\ status' = "exited"
  /\ nodeError' = "SYN1"
  /\ UNCHANGED <<layerVars, iter, begin, rule, nodes, tmpLayers>>

-----------------------------------------------------------------------------
(***************************************************************************)
(* Operations and specifications.                                          *)
(***************************************************************************)
\* The i-th token is a sign, which the lexical parser has cut off its number.
Signed(list, i) ==
  i < Len(list) /\ list[i].type = "SIGN" /\ list[i + 1].type = "NUMBER"

\* _cmacro_advance: where n arguments from the third token of a call on end. A
\* sign at the first argument does not count.
ArgumentsEnd(call, n) ==
  LET Enough(k) ==
        \/ k = Len(call) + 1
        \/ k - 3 = n + Cardinality({i \in 4..k : Signed(call, i)})
  IN  CHOOSE e \in 3..(Len(call) + 1) :
        Enough(e) /\ \A k \in 3..(e - 1) : ~Enough(k)

\* The tokens of an operation that are its own: a call of a macro that was kept
\* ends at its last argument, if there is a node for what is behind it.
OwnLength(list) ==
  IF /\ stream[iter].type = "CMACRO" /\ Len(list) >= 2
     /\ list[2].name \in DOMAIN ParaSizes
     /\ Len(list) > ParaSizes[list[2].name] + 2
     /\ nodes # <<>>
  THEN ArgumentsEnd(list, ParaSizes[list[2].name]) - 1
  ELSE Len(list)

\* What is behind the last argument of a call is added to the node before.
OperationInRoot ==
  /\ InRoot /\ AtNode(OperationTypes)
  /\ LET last == StatementEnd(iter)
         list == TokensInside(begin, last)
         own  == SubSeq(list, 1, OwnLength(list))
         rest == SubSeq(list, OwnLength(list) + 1, Len(list))
         node == Leaf("operation", <<>>, own)
     IN  /\ nodes' = IF rest = <<>> THEN Append(nodes, node)
                     ELSE Append([nodes EXCEPT ![Len(nodes)].tokens =
                                    @ \o rest], node)
         /\ MoveTo(last)
  /\ UNCHANGED <<rule, tmpLayers>>

OperationInRule ==
  /\ InRule /\ AtNode(OperationTypes)
  /\ LET last == StatementEnd(iter)
     IN  /\ AddToRule(Leaf("operation", <<>>, TokensInside(begin, last)))
         /\ MoveTo(last)
  /\ UNCHANGED <<nodes, tmpLayers>>

SpecificationInRule ==
  /\ InRule /\ AtNode(SpecTypes)
  /\ LET last == StatementEnd(iter)
     IN  /\ AddToRule(Leaf("specification", <<>>, TokensInside(begin, last)))
         /\ MoveTo(last)
  /\ UNCHANGED <<nodes, tmpLayers>>

\* A comment and a part in another language behind LVS REDUCE SPLIT GATES.
SplitPart(i) == i < Len(stream) /\ stream[i].type = "COMMENT"
                                /\ stream[i + 1].type = "BUILTIN"

\* The token behind the statement, or the one behind its comment, is end().
SplitReadsEnd(i) == \/ i = Len(stream) + 1
                    \/ i = Len(stream) /\ stream[i].type = "COMMENT"

SpecificationInRoot ==
  /\ InRoot /\ AtNode(SpecTypes)
  /\ LET last == StatementEnd(iter)
     IN  /\ stream[iter].type = "SPLIT" =>
              ~SplitPart(last) /\ ~SplitReadsEnd(last)
         /\ AddToRoot(Leaf("specification", <<>>, TokensInside(iter, last)),
                      iter)
         /\ MoveTo(last)
  /\ UNCHANGED <<rule, tmpLayers>>

\* The arguments of insertTokens(iBLBegin, ++iBLBegin) may be evaluated in
\* either order: the part may or may not be in the node.
SplitGates ==
  /\ InRoot /\ AtNode({"SPLIT"})
  /\ LET last == StatementEnd(iter)
     IN  /\ SplitPart(last)
         /\ \E part \in {<<>>, <<stream[last + 1]>>} :
              AddToRoot(Leaf("specification", <<>>,
                             TokensInside(iter, last) \o part), iter)
         /\ MoveTo(last + 2)
  /\ UNCHANGED <<rule, tmpLayers>>

\* What is behind the end of the list is looked at.
SplitAtEnd ==
  /\ InRoot /\ AtNode({"SPLIT"})
  /\ SplitReadsEnd(StatementEnd(iter))
  /\ NodesUndefined

-----------------------------------------------------------------------------
(***************************************************************************)
(* Layer definitions.                                                      *)
(***************************************************************************)
\* parseLayerDefinition(): the keyword of the definition, or where there
\* cannot be one any more.
DefinitionStop ==
  First(iter + 1, OperationTypes \cup SpecTypes \cup PreTypes
                  \cup {"EQUAL", "OPEN", "CLOSE"})

HasOperation ==
  DefinitionStop \in DOMAIN stream /\ stream[DefinitionStop].type \in OperationTypes

StopBefore ==
  IF /\ DefinitionStop \in DOMAIN stream
     /\ stream[DefinitionStop].type \in {"EQUAL", "OPEN"}
  THEN DefinitionStop - 1 ELSE DefinitionStop

\* The name is taken to be the token before the "=".
NamePending == begin = iter - 1

\* Mutant: every definition is kept.
EveryLayer(name, node) ==
  tmpLayers' = [k \in DOMAIN tmpLayers \cup {name} |->
                  IF k = name THEN node ELSE tmpLayers[k]]

SetTmpLayer(name, node) ==
  tmpLayers' = IF name \in (Numbered + 1)..nTmpNo
               THEN [k \in DOMAIN tmpLayers \cup {name} |->
                       IF k = name THEN node ELSE tmpLayers[k]]
               ELSE tmpLayers

LayerDefinition ==
  /\ AtNode({"EQUAL"}) /\ HasOperation
  /\ begin <= iter - 1 /\ (InRule => NamePending)
  /\ LET name == stream[iter - 1]
         last == StatementEnd(DefinitionStop)
         node == Leaf("definition", <<name>>, TokensInside(iter + 1, last))
     IN  /\ IF InRoot THEN AddToRoot(node, iter - 1) /\ UNCHANGED rule
                      ELSE AddToRule(node) /\ UNCHANGED nodes
         /\ SetTmpLayer(name.name, node)
         /\ MoveTo(last)

\* Nothing but the next statement behind the "=": there is no node for it.
DropDefinition ==
  /\ AtNode({"EQUAL"}) /\ ~HasOperation /\ StopBefore = iter + 1
  /\ begin <= iter - 1 /\ (InRule => NamePending)
  /\ nodes' = IF InRoot THEN nodes \o Pending(iter - 1) ELSE nodes
  /\ MoveTo(iter + 1)
  /\ UNCHANGED <<rule, tmpLayers>>

RejectDefinition ==
  /\ AtNode({"EQUAL"})
  /\ \/ InRule /\ ~NamePending
     \/ begin <= iter - 1 /\ ~HasOperation /\ StopBefore # iter + 1
  /\ Unrecognized

\* Outside of a rule check, a comment between the name and the "=" or "{" is
\* taken for the end of the tokens that begin after it.
NameBeforeComment ==
  /\ InRoot /\ AtNode({"EQUAL", "OPEN"})
  /\ begin > iter - 1
  /\ NodesUndefined

-----------------------------------------------------------------------------
(***************************************************************************)
(* Rule checks and macros.                                                 *)
(***************************************************************************)
Enter(kind, head, brace) ==
  /\ rule' = [kind |-> kind, head |-> head, tokens |-> <<>>,
              children |-> <<>>]
  /\ MoveTo(brace + 1)
  /\ UNCHANGED tmpLayers

RuleCheck ==
  /\ InRoot /\ AtNode({"OPEN"})
  /\ begin <= iter - 1
  /\ nodes' = nodes \o Pending(iter - 1)
  /\ Enter("rulecheck", <<stream[iter - 1]>>, iter)

Proc ==
  /\ InRoot /\ AtNode({"DMACRO"})
  /\ LET brace == First(iter, {"OPEN"})
     IN  /\ brace \in DOMAIN stream
         /\ nodes' = nodes \o Pending(iter)
         /\ Enter("proc", Tokens(iter, brace), brace)

ProcWithoutBrace ==
  /\ InRoot /\ AtNode({"DMACRO"})
  /\ First(iter, {"OPEN"}) \notin DOMAIN stream
  /\ NodesUndefined

EndRule ==
  /\ InRule /\ AtNode({"CLOSE"}) /\ begin = iter
  /\ nodes' = Append(nodes, rule)
  /\ rule' = NoRule
  /\ MoveTo(iter + 1)
  /\ UNCHANGED tmpLayers

RejectRule ==
  /\ InRule /\ AtNode({"CLOSE"}) /\ begin # iter
  /\ Unrecognized

\* < name > in a macro.
Auxiliary ==
  /\ iter + 2 <= Len(stream)
  /\ stream[iter].type = "LESS"
  /\ stream[iter + 1].type = "NAME"
  /\ stream[iter + 2].type = "GREATER"

DeviceAuxiliaryLayer ==
  /\ InRule /\ InMacro /\ AtNode({"LESS"}) /\ Auxiliary
  /\ AddToRule(Leaf("dummy", <<>>, Tokens(iter, iter + 3)))
  /\ MoveTo(iter + 3)
  /\ UNCHANGED <<nodes, tmpLayers>>

-----------------------------------------------------------------------------
(***************************************************************************)
(* Nodes of one token, and the tokens in between.                          *)
(***************************************************************************)
NodeKind(type) == CASE type \in PreTypes  -> "preprocess"
                    [] type = "COMMENT" -> "comment"
                    [] type = "BUILTIN" -> "buildin"

\* Tokens before a comment, or in a rule check before anything of these, are
\* in no node.
Single ==
  /\ AtNode({"COMMENT", "BUILTIN"} \cup (IF InRule THEN PreTypes ELSE {}))
  /\ (InRule /\ stream[iter].type = "BUILTIN") => InMacro
  /\ Add(Leaf(NodeKind(stream[iter].type), <<>>, Tokens(iter, iter + 1)))
  /\ MoveTo(iter + 1)
  /\ UNCHANGED tmpLayers

\* An INCLUDE has its file with it.
IncludeSize ==
  IF stream[iter].type = "INCLUDE" /\ stream[iter + 1].type = "STRING"
  THEN 2 ELSE 1

PreProcess ==
  /\ InRoot /\ AtNode(PreTypes)
  /\ stream[iter].type = "INCLUDE" => iter < Len(stream)
  /\ AddToRoot(Leaf("preprocess", <<>>, Tokens(iter, iter + IncludeSize)), iter)
  /\ MoveTo(iter + IncludeSize)
  /\ UNCHANGED <<rule, tmpLayers>>

IncludeAtEnd ==
  /\ InRoot /\ AtNode({"INCLUDE"}) /\ iter = Len(stream)
  /\ NodesUndefined

NextToken ==
  /\ AtNode({"NAME", "STRING", "LPAREN", "RPAREN", "LESS", "GREATER", "SIGN",
             "NUMBER", "OTHER"}
            \cup (IF InRoot THEN {"CLOSE"} ELSE {"OPEN", "DMACRO"})
            \cup (IF InRule /\ ~InMacro THEN {"BUILTIN"} ELSE {}))
  /\ ~(InRule /\ InMacro /\ Auxiliary)
  /\ iter' = iter + 1
  /\ UNCHANGED <<layerVars, begin, rule, nodes, tmpLayers, status, nodeError>>

\* A rule check without its brace ends here, too: Utassert(false) does nothing.
Finish ==
  /\ phase = "layered" /\ status = "parsing" /\ iter = Len(stream) + 1
  /\ nodes' = IF InRoot THEN nodes \o Pending(iter) ELSE Append(nodes, rule)
  /\ status' = "done"
  /\ UNCHANGED <<layerVars, iter, begin, rule, tmpLayers, nodeError>>

NodesNext ==
  \/ OperationInRoot \/ OperationInRule
  \/ SpecificationInRule \/ SpecificationInRoot \/ SplitGates \/ SplitAtEnd
  \/ LayerDefinition \/ DropDefinition \/ RejectDefinition \/ NameBeforeComment
  \/ RuleCheck \/ Proc \/ ProcWithoutBrace \/ EndRule \/ RejectRule
  \/ DeviceAuxiliaryLayer
  \/ Single \/ PreProcess \/ IncludeAtEnd \/ NextToken
  \/ Finish

-----------------------------------------------------------------------------
Init ==
  /\ LayersInit
  /\ iter = 1
  /\ begin = 1
  /\ rule = NoRule
  /\ nodes = <<>>
  /\ tmpLayers = <<>>
  /\ status = "parsing"
  /\ nodeError = "none"

\* The pass begins at the beginning of the list that the one before left.
Next ==
  \/ LayersNext /\ UNCHANGED nodeVars
  \/ NodesNext

Spec == Init /\ [][Next]_vars /\ WF_vars(Next)
=============================================================================
