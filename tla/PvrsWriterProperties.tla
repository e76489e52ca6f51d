-------------------------- MODULE PvrsWriterProperties --------------------------
(***************************************************************************)
(* What the writer of PVRS has to get right.  Its text is compared with    *)
(* what a tree means when every token is looked at alone, without options, *)
(* expressions or a position, and every name is looked up in the tree.     *)
(***************************************************************************)
EXTENDS PvrsWriter

Word(is, path, name) == [is |-> is, path |-> path, name |-> name]
Plain(name) == Word("word", <<>>, name)

WordsOf(piece) ==
  CASE piece.is = "number" -> [i \in DOMAIN piece.text |-> Plain(piece.text[i])]
    [] piece.is \in {"text", "layer"} -> <<Word("word", piece.path, piece.name)>>
    [] OTHER -> <<Word(piece.is, piece.path, piece.name)>>

\* The scopes of a name in a macro's body: the innermost ones whose macro
\* has defined the name further up.
ScopesOf(t, v) ==
  LET outer == {k \in DOMAIN t.scopes : \E u \in 1..(v - 1) :
                  /\ deck.nodes[u].kind = "definition"
                  /\ deck.nodes[u].head.name = t.name
                  /\ deck.nodes[u].head.scopes = SubSeq(t.scopes, 1, k)}
  IN  IF outer = {} THEN <<>> ELSE SubSeq(t.scopes, 1, Max(outer))

OptionKind(node, i) ==
  IF i \in DOMAIN node.tokens /\ node.tokens[i].type = "KEY"
       /\ node.tokens[i].name \in DOMAIN Commands[node.operation].options
  THEN Commands[node.operation].options[node.tokens[i].name].kind
  ELSE "none"

\* Options that PVRS does not have.
Omitted(node, i) ==
  \/ node.tokens[i].type \in {"OPERATION", "CMACRO"}
  \/ OptionKind(node, i) = "omit" /\ OptionKind(node, i - 1) # "follow"
  \/ "skip" \in {OptionKind(node, i), OptionKind(node, i - 1)}
  \/ OptionKind(node, i - 1) = "after"

\* PVRS has only operations that let a layer grow.
Shrinks(node, i) ==
  node.operation = "SHRINK" /\ i > 1 /\ Is(node.tokens, i - 1, "KEY", {"BY"})

\* What the operation of each node means: a temporary name means what it was
\* defined to be.
Operation ==
  LET f[v \in DOMAIN deck.nodes] ==
        LET node == deck.nodes[v]
            Meaning(i) ==
              LET t == node.tokens[i]
              IN  IF Omitted(node, i) THEN <<>>
                  ELSE IF IsTmpLayer(t) THEN f[deck.tmpLayers[t.name]]
                  ELSE (IF Shrinks(node, i) THEN <<Plain("-")>> ELSE <<>>)
                         \o <<Word("word", ScopesOf(t, v), t.name)>>
        IN  <<Word("open", <<>>, node.operation)>>
              \o FlattenSeq([i \in DOMAIN node.tokens |-> Meaning(i)])
              \o <<Word("close", <<>>, "")>>
  IN  f

Statement(v) ==
  LET node == deck.nodes[v]
  IN  CASE node.kind = "definition" ->
             IF IsTmpLayer(node.head) THEN <<>>
             ELSE <<Word("define", node.head.scopes, node.head.name)>> \o Operation[v]
        [] node.kind = "operation" -> Operation[v]
        [] node.kind = "rule" -> <<Plain("rule"), Plain(node.head.name)>>
        [] OTHER -> <<Plain(node.kind)>>

-----------------------------------------------------------------------------
\* The text of a correct tree is its statements in their order, every
\* operation in parentheses stands where it stood in the rule deck, however
\* deep, no option and no operand is lost, and a name in the body of a macro
\* has the scope of the layer that it means (rcsSynPvrsConvertor).
WrittenAsMeant ==
  status = "done" /\ deck.correct =>
    FlattenSeq([i \in DOMAIN out |-> WordsOf(out[i])])
      = FlattenSeq([v \in DOMAIN deck.nodes |-> Statement(v)])

\* No correct tree makes the writer report an error, read past the end of a
\* list, or go round without end.
CorrectAccepted == deck.correct => status \in {"writing", "done"}

\* PVRS reads layers in their order.  A layer of a macro is never written
\* before it has been defined under the same name, also in trees that use
\* names before their definitions or in other macros (getRealLayerName).
DefinedBefore ==
  ~deck.keepTmp =>
    \A j \in DOMAIN out : out[j].is = "layer" /\ out[j].path # <<>> =>
      \E i \in 1..j : /\ out[i].is = "define"
                      /\ out[i].path = out[j].path
                      /\ out[i].name = out[j].name

\* Every tree is written to its end or given up; a loop that goes round
\* without end is a state of its own ("endless").
Termination == <>(status # "writing")
=============================================================================
