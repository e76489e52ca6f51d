--------------------------- MODULE SyntaxProperties ---------------------------
(***************************************************************************)
(* Properties of the three passes of the syntax convertor.  The reference  *)
(* for the nodes is the deck itself, read line by line: in a deck of       *)
(* regular form every line is a statement, or goes on with the one before  *)
(* if there are only operands on it; a comment behind a statement is a     *)
(* statement, too.                                                         *)
(***************************************************************************)
EXTENDS SyntaxNodes

CONSTANT
  Regular     \* decks of correct statements, each on lines of its own

ASSUME RegularAssumption == Regular \subseteq Decks

-----------------------------------------------------------------------------
OperandTypes == {"NAME", "NUMBER", "SIGN", "STRING", "LPAREN", "RPAREN"}

\* The i-th token of the deck is the first of a statement.
Begins(i) ==
  LET line == {j \in DOMAIN deck : deck[j].line = deck[i].line}
  IN  \/ /\ \A j \in line : i <= j
         /\ \E j \in line : deck[j].type \notin OperandTypes
      \/ \A j \in line : j >= i => deck[j].type = "COMMENT"

Bare(tokens) ==
  [i \in DOMAIN tokens |-> [type |-> tokens[i].type, name |-> tokens[i].name]]

Uncommented(tokens) == SelectSeq(tokens, LAMBDA t : t.type # "COMMENT")

Statement(i) ==
  LET rest == {j \in (i + 1)..Len(deck) : Begins(j)}
      size == Cardinality({j \in (i + 1)..Len(deck) :
                             \A k \in rest : j < k})
      all  == SubSeq(deck, i, i + size)
  IN  Bare(IF deck[i].type = "COMMENT" THEN all ELSE Uncommented(all))

Statements ==
  LET from == [i \in DOMAIN deck |->
                 IF Begins(i) THEN <<Statement(i)>> ELSE <<>>]
  IN  FlattenSeq(from)

Second(s, type) == Len(s) > 1 /\ s[2].type = type

Kind(s) ==
  CASE s[1].type = "COMMENT"    -> "comment"
    [] s[1].type = "BUILTIN"    -> "buildin"
    [] s[1].type = "LESS"       -> "dummy"
    [] s[1].type = "DMACRO"     -> "proc"
    [] s[1].type = "CLOSE"      -> "end"
    [] s[1].type \in SpecTypes  -> "specification"
    [] s[1].type \in PreTypes   -> "preprocess"
    [] Second(s, "EQUAL")       -> "definition"
    [] Second(s, "OPEN")        -> "rulecheck"
    [] OTHER                    -> "operation"

\* What a node says: its kind, the head of the rule check or macro that it is
\* in, the name it defines and its tokens.
Item(kind, within, head, tokens) ==
  [kind |-> kind, within |-> within, head |-> head, tokens |-> tokens]

HeadOf(s) ==
  CASE Kind(s) = "proc"                        -> Front(s)
    [] Kind(s) \in {"rulecheck", "definition"} -> <<s[1]>>
    [] OTHER                                   -> <<>>

BodyOf(s) ==
  CASE Kind(s) = "definition"          -> SubSeq(s, 3, Len(s))
    [] Kind(s) \in {"rulecheck", "proc"} -> <<>>
    [] OTHER                           -> s

\* The head of the rule check or macro around the i-th statement.
Around(i) ==
  LET braces == {j \in 1..(i - 1) :
                   Kind(Statements[j]) \in {"rulecheck", "proc", "end"}}
      last   == Statements[CHOOSE j \in braces : \A k \in braces : k <= j]
  IN  IF braces = {} \/ Kind(last) = "end" THEN <<>> ELSE HeadOf(last)

Meant ==
  LET list == Statements
      item == [i \in DOMAIN list |->
                 IF Kind(list[i]) = "end" THEN <<>>
                 ELSE <<Item(Kind(list[i]), Around(i), HeadOf(list[i]),
                             BodyOf(list[i]))>>]
  IN  FlattenSeq(item)

-----------------------------------------------------------------------------
(***************************************************************************)
(* The nodes with every temporary name replaced by its definition in       *)
(* parentheses.                                                            *)
(***************************************************************************)
Temporary(name) == name \in (Numbered + 1)..nTmpNo

Parenthesised(tokens) ==
  <<[type |-> "LPAREN", name |-> NoName]>> \o tokens
  \o <<[type |-> "RPAREN", name |-> NoName]>>

Unnamed(tokens, k) ==
  FlattenSeq([i \in DOMAIN tokens |->
    IF tokens[i].name = k THEN Parenthesised(Bare(tmpLayers[k].tokens))
                          ELSE <<tokens[i]>>])

\* A definition holds smaller temporary names only.
Expanded(tokens) ==
  FoldLeft(Unnamed, Bare(tokens),
           [i \in 1..(nTmpNo - Numbered) |-> nTmpNo + 1 - i])

ItemsOf(list, within) ==
  FlattenSeq([i \in DOMAIN list |->
    IF list[i].kind = "definition" /\ Temporary(list[i].head[1].name) THEN <<>>
    ELSE <<Item(list[i].kind, within, Bare(list[i].head),
                Expanded(list[i].tokens))>>])

Written ==
  FlattenSeq([i \in DOMAIN nodes |->
    ItemsOf(<<nodes[i]>>, <<>>)
    \o ItemsOf(nodes[i].children, Bare(nodes[i].head))])

\* The convertor gives one node for every statement of a deck, in its order,
\* in its rule check or macro and with all of its tokens: no operand goes to
\* the statement before or behind, or is lost, however the operations in
\* parentheses were named and moved (rcsSynConvertor::execute and all that it
\* calls).
OneNodePerStatement ==
  status = "done" /\ deck \in Regular =>
    /\ DOMAIN tmpLayers = (Numbered + 1)..nTmpNo
    /\ Written = Meant

\* A deck of correct statements is not rejected, and nothing outside of the
\* list of tokens is read for it.
RegularAccepted ==
  phase \in {"exited", "undefined"} \/ status \in {"exited", "undefined"} =>
    deck \notin Regular

-----------------------------------------------------------------------------
\* How many conditionals are open in front of position i of the list.
Nesting(i) ==
  Cardinality({j \in 1..(i - 1) : stream[j].type = "IFDEF"})
  - Cardinality({j \in 1..(i - 1) : stream[j].type = "ENDIF"})

\* The directives that select position i: those whose branch is still open.
Branch(i) ==
  {j \in 1..(i - 1) :
     /\ stream[j].type \in {"IFDEF", "ELSE"}
     /\ \A k \in (j + 1)..(i - 1) :
          stream[k].type \in {"ELSE", "ENDIF"} => Nesting(k) > Nesting(j + 1)}

\* The rule check or macro that position i is in, 0 if in none.
RuleAt(i) ==
  LET braces == {j \in 1..(i - 1) : stream[j].type \in {"OPEN", "CLOSE"}}
      last   == CHOOSE j \in braces : \A k \in braces : k <= j
  IN  IF braces = {} \/ stream[last].type = "CLOSE" THEN 0 ELSE last

Defines(i) ==
  /\ i < Len(stream) /\ stream[i + 1].type = "EQUAL"
  /\ Temporary(stream[i].name)

\* The definition of a temporary layer is in the same branches of conditionals
\* and in the same rule check as the operation that uses it: it is there
\* whenever it is needed (recognizeImplicitLayerDefinitions, which
\* chooses the place long before the parentheses are met).
SameBranch ==
  status = "done" /\ deck \in Regular =>
    \A i, j \in DOMAIN stream :
      /\ Defines(i) /\ ~Defines(j) /\ stream[j].name = stream[i].name
      => Branch(i) = Branch(j) /\ RuleAt(i) = RuleAt(j)

\* No two operations get the same temporary name, and a name stands for one
\* place of use: nested, in sequence or cut off by an error, in any list of
\* tokens (parseImplicitLayerDefinition, which draws the number after the calls
\* inside of it have drawn theirs).
DefinedOnce ==
  \A k \in (Numbered + 1)..nTmpNo :
    /\ Cardinality({i \in DOMAIN stream :
                      Defines(i) /\ stream[i].name = k}) <= 1
    /\ Cardinality({i \in DOMAIN stream :
                      ~Defines(i) /\ stream[i].name = k}) <= 1

\* Every node takes the third pass on.  It steps back in front of a name when
\* it meets the "=" behind it, and yet stays behind the keyword where it began:
\* only because the first pass has rejected an "=" without a name
\* (parseLayerOperation, checkDefinedNameValid).
Forward ==
  [][nodes' # nodes \/ rule' # rule => iter' > iter \/ status' = "done"]_vars

\* Whatever the list of tokens, the passes come to an end.
Ended ==
  \/ phase \in {"exited", "undefined"}
  \/ status \in {"done", "exited", "undefined"}
Termination == <>Ended
=============================================================================
