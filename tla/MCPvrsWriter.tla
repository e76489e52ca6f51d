----------------------------- MODULE MCPvrsWriter -----------------------------
(***************************************************************************)
(* Small trees for model checking the writer of PVRS.                      *)
(***************************************************************************)
EXTENDS PvrsWriterProperties

MCConflictNames == {"BY", "STEP", "SPACE", "DIRECT", "MASK", "SQUARE", "WITH"}
MCFuncNames     == {"MAX"}

T(type, name) == [type |-> type, name |-> name, path |-> <<>>, scopes |-> <<>>]
N(name)  == T("NAME", name)
K(key)   == T("KEY", key)
Nr(n)    == T("NUMBER", n)
O(sign)  == T("OPERATOR", sign)
S(sign)  == T("SEPARATOR", sign)
In(scopes, name) == [N(name) EXCEPT !.scopes = scopes]
Op == T("OPERATION", "OPERATION")

Tree(list, tmp, keepTmp) ==
  [nodes |-> list, tmpLayers |-> tmp, keepTmp |-> keepTmp, correct |-> FALSE]
Correct(trees) == {[t EXCEPT !.correct = TRUE] : t \in trees}

Of(kind, head, operation, tokens) ==
  [kind |-> kind, head |-> head, operation |-> operation, tokens |-> tokens]
Statement1(operation, tokens) == Of("operation", N(""), operation, tokens)
Define(head, operation, tokens) == Of("definition", head, operation, tokens)
Just(kind) == Of(kind, N("r"), "COPY", <<>>)

-----------------------------------------------------------------------------
(***************************************************************************)
(* Operations of every kind.                                               *)
(***************************************************************************)
\* One operation for each function.
Operations ==
  {"AND", "XOR", "OR_EDGE", "INSIDE", "INTERACT", "INSIDE_EDGE", "AREA",
   "LENGTH", "WITH_WIDTH", "COPY", "HOLES", "RECTANGLE", "EXTENTS", "EXTENT",
   "SIZE", "EXPAND_EDGE", "FLATTEN", "MERGE", "ORNET", "PUSH", "STAMP",
   "WITH_NEIGHBOR", "WITH_EDGE", "WITH_TEXT", "ATTACH", "CONNECT",
   "SCONNECT", "CMACRO", "LABEL_ORDER", "NET_AREA", "DFM_STAMP", "EXTENT_CELL",
   "EXPAND_TEXT", "SNAP", "DEANGLE", "DFM_OR_EDGE", "SIZE_XY", "NET",
   "INSIDE_CELL", "ENCLOSE_RECTANGLE", "GROW", "SHRINK", "SHIFT"}

Expressions ==
  {<<Nr("1"), O("+"), Nr("2"), O("*"), Nr("3")>>,
   <<S("("), Nr("1"), O("-"), N("v"), S(")"), O("/"), Nr("2")>>,
   <<K("MAX"), S("("), Nr("1"), S(","), S("("), Nr("2"), S(")"), S(")")>>}
Numbers == Expressions \cup {<<Nr("1")>>, <<O("-"), Nr("1")>>}

\* convEdgeAngledToRegularCmd() does not know parentheses.
Unparenthesized == {n \in Numbers : n[1].type # "SEPARATOR"}

\* convGeomTransformCmd() puts a sign in front of a whole expression.
NumbersOf(op) == IF op = "SHRINK" THEN {<<Nr("1")>>} ELSE Numbers

LimitsOf(n) ==
  {<<O("<")>> \o n, <<O(">")>> \o n \o <<O("<=")>> \o <<Nr("2")>>}

Own    == {<<N("a")>>, <<T("STRING", "b c")>>}
Layers1 == Own \cup {<<N("t")>>}
OperandsOf(op) == IF op = "SIZE_XY" THEN Own ELSE Layers1

\* An option with what has to follow.
WithOption(op, k) ==
  LET o == Commands[op].options[k]
      Second == {<<K(k), K(w)>> : w \in o.second}
  IN  CASE o.kind \in {"flag", "omit"} -> {<<K(k)>>}
        [] o.kind = "pair"   -> Second
        [] o.kind = "follow" -> {<<K(k)>>} \cup Second
        [] o.kind \in {"word", "name", "skip"} -> {<<K(k), N("w")>>}
        [] o.kind = "value" -> {<<K(k)>> \o n : n \in NumbersOf(op)}
        [] o.kind = "after" -> {s \o n : s \in Second, n \in NumbersOf(op)}
        [] o.kind = "two"   -> {<<K(k)>> \o n \o <<Nr("2")>> : n \in Numbers}
        [] o.kind = "limit" -> {<<K(k)>> \o c : c \in LimitsOf(<<Nr("1")>>)}
        [] o.kind = "layer" -> {<<K(k)>> \o l : l \in Layers1}
        [] o.kind = "again" -> {<<K(k)>> \o l : l \in Own}

OptionsOf(op) == UNION {WithOption(op, k) : k \in DOMAIN Commands[op].options}

RestOf(op) ==
  CASE Commands[op].rest \in {"checked", "echo", "ignored"} ->
         UNION {LimitsOf(n) : n \in Numbers}
    [] Commands[op].rest \in {"names", "raw", "blind"} -> {<<O("-"), Nr("1")>>, <<K("EVEN")>>}
    [] OTHER -> {}

\* The operands of the operations that count them.  A temporary layer is not
\* counted, so that the first number behind it is taken for a layer, and an
\* operator in front of the width of a rectangle is written twice.
Positional ==
  [NET         |-> {l \o <<N("n"), T("STRING", "o")>> : l \in Own},
   INSIDE_CELL |-> {l \o <<N("c"), K("EVEN")>> : l \in Own},
   EXTENT_CELL |-> {<<N("c"), T("STRING", "d")>>},
   EXPAND_TEXT |-> {<<N("w")>> \o l : l \in Layers1},
   SNAP        |-> {l \o n \o <<Nr("2")>> : l \in Own, n \in Numbers}
                     \cup {<<N("t"), Nr("1"), Nr("2")>>},
   DEANGLE     |-> {l \o n : l \in Own, n \in Unparenthesized} \cup {<<N("t"), Nr("1")>>},
   ENCLOSE_RECTANGLE |-> {l \o <<Nr("1")>> \o e : l \in Own, e \in Expressions}
                           \cup {<<N("t"), Nr("1"), Nr("2")>>}]

Phrases(op) == OperandsOf(op) \cup RestOf(op) \cup OptionsOf(op)

\* Operands and options that are correct together.
Bodies(op) ==
  IF op \in DOMAIN Positional
  THEN Positional[op] \cup {p \o o : p \in Positional[op], o \in OptionsOf(op)}
  ELSE {p \o q : p \in OperandsOf(op), q \in Phrases(op)}

Keyword(op) == IF op = "CMACRO" THEN <<T("CMACRO", op), N("p")>> ELSE <<Op>>

\* A statement whose layer "t" is temporary, or a temporary one that is used
\* by another statement.
T1 == Define(N("t"), "SIZE", <<Op, N("a"), K("BY"), Nr("1")>>)
T2 == Define(N("u"), "AND", <<N("t"), Op, N("b")>>)

Alone(op, tokens, keep) ==
  Tree(<<T1, Statement1(op, tokens)>>, "t" :> 1, keep)
Inside(op, tokens, keep) ==
  Tree(<<T1, Define(N("u"), op, tokens), Define(N("x"), "AND", <<N("u"), Op, N("b")>>)>>,
       "t" :> 1 @@ "u" :> 2, keep)

NotDirect(d) ==
  \A v \in DOMAIN d.nodes : ~HasOnlyDirectKeyword(d.nodes[v].tokens)

\* Pairs of an operation and one of its lists of operands.
ForEach(lists(_)) == UNION {{op} \X lists(op) : op \in Operations}

CorrectOperations ==
  {d \in {Alone(p[1], Keyword(p[1]) \o p[2], FALSE) : p \in ForEach(Bodies)}
           \cup {Inside(p[1], Keyword(p[1]) \o p[2], TRUE) : p \in ForEach(Bodies)} :
     NotDirect(d)}
  \cup {Alone("CONNECT", <<Op, K("MASK"), K("DIRECT"), N("a"), N("t"), K("BY"), N("t")>>, TRUE),
        Tree(<<Just("comment"), T1, T2, Just("rule"), Just("comment"),
               Define(N("x"), "OR", <<N("u"), Op, N("u")>>), Just("buildin"),
               Just("end"), Just("unknown"), Just("dummy")>>,
             "t" :> 1 @@ "u" :> 2, FALSE)}

-----------------------------------------------------------------------------
(***************************************************************************)
(* Layers of macros and of macros in macros.                               *)
(***************************************************************************)
ScopeLists == {<<>>, <<"m">>, <<"m", "n">>}
Copies ==
  {Define(In(s, "x"), "COPY", <<Op, In(t, name)>>) :
     s \in ScopeLists, t \in ScopeLists, name \in {"x", "y"}}
Uses == {Statement1("AND", <<In(s, "x"), Op, In(<<"k">>, "x")>>) : s \in ScopeLists}

TmpInMacro ==
  <<Define(In(<<"m">>, "x"), "COPY", <<Op, N("a")>>),
    Define(In(<<"m">>, "t"), "AND", <<In(<<"m", "n">>, "x"), Op, In(<<"m">>, "b")>>)>>

ScopedLists ==
  {Tree(l, <<>>, FALSE) :
     l \in {<<c, d, e>> : c \in Copies, d \in Copies, e \in Uses}}
  \cup {Tree(TmpInMacro \o <<Define(In(<<"m">>, name), "SIZE",
                            <<Op, In(<<"m">>, "t"), K("INSIDE_OF"), In(<<"m">>, "x")>>)>>,
              "t" :> 2, FALSE) : name \in {"x", "z"}}

\* A layer of a macro that is made of itself.
MadeOfItself(node) ==
  /\ node.kind = "definition"
  /\ node.head.scopes # <<>>
  /\ \E i \in DOMAIN node.tokens :
       /\ node.tokens[i].name = node.head.name
       /\ IsPrefix(node.head.scopes, node.tokens[i].scopes)

ScopedTrees ==
  {[d EXCEPT !.correct = \A v \in DOMAIN d.nodes : ~MadeOfItself(d.nodes[v])] :
     d \in ScopedLists}

-----------------------------------------------------------------------------
(***************************************************************************)
(* Any few operands, and trees that meet the rest of the steps.            *)
(***************************************************************************)
Alphabet ==
  {N("a"), N("t"), Nr("1"), O("<"), O("-"), O("+"), S("("), S(")"), K("EVEN"),
   K("BY")}
AnyOf(op) == Alphabet \cup {K(k) : k \in DOMAIN Commands[op].options}

UpTo(A, n) == UNION {[1..k -> A] : k \in 0..n}

OddOperations ==
  LET Odd(op) == UpTo(AnyOf(op), 2)
  IN  {Alone(p[1], p[2], FALSE) : p \in ForEach(Odd)}

InMacro(l) == [i \in DOMAIN l |-> [l[i] EXCEPT !.scopes = <<"m">>]]

OddTrees ==
  {Tree(<<Of("rule", K("BY"), "COPY", <<>>)>>, <<>>, FALSE),
   Tree(<<Define(K("BY"), "COPY", <<Op, N("a")>>)>>, <<>>, FALSE),
   Tree(<<Define(N("t"), "CONNECT", <<Op, K("DIRECT")>>),
          Statement1("COPY", <<N("t")>>)>>, "t" :> 1, FALSE),
   Tree(<<Define(N("t"), "CMACRO", <<T("CMACRO", "CMACRO")>>),
          Statement1("CMACRO", Keyword("CMACRO") \o <<N("t")>>)>>, "t" :> 1, TRUE),
   Tree(<<Define(N("t"), "CMACRO", <<T("CMACRO", "CMACRO"), K("BY")>>),
          Statement1("COPY", <<N("t")>>)>>, "t" :> 1, TRUE),
   Tree(<<T1, Just("dummy"), Define(In(<<"m">>, "x"), "COPY", <<Op, N("t")>>),
          Statement1("COPY", <<Op, In(<<"m">>, "x")>>)>>, "t" :> 1, TRUE)}
  \cup {Tree(<<Statement1(op, InMacro(<<K("BY"), K("BY")>>))>>, <<>>, FALSE) :
           op \in Operations}

MCDecks == Correct(CorrectOperations) \cup ScopedTrees \cup OddOperations \cup OddTrees
=============================================================================
