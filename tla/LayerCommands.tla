---------------------------- MODULE LayerCommands ----------------------------
(***************************************************************************)
(* How each layer operation reads its operands: one definition for each of *)
(* the functions conv...Cmd() of rcsSynPvrsConvertor.cpp.  All of them go  *)
(* over the tokens in the same way, and PvrsWriter has that loop.  They    *)
(* differ in the options they know and in what they do with the rest.      *)
(*                                                                         *)
(* The keyword that PVRS has for an operation or an option is a matter of  *)
(* wording: here it is the keyword of SVRF.                                *)
(***************************************************************************)
EXTENDS SequencesExt

\* flag    the keyword alone
\* omit    a keyword that is left out
\* pair    a keyword that needs one of `second' behind it
\* follow  a keyword that may have one of `second' behind it
\* skip    a keyword that is left out with the token behind it
\* word    the next token is written as it is
\* name    the next token has to be a name
\* value   a number, or an expression
\* after   a number behind the keyword and one of `second', or a layer of the
\*         keyword's name
\* two     two numbers
\* limit   a constraint
\* layer   a layer
\* again   a layer, which is read as an operand again if it is temporary
\* `otherwise' is what happens when that is not there: "drop" the option,
\* "keep" its keyword, "reject" the operation, take what is there for an
\* "operand", look at the same token "again", or go on in the code of the
\* option with that name.
Option(kind, second, otherwise) ==
  [kind |-> kind, second |-> second, otherwise |-> otherwise]

Each(keys, option) == [k \in keys |-> option]

Flags(keys)             == Each(keys, Option("flag", {}, "reject"))
Omit(keys)              == Each(keys, Option("omit", {}, "reject"))
Pairs(keys, second)     == Each(keys, Option("pair", second, "reject"))
Words(keys)             == Each(keys, Option("word", {}, "reject"))
Values(keys, otherwise) == Each(keys, Option("value", {}, otherwise))
Follow(keys, second)    == Each(keys, Option("follow", second, "keep"))
Skip(keys)              == Each(keys, Option("skip", {}, "reject"))
Names(keys)             == Each(keys, Option("name", {}, "reject"))
After(keys, second)     == Each(keys, Option("after", second, "drop"))
Two(keys)               == Each(keys, Option("two", {}, "drop"))
Again(keys)             == Each(keys, Option("again", {}, "keep"))
Limits(keys, otherwise) == Each(keys, Option("limit", {}, otherwise))
Layers(keys, otherwise) == Each(keys, Option("layer", {}, otherwise))

\* Functions with different domains, as one.
Together(parts) ==
  LET PartOf(k) == CHOOSE f \in parts : k \in DOMAIN f
  IN  [k \in UNION {DOMAIN f : f \in parts} |-> PartOf(k)[k]]

\* `rest' tells what is done with an operator or a separator that is no
\* operand:
\*   reject   it is an error
\*   skip     so it is, but what is no number is left out
\*   checked  it begins a constraint, or it is an error
\*   echo     it begins a constraint, or is written as it is
\*   ignored  it begins a constraint, or is looked at again
\*   again    it is looked at again
\*   twice    it is looked at again, but has been written before
\*   names    all tokens are written, if no name is a keyword of SVRF
\*   raw      all tokens are written as they are
\*   blind    they are written even if they are temporary layers
\* `operands' tells which operands may come, from the step "first" on, and the
\* step that they lead to.  Temporary layers are written at each step, and no
\* step takes notice of them.
Ordered(options, operands, rest) ==
  [options |-> Together(options), operands |-> operands, rest |-> rest]

Command(options, rest) ==
  Ordered(options, [first |-> [layer |-> "first"]], rest)

Nothing == [k \in {} |-> "first"]

-----------------------------------------------------------------------------
GeomBoolean(op) ==
  Command({Flags(IF op = "AND" THEN {"CONNECTED", "NOT_CONNECTED"} ELSE {})},
          "checked")

EdgeMerge == Command({}, "reject")

GeomTopo(op) ==
  Command({Flags({"BY_NET", "EVEN", "ODD"} \cup
                 IF op \in {"INTERACT", "NOT_INTERACT"}
                 THEN {"SINGULAR_ONLY", "SINGULAR_ALSO"} ELSE {})},
          "echo")

Attach == Command({Omit({"MASK", "DIRECT"})}, "reject")

Connect ==
  Command({Omit({"MASK", "DIRECT"}), Layers({"BY", "WITH"}, "reject")}, "reject")

Sconnect ==
  Command({Omit({"MASK", "DIRECT"}), Layers({"BY"}, "reject"), Words({"LINK"}),
           Flags({"ABUT_ALSO"})},
          "reject")

GeomAttr == Command({}, "ignored")

EdgeSelectByAttr == Command({}, "ignored")

CheckWidth == Command({}, "ignored")

GeomSelectByCoinEdge == Command({}, "ignored")

GeomCopyLayer == Command({}, "reject")

GeomGetLayerBBox == Command({}, "reject")

GeomFlattenLayer == Command({}, "reject")

GeomSelectHoles ==
  Command({Flags({"INNER", "EMPTY", "SINGULAR_ALSO"})}, "ignored")

GeomSelectRectangle ==
  Command({Limits({"BY", "ASPECT"}, "keep"), Pairs({"ORTHOGONAL"}, {"ONLY"}),
           Flags({"FIXED_SECOND", "MEASURE_EXTENTS"})},
          "ignored")

EdgeTopo == Command({Pairs({"ENDPOINT"}, {"ONLY", "ALSO"})}, "reject")

GeomGetBBox ==
  Command({Values({"CENTERS"}, "keep"), Flags({"SQUARES"}),
           Layers({"INSIDE_OF_LAYER"}, "keep")},
          "reject")

Size ==
  Command({Values({"BY", "STEP", "TRUNCATE", "BEVEL"}, "drop"),
           Layers({"INSIDE_OF"}, "OUTSIDE_OF"), Layers({"OUTSIDE_OF"}, "STEP"),
           Flags({"OVERLAP_ONLY", "UNDEROVER", "OVERUNDER"})},
          "reject")

EdgeExpandToRect ==
  Command({Values({"INSIDE_BY", "INSIDE_BY_FACTOR", "OUTSIDE_BY",
                   "OUTSIDE_BY_FACTOR", "BY", "BY_FACTOR", "EXTEND_BY",
                   "EXTEND_BY_FACTOR"}, "drop"),
           Flags({"CORNER_FILL"})},
          "reject")

GeomMergeLayer == Command({Values({"BY"}, "operand")}, "reject")

GeomMergeNet == Command({Flags({"BY_NET", "BY_SHAPE"})}, "reject")

GeomPushLayer ==
  Command({Layers({"LOCATE"}, "keep"), Flags({"LIGHT", "MEDIUM"})}, "reject")

GeomStampLayer ==
  Command({Layers({"BY"}, "keep"), Flags({"ABUT_ALSO"})}, "reject")

GeomSelectByNeighbor ==
  Command({Pairs({"ORTHOGONAL", "OCTAGONAL"}, {"ONLY"}),
           Limits({"SPACE"}, "drop"),
           Flags({"SQUARE", "CENTERS", "CONNECTED", "NOT_CONNECTED"}),
           Layers({"INSIDE_OF_LAYER"}, "again")},
          "ignored")

GeomSelectTexted ==
  Command({Pairs({"PRIMARY"}, {"ONLY"}), Pairs({"CASE"}, {"SENSITIVE"})}, "again")

AttachOrder == Command({Omit({"MASK", "DIRECT"})}, "reject")

GeomGetNetByArea == Command({}, "ignored")

DfmStamp == Command({Names({"BY"})}, "reject")

GeomTransform(op) ==
  Command({After({"RIGHT", "LEFT", "BOTTOM", "TOP"}, {"BY"}),
           IF op \in {"SHIFT", "DFM_SHIFT"} THEN Two({"BY"})
           ELSE Values({"BY"}, "drop"),
           Flags(IF op = "GROW" THEN {"SEQUENTIAL"} ELSE {})},
          "reject")

GeomGetNetByName ==
  Ordered({}, [first |-> [layer |-> "then"], then |-> [name |-> "then"]], "reject")

GeomSelectInCell ==
  Ordered({Pairs({"PRIMARY"}, {"ONLY"}), Again({"WITH_LAYER"}),
           Follow({"WITH_MATCH"}, {"GOLDEN"}), Omit({"GOLDEN"}),
           Skip({"RULE", "WITH_PROPERTY", "NOT_WITH_PROPERTY"})},
          GeomGetNetByName.operands, "reject")

GeomGetCellBBox ==
  Ordered({Flags({"ORIGINAL", "MAPPED", "OCCUPIED"}),
           Follow({"WITH_MATCH"}, {"GOLDEN"})},
          [first |-> [name |-> "first"]], "reject")

GeomGetTextBBox ==
  Ordered({Pairs({"PRIMARY"}, {"ONLY"}), Pairs({"CASE"}, {"SENSITIVE"}),
           Values({"BY"}, "drop")},
          [first |-> [name |-> "then"], then |-> [layer |-> "done"], done |-> Nothing],
          "reject")

GeomVerticeSnapToGrid ==
  Ordered({}, [first |-> [layer |-> "then", number |-> "first"],
               then  |-> [number |-> "then"]], "reject")

EdgeAngledToRegular ==
  Ordered({Pairs({"ORTHOGONAL"}, {"ONLY"}), Flags({"SKEW", "ALL"})},
          [first  |-> [layer |-> "number", number |-> "layer"],
           number |-> [number |-> "done"], layer |-> [layer |-> "done"],
           done   |-> Nothing], "skip")

CheckFittingRectangle ==
  Ordered({Pairs({"ORTHOGONAL"}, {"ONLY"}), Flags({"FIXED_SECOND"})},
          [first  |-> [layer |-> "width"], width |-> [number |-> "length"],
           length |-> [number |-> "done"], done  |-> Nothing], "twice")

ExecProc == Command({}, "names")

DfmOrEdge == Command({}, "raw")

Size_XY == Command({}, "blind")

-----------------------------------------------------------------------------
\* beginVisitLayerOperationNode(): the function for each operation.
Cases == {
  [op \in {"AND", "OR", "XOR", "NOT"} |-> GeomBoolean(op)],
  [op \in {"INSIDE", "NOT_INSIDE", "OUTSIDE", "NOT_OUTSIDE", "TOUCH",
        "NOT_TOUCH", "ENCLOSE", "NOT_ENCLOSE", "CUT", "NOT_CUT",
        "INTERACT", "NOT_INTERACT"} |-> GeomTopo(op)],
  [op \in {"AREA", "NOT_AREA", "PERIMETER", "DONUT", "NOT_DONUT",
        "VERTEX"} |-> GeomAttr],
  [op \in {"PATH_LENGTH", "LENGTH", "NOT_LENGTH", "ANGLE", "NOT_ANGLE"}
     |-> EdgeSelectByAttr],
  [op \in {"INSIDE_EDGE", "NOT_INSIDE_EDGE", "OUTSIDE_EDGE",
        "NOT_OUTSIDE_EDGE", "COINCIDENT_EDGE", "NOT_COINCIDENT_EDGE",
        "COINCIDENT_INSIDE_EDGE", "NOT_COINCIDENT_INSIDE_EDGE",
        "COINCIDENT_OUTSIDE_EDGE", "NOT_COINCIDENT_OUTSIDE_EDGE",
        "TOUCH_EDGE", "NOT_TOUCH_EDGE", "TOUCH_INSIDE_EDGE",
        "NOT_TOUCH_INSIDE_EDGE", "TOUCH_OUTSIDE_EDGE",
        "NOT_TOUCH_OUTSIDE_EDGE"} |-> EdgeTopo],
  [op \in {"WITH_WIDTH", "NOT_WITH_WIDTH"} |-> CheckWidth],
  [op \in {"WITH_EDGE", "NOT_WITH_EDGE"} |-> GeomSelectByCoinEdge],
  [op \in {"RECTANGLE", "NOT_RECTANGLE"} |-> GeomSelectRectangle],
  [op \in {"WITH_NEIGHBOR", "NOT_WITH_NEIGHBOR"} |-> GeomSelectByNeighbor],
  [op \in {"WITH_TEXT", "NOT_WITH_TEXT"} |-> GeomSelectTexted],
  [op \in {"GROW", "SHRINK", "MAGNIFY", "ROTATE", "SHIFT", "DFM_SHIFT"}
     |-> GeomTransform(op)],
  [op \in {"NET", "NOT_NET"} |-> GeomGetNetByName],
  [op \in {"INSIDE_CELL", "NOT_INSIDE_CELL"} |-> GeomSelectInCell],
  [op \in {"ENCLOSE_RECTANGLE", "NOT_ENCLOSE_RECTANGLE"} |-> CheckFittingRectangle],
  [OR_EDGE |-> EdgeMerge, ATTACH |-> Attach, CONNECT |-> Connect,
   SCONNECT |-> Sconnect, COPY |-> GeomCopyLayer,
   EXTENT |-> GeomGetLayerBBox, FLATTEN |-> GeomFlattenLayer,
   HOLES |-> GeomSelectHoles, EXTENTS |-> GeomGetBBox, SIZE |-> Size,
   EXPAND_EDGE |-> EdgeExpandToRect, MERGE |-> GeomMergeLayer,
   ORNET |-> GeomMergeNet, PUSH |-> GeomPushLayer,
   STAMP |-> GeomStampLayer, CMACRO |-> ExecProc,
   LABEL_ORDER |-> AttachOrder, NET_AREA |-> GeomGetNetByArea,
   DFM_STAMP |-> DfmStamp, EXTENT_CELL |-> GeomGetCellBBox,
   EXPAND_TEXT |-> GeomGetTextBBox, SNAP |-> GeomVerticeSnapToGrid,
   DEANGLE |-> EdgeAngledToRegular, DFM_OR_EDGE |-> DfmOrEdge,
   SIZE_XY |-> Size_XY]}

Commands == Together(Cases)

\* _hasOnlyDirectKeyword(): such a statement is not converted (CON1).
DirectCommands == {"ATTACH", "CONNECT", "LABEL_ORDER", "SCONNECT"}
HasOnlyDirectKeyword(tokens) ==
  /\ \E i \in DOMAIN tokens : tokens[i].type = "KEY" /\ tokens[i].name = "DIRECT"
  /\ ~\E i \in DOMAIN tokens : tokens[i].type = "KEY" /\ tokens[i].name = "MASK"
=============================================================================
