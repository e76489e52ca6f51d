--------------------------- MODULE ImplicitLayers ---------------------------
(***************************************************************************)
(* The first two passes of rcsSynConvertor::execute() over the list of     *)
(* tokens (syntax/rcsSynConvertor.cpp).  checkDefinedNameValid() requires  *)
(* a name before every "=" and "{".  Then                                  *)
(* recognizeImplicitLayerDefinitions() gives every operation in            *)
(* parentheses a temporary name: the operation becomes a definition of     *)
(* that name, inserted elsewhere in the list, and the name takes the place *)
(* of the parentheses.                                                     *)
(*                                                                         *)
(* Iterators are positions in the list, its end is Len + 1.  An iterator   *)
(* whose token was erased is Dangling.  A position stands for the token at *)
(* it, so an insertion in front of it moves it.  The temporary name number *)
(* k, "pvrs_tmp_layer_k", is k.                                            *)
(***************************************************************************)
EXTENDS Integers, Sequences, SequencesExt

CONSTANTS
  Names,      \* names that a deck may have of its own
  NoName,     \* the name of a token that is not a name
  Decks,      \* lists that the macro parser may leave
  Numbered    \* temporary names that the conversions before have used

CondTypes == {"IFDEF", "ELSE", "ENDIF"}
PreTypes  == CondTypes \cup {"DEFINE", "INCLUDE"}   \* PRO_KEYWORD

\* SPLIT is LVS REDUCE SPLIT GATES, OTHER any other token, a name that is not
\* valid among them.
TokenTypes ==
  PreTypes \cup
  {"NAME", "STRING", "OPERATION", "SPECIFICATION", "SPLIT", "CMACRO",
   "DMACRO", "EQUAL", "OPEN", "CLOSE", "LPAREN", "RPAREN", "COMMENT",
   "BUILTIN", "LESS", "GREATER", "SIGN", "NUMBER", "OTHER"}

SpecTypes == {"SPECIFICATION", "SPLIT"}
OperationTypes == {"OPERATION", "CMACRO"}

Token == [type : TokenTypes, name : Names \cup {NoName} \cup Nat, line : Nat]

DeckToken == [type : TokenTypes, name : Names \cup {NoName}, line : Nat]

\* A deck has no name of the form of a temporary one.
ASSUME NamesAssumption == \A n \in Names \cup {NoName} : n \notin Nat
ASSUME DecksAssumption == Decks \subseteq Seq(DeckToken)
ASSUME NumberedAssumption == Numbered \in Nat

VARIABLES
  deck,        \* the list as it was at first, fixed
  stream,      \* m_listTokenStream
  pos,         \* iter
  insertAt,    \* iterInsert
  inRuleCheck,
  opens,       \* the calls of parseImplicitLayerDefinition(), innermost last
  nTmpNo,      \* the number of the last temporary name
  phase,
  error

layerVars == <<deck, stream, pos, insertAt, inRuleCheck, opens, nTmpNo, phase,
               error>>

Dangling == 0
Phases == {"names", "layers", "layered", "exited", "undefined"}
LayerErrors == {"none", "SYN3", "LAY6", "SYN6"}
Open == [begin : Nat \ {0}, implicit : BOOLEAN]

\* Every position that the first two passes keep stays in the list or right
\* behind it while definitions are inserted and parentheses are replaced, and
\* no call is ahead of the position (recognizeImplicitLayerDefinitions).
TypeOK ==
  /\ deck \in Seq(DeckToken)
  /\ stream \in Seq(Token)
  /\ pos \in 1..(Len(stream) + 1)
  /\ insertAt \in 0..(Len(stream) + 1)
  /\ inRuleCheck \in BOOLEAN
  /\ opens \in Seq(Open)
  /\ \A i \in DOMAIN opens : opens[i].begin < pos
  /\ nTmpNo \in Nat /\ nTmpNo >= Numbered
  /\ phase \in Phases
  /\ error \in LayerErrors

-----------------------------------------------------------------------------
AtEnd == pos = Len(stream) + 1
Here  == stream[pos]

\* The first token from position i on of one of the types, the end if there is
\* none.
First(i, types) ==
  LET found == {j \in i..Len(stream) : stream[j].type \in types}
  IN  IF found = {} THEN Len(stream) + 1
      ELSE CHOOSE j \in found : \A k \in found : j <= k

Fail(err) ==
  /\ phase' = "exited"
  /\ error' = err
  /\ UNCHANGED <<deck, stream, pos, insertAt, inRuleCheck, opens, nTmpNo>>

\* A token that does not exist is read or written.
Undefined ==
  /\ phase' = "undefined"
  /\ UNCHANGED <<deck, stream, pos, insertAt, inRuleCheck, opens, nTmpNo,
                 error>>

Advance ==
  /\ pos' = pos + 1
  /\ UNCHANGED <<deck, stream, nTmpNo, phase, error>>

-----------------------------------------------------------------------------
LayersInit ==
  /\ deck \in Decks
  /\ stream = deck
  /\ pos = 1
  /\ insertAt = Len(stream) + 1
  /\ inRuleCheck = FALSE
  /\ opens = <<>>
  /\ nTmpNo = Numbered
  /\ phase = "names"
  /\ error = "none"

\* Mutant: a keyword will do for a name.
AnyWord(i) ==
  \E j \in 1..(i - 1) :
    /\ stream[j].type \in {"NAME", "STRING"} \cup OperationTypes
    /\ \A k \in (j + 1)..(i - 1) : stream[k].type = "COMMENT"

\* There is a name in front of position i, but for comments.
NameBefore(i) ==
  \E j \in 1..(i - 1) :
    /\ stream[j].type \in {"NAME", "STRING"}
    /\ \A k \in (j + 1)..(i - 1) : stream[k].type = "COMMENT"

CheckDefinedNameValid ==
  /\ phase = "names"
  /\ IF \A i \in DOMAIN stream :
          stream[i].type \in {"EQUAL", "OPEN"} => NameBefore(i)
     THEN /\ phase' = "layers"
          /\ UNCHANGED <<deck, stream, pos, insertAt, inRuleCheck, opens,
                         nTmpNo, error>>
     ELSE Fail("SYN3")

-----------------------------------------------------------------------------
(***************************************************************************)
(* Outside of parentheses: where the next definitions are to go.  In a     *)
(* rule check that is in front of its brace, elsewhere in front of the     *)
(* definition they are used in; a conditional directive limits both to its *)
(* own branch.                                                             *)
(***************************************************************************)
Outside == phase = "layers" /\ opens = <<>> /\ ~AtEnd

OpenBrace ==
  /\ Outside /\ Here.type = "OPEN"
  /\ inRuleCheck' = TRUE
  /\ insertAt' = First(pos, {"CLOSE"})
  /\ Advance /\ UNCHANGED opens

CloseBrace ==
  /\ Outside /\ Here.type = "CLOSE"
  /\ inRuleCheck' = FALSE
  /\ insertAt' = Len(stream) + 1
  /\ Advance /\ UNCHANGED opens

EqualSign ==
  /\ Outside /\ Here.type = "EQUAL" /\ ~inRuleCheck
  /\ insertAt' = pos - 1
  /\ Advance /\ UNCHANGED <<inRuleCheck, opens>>

\* Mutant: inside of a rule check the other branch is not looked for.
LimitOutside(i) ==
  LET j == First(i, IF inRuleCheck THEN {"CLOSE"}
                    ELSE CondTypes \cup {"OPEN", "EQUAL"})
  IN  IF j \in DOMAIN stream /\ stream[j].type \in {"OPEN", "EQUAL"}
      THEN j - 1 ELSE j

\* Where a branch that begins at position i, or the part of it that is of
\* interest, ends.
BranchLimit(i) ==
  LET j == First(i, CondTypes \cup
                    (IF inRuleCheck THEN {"CLOSE"} ELSE {"OPEN", "EQUAL"}))
  IN  IF j \in DOMAIN stream /\ stream[j].type \in {"OPEN", "EQUAL"}
      THEN j - 1 ELSE j

Directive ==
  /\ Outside /\ Here.type \in PreTypes
  /\ insertAt' = IF Here.type \in CondTypes THEN BranchLimit(pos + 1) ELSE pos
  /\ Advance /\ UNCHANGED <<inRuleCheck, opens>>

\* Nothing to do outside of parentheses.
Skip ==
  /\ Outside
  /\ Here.type \notin PreTypes \cup {"OPEN", "CLOSE", "LPAREN"}
  /\ Here.type = "EQUAL" => inRuleCheck
  /\ Advance /\ UNCHANGED <<insertAt, inRuleCheck, opens>>

-----------------------------------------------------------------------------
(***************************************************************************)
(* parseImplicitLayerDefinition(), which calls itself for parentheses      *)
(* inside of parentheses.                                                  *)
(***************************************************************************)
Inside == phase = "layers" /\ opens # <<>> /\ ~AtEnd

Innermost == opens[Len(opens)]

\* Mutant: there is one flag for all nestings.
SharedFlag ==
  /\ phase = "layers" /\ ~AtEnd /\ Here.type = "LPAREN"
  /\ opens' = Append(opens, [begin |-> pos, implicit |->
                              opens # <<>> /\ Innermost.implicit])
  /\ Advance /\ UNCHANGED <<insertAt, inRuleCheck>>

OpenParen ==
  /\ phase = "layers" /\ ~AtEnd /\ Here.type = "LPAREN"
  /\ opens' = Append(opens, [begin |-> pos, implicit |-> FALSE])
  /\ Advance /\ UNCHANGED <<insertAt, inRuleCheck>>

Keyword ==
  /\ Inside /\ Here.type \in OperationTypes
  /\ IF Innermost.implicit
     THEN Fail("LAY6")
     ELSE /\ opens' = [opens EXCEPT ![Len(opens)].implicit = TRUE]
          /\ Advance /\ UNCHANGED <<insertAt, inRuleCheck>>

NotInside ==
  /\ Inside /\ Here.type \in SpecTypes \cup {"EQUAL"}
  /\ Fail("LAY6")

SkipInside ==
  /\ Inside
  /\ Here.type \notin OperationTypes \cup SpecTypes
                      \cup {"EQUAL", "LPAREN", "RPAREN"}
  /\ Advance /\ UNCHANGED <<insertAt, inRuleCheck, opens>>

Closing == Inside /\ Here.type = "RPAREN"

\* "()", or a temporary name alone: parentheses around parentheses.
Superfluous ==
  \/ pos = Innermost.begin + 1
  \/ /\ pos = Innermost.begin + 2
     /\ stream[pos - 1].type = "NAME"
     /\ stream[pos - 1].name \in Nat

RejectParen ==
  /\ Closing /\ Superfluous
  /\ Fail("LAY6")

\* Nothing to name.
PlainParen ==
  /\ Closing /\ ~Superfluous /\ ~Innermost.implicit
  /\ opens' = Front(opens)
  /\ Advance /\ UNCHANGED <<insertAt, inRuleCheck>>

\* Mutant: each nesting has numbers of its own.
LevelNo == Numbered + Len(opens)

TmpNo == nTmpNo + 1

NameToken(line) == [type |-> "NAME", name |-> TmpNo, line |-> line]

Definition ==
  LET line == stream[Innermost.begin].line
  IN  <<NameToken(line), [type |-> "EQUAL", name |-> NoName, line |-> line]>>
      \o SubSeq(stream, Innermost.begin + 1, pos - 1)

\* Where the token at position i is after the definition was inserted.
Moved(i) == IF i >= insertAt THEN i + Len(Definition) ELSE i

Inserted ==
  SubSeq(stream, 1, insertAt - 1) \o Definition
  \o SubSeq(stream, insertAt, Len(stream))

\* The name is in place of the parentheses.
Renamed(list, first, last) ==
  SubSeq(list, 1, first - 1)
  \o <<NameToken(stream[Innermost.begin].line)>>
  \o SubSeq(list, last + 1, Len(list))

\* Mutant: the list got shorter, but not the position.
Unshifted(i, first, last) == IF first <= i /\ i <= last THEN Dangling ELSE i

\* Where the token at position i is after that.
Kept(i, first, last) ==
  IF i < first THEN i
  ELSE IF i <= last THEN Dangling
  ELSE i - (last - first)

\* The definition is inserted and the parentheses are replaced.  A definition
\* that went in between the parentheses is erased with them.  The line of the
\* name is read from the "(" after it was erased; it is still there.
NameLayer ==
  /\ Closing /\ ~Superfluous /\ Innermost.implicit /\ insertAt # Dangling
  /\ LET first == Moved(Innermost.begin)
         last  == Moved(pos)
     IN  /\ stream' = Renamed(Inserted, first, last)
         /\ pos' = first + 1
         /\ insertAt' = Kept(Moved(insertAt), first, last)
         /\ opens' = [i \in 1..(Len(opens) - 1) |->
                        [opens[i] EXCEPT !.begin = Moved(opens[i].begin)]]
  /\ nTmpNo' = TmpNo
  /\ UNCHANGED <<deck, inRuleCheck, phase, error>>

\* The definition would be inserted in front of an erased token.
InsertDangling ==
  /\ Closing /\ ~Superfluous /\ Innermost.implicit /\ insertAt = Dangling
  /\ Undefined

\* Mutant: the outer calls are not thought of.
UnclosedOnce ==
  phase = "layers" /\ Len(opens) = 1 /\ AtEnd /\ Fail("SYN6")

\* The list ends inside of parentheses.  The outer calls step over its end.
Unclosed ==
  /\ phase = "layers" /\ opens # <<>> /\ AtEnd
  /\ IF Len(opens) = 1 THEN Fail("SYN6") ELSE Undefined

Layered ==
  /\ phase = "layers" /\ opens = <<>> /\ AtEnd
  /\ phase' = "layered"
  /\ UNCHANGED <<deck, stream, pos, insertAt, inRuleCheck, opens, nTmpNo,
                 error>>

RecognizeImplicitLayerDefinitions ==
  \/ OpenBrace \/ CloseBrace \/ EqualSign \/ Directive \/ Skip
  \/ OpenParen \/ Keyword \/ NotInside \/ SkipInside
  \/ RejectParen \/ PlainParen \/ NameLayer \/ InsertDangling
  \/ Unclosed \/ Layered

LayersNext == CheckDefinedNameValid \/ RecognizeImplicitLayerDefinitions

LayersSpec == LayersInit /\ [][LayersNext]_layerVars /\ WF_layerVars(LayersNext)
=============================================================================
