------------------------------- MODULE MCSyntax -------------------------------
(***************************************************************************)
(* Small decks for model checking the syntax convertor.                    *)
(***************************************************************************)
EXTENDS SyntaxProperties

CONSTANTS a, b, m, x, r

MCNames     == {a, b, m, x, r}
MCParaSizes == (m :> 2)
Anew        == 0
Later       == 2

T(type) == [type |-> type, name |-> NoName]
Name(n) == [type |-> "NAME", name |-> n]

\* Every piece of text is on a line of its own.
Lines(pieces) ==
  FlattenSeq([l \in DOMAIN pieces |->
    [i \in DOMAIN pieces[l] |->
       [type |-> pieces[l][i].type, name |-> pieces[l][i].name, line |-> l]]])

UpTo(S, n) == UNION {[1..k -> S] : k \in 0..n}

Paren(s) == <<T("LPAREN")>> \o s \o <<T("RPAREN")>>
Op(left, right) == left \o <<T("OPERATION")>> \o right
Define(n, s) == <<Name(n), T("EQUAL")>> \o s

A == <<Name(a)>>
B == <<Name(b)>>

-----------------------------------------------------------------------------
(***************************************************************************)
(* Decks of regular form.                                                  *)
(***************************************************************************)
Simple == Op(A, B)
Inner  == Op(Paren(Simple), Paren(Op(B, <<T("NUMBER")>>)))
Nested == Op(A, Paren(Op(Paren(Op(B, Paren(A))), Paren(Simple))))
Call   == <<T("CMACRO"), Name(m), T("NUMBER"), T("NUMBER")>>
Signed2 == <<T("CMACRO"), Name(m), Name(a), T("SIGN"), T("NUMBER")>>
More   == <<Name(b), T("SIGN"), T("NUMBER")>>    \* a line that goes on
Remark == <<T("COMMENT")>>
Builtin == <<T("BUILTIN")>>    \* part of the statement before, if any
Spec1  == <<T("SPECIFICATION"), T("NUMBER")>>

Definitions == {Define(x, Inner), Define(x, Simple \o Remark)}
Anywhere    == {<<Spec1>>, <<Remark>>} \cup {<<d>> : d \in Definitions}

Ifdef(pieces) == <<<<T("IFDEF")>>>> \o pieces \o <<<<T("ENDIF")>>>>
IfElse(one, two) ==
  <<<<T("IFDEF")>>>> \o one \o <<<<T("ELSE")>>>> \o two \o <<<<T("ENDIF")>>>>

InRuleOnly ==
  {<<Inner>>, <<Nested, More>>, Ifdef(<<Inner>>),
   Ifdef(Ifdef(<<Inner>>) \o <<Nested>>),
   IfElse(<<Define(x, Nested)>>, <<Inner>>), <<<<T("INCLUDE")>>>>}

RuleCheckOf(pieces) == <<<<Name(r), T("OPEN")>>>> \o pieces \o <<<<T("CLOSE")>>>>
MacroOf(pieces) ==
  <<<<T("DMACRO"), Name(m), Name(a), T("OPEN")>>>> \o pieces \o <<<<T("CLOSE")>>>>

Bodies == {p \o q : p \in Anywhere \cup InRuleOnly \cup {<<>>},
                    q \in Anywhere \cup InRuleOnly \cup {<<>>}}

MacroBodies ==
  {<<Builtin, Simple \o Builtin>>,
   <<<<T("LESS"), Name(a), T("GREATER")>>, Define(x, Inner)>>}

InRootOnly ==
  {<<Call>>, <<Signed2>>, <<<<T("DEFINE")>>, Builtin>>,
   <<<<T("INCLUDE"), T("STRING")>>>>,
   Ifdef(<<Define(x, Nested), More>>),
   IfElse(<<Define(x, Inner)>>, RuleCheckOf(<<Inner>>)),
   Ifdef(RuleCheckOf(<<Nested>>))}

Blocks ==
  {RuleCheckOf(p) : p \in Bodies} \cup {MacroOf(p) : p \in MacroBodies}

FewBlocks == {RuleCheckOf(<<Inner>>), RuleCheckOf(<<>>), MacroOf(<<Simple>>)}

InRootAll == Anywhere \cup InRootOnly \cup FewBlocks

RegularDecks ==
  {Lines(p) : p \in Blocks}
  \cup {Lines(p \o q) : p \in InRootAll, q \in InRootAll}
  \cup {Lines(p \o q \o s) :
          p \in FewBlocks \cup {<<d>> : d \in Definitions},
          q \in InRootOnly \cup FewBlocks, s \in Anywhere \cup {<<Call>>}}

-----------------------------------------------------------------------------
(***************************************************************************)
(* Any few tokens.                                                         *)
(***************************************************************************)
Alphabet ==
  {Name(a), T("OPERATION"), T("EQUAL"), T("OPEN"), T("CLOSE"), T("LPAREN"),
   T("RPAREN"), T("SPECIFICATION"), T("IFDEF"), T("COMMENT")}

OnLines(d) == Lines([i \in DOMAIN d |-> <<d[i]>>])

TokenDecks == {OnLines(d) : d \in UpTo(Alphabet, 4)} \cup {Lines(<<d>>) : d \in UpTo(Alphabet, 3)}

\* Those that meet the rest of the steps.
OddDecks ==
  {OnLines(<<T("SPLIT")>>), OnLines(<<T("INCLUDE")>>),
   OnLines(<<T("SPLIT"), T("COMMENT")>>),
   Lines(<<<<T("SPLIT"), T("COMMENT")>>, <<T("OPERATION")>>>>),
   OnLines(<<T("DMACRO"), Name(a)>>), OnLines(<<T("SPLIT"), T("IFDEF")>>),
   Lines(<<<<T("SPLIT"), T("COMMENT")>>, <<T("BUILTIN"), T("OPERATION")>>>>),
   Lines(<<<<T("IFDEF")>>, Paren(<<T("OPERATION"), T("ELSE")>>),
           Paren(Simple)>>)}

AllDecks == RegularDecks \cup TokenDecks \cup OddDecks

-----------------------------------------------------------------------------
(***************************************************************************)
(* Decks that are correct, too.                                            *)
(***************************************************************************)
\* Under -oc: a comment between a name and the sign that makes it one.
CommentDecks ==
  {Lines(<<<<Name(x), T("COMMENT"), T("EQUAL")>> \o Simple>>),
   Lines(<<<<Name(r), T("COMMENT"), T("OPEN")>>, Simple, <<T("CLOSE")>>>>),
   Lines(RuleCheckOf(<<<<Name(x), T("COMMENT"), T("EQUAL")>> \o Simple>>))}

\* The first argument of a call is a number with a sign.
SignDecks ==
  {Lines(<<Spec1, <<T("CMACRO"), Name(m), T("SIGN"), T("NUMBER"), Name(a)>>>>)}
=============================================================================
