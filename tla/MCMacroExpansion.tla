-------------------------- MODULE MCMacroExpansion --------------------------
(***************************************************************************)
(* Small decks for model checking MacroExpansion.                          *)
(***************************************************************************)
EXTENDS MacroMeaning

MCNames      == {"m", "M", "n", "p", "x", "X", "and"}
MCLower      == [n \in MCNames |-> CASE n = "M" -> "m" [] n = "X" -> "x"
                                     [] OTHER -> n]
MCValidNames == MCNames \ {"and"}

T(type)       == [type |-> type, value |-> NoName]
Named(type, n) == [type |-> type, value |-> n]
Name(n)       == Named("NAME", n)

\* Every piece of text is on a line of its own.
Lines(pieces) ==
  FlattenSeq([l \in DOMAIN pieces |->
    [i \in DOMAIN pieces[l] |->
       [type |-> pieces[l][i].type, value |-> pieces[l][i].value,
        line |-> l, namescopes |-> <<>>, call |-> 0]]])

UpTo(S, n) == UNION {[1..k -> S] : k \in 0..n}

Define(name, paras, body) ==
  <<<<T("DMACRO"), Name(name)>> \o paras \o <<T("OPEN")>>>>
  \o body \o <<<<T("CLOSE")>>>>

CallOf(name, args) == <<T("CMACRO"), Name(name)>> \o args
P == <<Name("p")>>
X == <<Name("x")>>
Minus == <<T("SIGN"), T("NUMBER")>>
Gap == <<T("BLANK")>>

-----------------------------------------------------------------------------
\* Two macros, with or without a parameter of the same name, that may call
\* each other and themselves.
BodiesOfM == UpTo({P, CallOf("n", <<>>), CallOf("n", P), CallOf("n", X)}, 2)
BodiesOfN == UpTo({P \o X, CallOf("m", <<>>), CallOf("m", P)}, 1)
Mains     == UpTo({CallOf("m", X), CallOf("m", P), CallOf("n", Minus)}, 2)

TwoMacros(ms, ns, mains) ==
  {Lines(Define("m", pm, m) \o Define("n", pn, n) \o main) :
     pm \in {<<>>, P}, pn \in {<<>>, P}, m \in ms, n \in ns, main \in mains}

CallDecks == TwoMacros(BodiesOfM, BodiesOfN, Mains)

\* A chain of calls spelled in upper case.
UpperDecks ==
  {Lines(Define("m", <<>>, body) \o <<CallOf(call, <<>>)>>) :
     body \in UpTo({CallOf("m", <<>>), CallOf("M", <<>>)}, 1),
     call \in {"m", "M"}}

-----------------------------------------------------------------------------
\* Any few tokens.
Alphabet == {T("DMACRO"), T("CMACRO"), T("OPEN"), T("CLOSE"), Name("m"),
             Name("and"), T("EQUAL"), T("NUMBER"), Named("OTHER", "m")}

TokenDecks == {Lines([i \in DOMAIN d |-> <<d[i]>>]) : d \in UpTo(Alphabet, 4)}

\* Definitions with any parameters, and calls with any arguments.
ParaDecks ==
  {Lines(Define("m", paras, <<P>>) \o <<CallOf(name, args)>>) :
     paras \in UpTo({Name("p"), Name("x"), Name("X"), Named("STRING", "and"),
                     T("EQUAL")} \cup {T("BLANK")}, 2),
     name \in {"m", "M", "x", "and"},
     args \in UpTo({Name("x"), T("SIGN"), T("NUMBER"), T("BLANK"),
                    T("OTHER")}, 2)}
  \cup {Lines(Define("m", <<>>, <<>>) \o Define(name, <<>>, <<>>)) :
          name \in {"M", "n"}}
  \cup {Lines(<<<<T("DMACRO"), Named("STRING", "and"), T("OPEN"), T("CLOSE"),
                  T("CMACRO"), Named(type, "and")>>>>) :
          type \in {"NAME", "STRING", "OTHER"}}

MessyDecks == TokenDecks \cup ParaDecks

-----------------------------------------------------------------------------
\* Bodies with layers, brackets and braces.
KeptDecks ==
  {Lines(Define("m", paras, <<body>>)) :
     paras \in {<<>>, X, <<Name("X")>>},
     body \in UpTo({Name("x"), Name("X"), T("EQUAL"), T("LBRACKET"),
                    T("RBRACKET"), T("OPEN"), T("BLANK")}, 4)}

\* A definition in the body of another, which is passed over with it.
NestedDecks ==
  {Lines(<<<<T("DMACRO"), Name("m"), T("OPEN"), T("DMACRO"), Name("n"),
             T("CLOSE")>>
           \o body \o <<T("CLOSE")>>>>) :
     body \in {<<Name("x"), T("OPEN"), Name("X"), T("EQUAL"), Name("x")>>,
              <<Name("X"), T("EQUAL"), Name("x")>>}}

AllDecks == CallDecks \cup MessyDecks \cup KeptDecks \cup NestedDecks

Both == {TRUE, FALSE}
True == {TRUE}
=============================================================================
