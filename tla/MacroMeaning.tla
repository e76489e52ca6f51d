---------------------------- MODULE MacroMeaning ----------------------------
(***************************************************************************)
(* A second meaning of macros to compare the passes of MacroExpansion      *)
(* with.  The definitions of a deck are a table, and a list of tokens is   *)
(* evaluated in an environment that gives the parameters their values.  A  *)
(* call is evaluated where it stands, with its body in an environment of   *)
(* its own; nothing is inserted and looked at again.                       *)
(***************************************************************************)
EXTENDS MacroExpansionProperties

TextOf(tokens) ==
  [i \in DOMAIN tokens |->
     [type |-> tokens[i].type, value |-> tokens[i].value,
      line |-> tokens[i].line]]

NameOf(def)  == SkipBlankSpaceToken(def, 1)
BraceOf(def) == Find(def, NameOf(def) + 1, {"OPEN"})
NotBlank(tokens) == SelectSeq(tokens, LAMBDA t : t.type # "BLANK")
ParaTokens(def) == NotBlank(SubSeq(def, NameOf(def) + 1, BraceOf(def) - 1))
BodyText(def) ==
  SubSeq(def, SkipBlankSpaceToken(def, BraceOf(def)), Len(def) - 1)

Bind(token, env) ==
  IF token.type \in NameTypes /\ Key(token) \in DOMAIN env
  THEN [i \in DOMAIN env[Key(token)] |->
          [env[Key(token)][i] EXCEPT !.line = token.line]]
  ELSE <<token>>

BindAll(tokens, env) ==
  FlattenSeq([i \in DOMAIN tokens |-> Bind(tokens[i], env)])

\* The arguments at the head of a list of tokens, the first n of them, and
\* the rest.
RECURSIVE TakeArguments(_, _)
TakeArguments(tokens, n) ==
  IF n = 0 THEN [args |-> <<>>, rest |-> tokens]
  ELSE LET toks   == NotBlank(tokens)
           signed == Head(toks).type = "SIGN"
           arg    == SubSeq(toks, 1, IF signed THEN 2 ELSE 1)
           more   == TakeArguments(SubSeq(toks, Len(arg) + 1, Len(toks)), n - 1)
       IN  [args |-> <<arg>> \o more.args, rest |-> more.rest]

RECURSIVE Evaluate(_)
Evaluate(tokens) ==
  IF tokens = <<>> THEN <<>>
  ELSE IF Head(tokens).type # "CMACRO"
  THEN <<Head(tokens)>> \o Evaluate(Tail(tokens))
  ELSE LET def   == macros[Key(tokens[2])].tokens
           paras == ParaTokens(def)
           call  == TakeArguments(SubSeq(tokens, 3, Len(tokens)), Len(paras))
           env   == [n \in {Key(paras[k]) : k \in DOMAIN paras} |->
                       call.args[CHOOSE k \in DOMAIN paras :
                                   Key(paras[k]) = n]]
       IN  Evaluate(BindAll(BodyText(def), env)) \o Evaluate(call.rest)

\* The deck without its definitions.
RECURSIVE Statements(_)
Statements(tokens) ==
  LET at == Find(tokens, 1, {"DMACRO"})
  IN  IF AtEnd(tokens, at) THEN tokens
      ELSE SubSeq(tokens, 1, at - 1)
           \o Statements(SubSeq(tokens,
                1 + CloseOf(tokens, Find(tokens, at, {"OPEN"})), Len(tokens)))

-----------------------------------------------------------------------------
\* Every call in the deck or in a body names a macro and has its arguments
\* before the list of tokens ends.
CallsComplete(tokens) ==
  \A i \in DOMAIN tokens : tokens[i].type = "CMACRO" =>
    /\ i < Len(tokens)
    /\ Key(tokens[i + 1]) \in DOMAIN macros
    /\ Len(NotBlank(SubSeq(tokens, i + 2, Len(tokens))))
         >= macros[Key(tokens[i + 1])].nParas
            + CountOf(tokens, i + 2, Len(tokens), "SIGN")

WellFormed ==
  /\ CallsComplete(Statements(deck))
  /\ \A n \in DOMAIN macros :
       LET def == macros[n].tokens
       IN  /\ CallsComplete(BodyText(def))
           /\ \A i \in DOMAIN ParaTokens(def) :
                ParaTokens(def)[i].type \in NameTypes

\* The passes over the list, each of which expands the calls the one before
\* it inserted, leave exactly the text that the calls mean, but for blanks: no
\* call is left, none is expanded twice or with another call's arguments, and text that
\* came in with an argument is not taken for a parameter (replaceCMacro).
Substitution ==
  phase = "done" /\ flattenMacro /\ WellFormed =>
    NotBlank(TextOf(stream)) = NotBlank(TextOf(Evaluate(Statements(deck))))
=============================================================================
