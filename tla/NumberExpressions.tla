-------------------------- MODULE NumberExpressions --------------------------
(***************************************************************************)
(* Numbers and constraints among the operands of an operation:             *)
(* rcsExpressionParser_T (rcsNumberParser.cpp) and getConstraint()         *)
(* (rcsSynPvrsConvertor.cpp).  The parsers move an iterator over the       *)
(* tokens, also when they fail, and write as they go.                      *)
(***************************************************************************)
EXTENDS Integers, Sequences

CONSTANTS
  ConflictNames, \* vConflictSvrfNames: keywords that are no names
  FuncNames      \* the functions of isFuncName()

Signs           == {"+", "-"}
Factors         == {"*", "/", "%", "^"}
ConstraintSigns == {"==", ">", "<", "!=", ">=", "<="}
NameTypes       == {"KEY", "NAME"}

Is(ts, i, type, names) ==
  /\ i \in DOMAIN ts
  /\ ts[i].type = type
  /\ ts[i].name \in names

IsConstraintOperator(ts, i) == Is(ts, i, "OPERATOR", ConstraintSigns)

IsValidSvrfName(t) == t.name \notin ConflictNames

\* Where a parser is when it returns, and what it has written.  Past is the
\* iterator beyond the end of the list.  A parser is the set of its results,
\* which has one element, so that its callers can quantify over it.
Got(i, text) == [is |-> "got", at |-> i, text |-> text]
No(i)        == [is |-> "none", at |-> i, text |-> <<>>]
Past         == [is |-> "undefined", at |-> 1, text |-> <<>>]

\* The results of the parser Next from where a first one has ended well.
Then(first, Next(_)) ==
  UNION {IF r.is = "got" THEN Next(r) ELSE {r} : r \in first}

Before(text, results) ==
  {IF r.is = "got" THEN [r EXCEPT !.text = text \o @] ELSE r : r \in results}

Rules     == {"exp", "term", "factor", "exp tail", "term tail", "arguments"}
Sub       == [exp |-> "term", term |-> "factor"]
TailOf    == [exp |-> "exp tail", term |-> "term tail"]
Operators == [exp |-> Signs, term |-> Factors]

\* What follows the first part of an expression or a term.
More(level, ts, i, f) ==
  IF Is(ts, i, "OPERATOR", Operators[level])
  THEN Then(f[<<Sub[level], i + 1>>],
            LAMBDA r : Before(<<ts[i].name>> \o r.text, f[<<TailOf[level], r.at>>]))
  ELSE {Got(i, <<>>)}

\* factor(): what is between parentheses may fail, and what ends it is taken
\* for the closing one.
Parenthesis(ts, i, f) ==
  {IF e.is = "undefined" \/ e.at > Len(ts) THEN Past
   ELSE Got(e.at + 1, <<"(">> \o e.text \o <<")">>) : e \in f[<<"exp", i + 1>>]}

Arguments(ts, i, f) ==
  Then(f[<<"exp", i>>],
       LAMBDA e : IF Is(ts, e.at, "SEPARATOR", {","})
                  THEN Before(e.text \o <<",">>, f[<<"arguments", e.at + 1>>])
                  ELSE {e})

ParseFunc(ts, i, f) ==
  IF ~Is(ts, i + 1, "SEPARATOR", {"("}) THEN {No(i + 1)}
  ELSE Then(f[<<"arguments", i + 2>>],
            LAMBDA args : IF Is(ts, args.at, "SEPARATOR", {")"})
                          THEN {Got(args.at + 1, <<ts[i].name, "(">> \o args.text \o <<")">>)}
                          ELSE {No(args.at)})

\* Mutant: numbers have no signs.
Unsigned(ts, i, f) ==
  IF i > Len(ts) THEN {No(i)}
  ELSE CASE Is(ts, i, "SEPARATOR", {"("}) -> Parenthesis(ts, i, f)
         [] /\ ts[i].type \in NameTypes
            /\ ts[i].name \in FuncNames   -> ParseFunc(ts, i, f)
         [] \/ ts[i].type \in {"NUMBER", "STRING"}
            \/ /\ ts[i].type \in NameTypes
               /\ ts[i].name \notin FuncNames
               /\ IsValidSvrfName(ts[i])  -> {Got(i + 1, <<ts[i].name>>)}
         [] OTHER                         -> {No(i)}

Factor(ts, i, f) ==
  IF i > Len(ts) THEN {No(i)}
  ELSE CASE Is(ts, i, "SEPARATOR", {"("}) -> Parenthesis(ts, i, f)
         [] Is(ts, i, "OPERATOR", {"-"})  -> Before(<<"-">>, f[<<"factor", i + 1>>])
         [] Is(ts, i, "OPERATOR", {"+"})  -> f[<<"factor", i + 1>>]
         [] /\ ts[i].type \in NameTypes
            /\ ts[i].name \in FuncNames   -> ParseFunc(ts, i, f)
         [] \/ ts[i].type \in {"NUMBER", "STRING"}
            \/ /\ ts[i].type \in NameTypes
               /\ ts[i].name \notin FuncNames
               /\ IsValidSvrfName(ts[i])  -> {Got(i + 1, <<ts[i].name>>)}
         [] OTHER                         -> {No(i)}

\* exp() and term(): a first part, and what follows it.
Composed(rule, i, f) ==
  Then(f[<<Sub[rule], i>>],
       LAMBDA left : Before(left.text, f[<<TailOf[rule], left.at>>]))

Results(rule, ts, i, f) ==
  CASE rule \in {"exp", "term"} -> Composed(rule, i, f)
    [] rule = "exp tail"  -> More("exp", ts, i, f)
    [] rule = "term tail" -> More("term", ts, i, f)
    [] rule = "factor"    -> Factor(ts, i, f)
    [] rule = "arguments" -> Arguments(ts, i, f)

\* Every rule at every position: f[<<rule, i>>].
Parse(ts) ==
  LET f[x \in Rules \X (1..(Len(ts) + 1))] == Results(x[1], ts, x[2], f)
  IN  f

GetNumberExp(ts, i) == Parse(ts)[<<"exp", i>>]

\* One half of a constraint.  The sign has been written when the number is
\* missing.
Limit(ts, i) ==
  IF i > Len(ts) THEN {Past}
  ELSE IF ~IsConstraintOperator(ts, i) THEN {No(i)}
  ELSE {[n EXCEPT !.text = <<ts[i].name>> \o @] : n \in GetNumberExp(ts, i + 1)}

GetConstraint(ts, i) ==
  Then(Limit(ts, i),
       LAMBDA one : IF IsConstraintOperator(ts, one.at)
                    THEN {[two EXCEPT !.text = one.text \o @] : two \in Limit(ts, one.at)}
                    ELSE {one})
=============================================================================
