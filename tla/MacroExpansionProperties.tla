---------------------- MODULE MacroExpansionProperties ----------------------
(***************************************************************************)
(* What macro expansion has to get right, stated over the state of         *)
(* MacroExpansion.  MacroMeaning has the property that needs a second,     *)
(* recursive meaning of macros.                                            *)
(***************************************************************************)
EXTENDS MacroExpansion

\* Names are spelled in lower case.
Lowercase ==
  \A i \in DOMAIN deck : deck[i].value \in Names => deck[i].value = Key(deck[i])

\* No two expansions have the same scope: later stages put the scope in front
\* of a layer's name, and so the layers of two calls stay apart (nCallTimes).
FreshScopes ==
  \A i, j \in DOMAIN calls : calls[i].scope = calls[j].scope => i = j

\* A macro that calls itself, at whatever distance, is reported and not
\* expanded inside of its own expansion (MAC10): the scopes of a body name
\* each macro once.
RecursionCaught ==
  \A j, k \in DOMAIN local.namescopes :
    Lower[local.namescopes[j].name] = Lower[local.namescopes[k].name] => j = k

\* As the names of scopes are compared as they were spelled, this holds of
\* decks in lower case.
RecursionStopped == Lowercase => RecursionCaught

\* The namescopes that the text of expansion c has to have: its own scope
\* inside of those of its call.
ScopesOf ==
  LET scopes[c \in 0..Len(calls)] ==
        IF c = 0 THEN <<>>
        ELSE Append(scopes[calls[c].caller], calls[c].scope)
  IN  scopes

\* Tokens of a body carry the scopes of their expansion, and those of an
\* argument keep the ones they had, at whatever depth they end up: a name
\* that is passed on keeps its meaning (replaceCMacro).
ScopesNest ==
  \A i \in DOMAIN stream : stream[i].namescopes = ScopesOf[stream[i].call]

\* The body of the definition at position d of the list s.
BodyRange(s, d) ==
  LET open == Find(s, d, {"OPEN"}) IN open..(CloseOf(s, open) - 1)

\* A definition inside of another is passed over with it (extractMacro goes on
\* behind the body).
Nested(s, d) ==
  \E c \in 1..(d - 1) :
    /\ s[c].type = "DMACRO"
    /\ d < CloseOf(s, Find(s, c, {"OPEN"}))

DefinesLayer(s, d, i) ==
  /\ s[i].type \in NameTypes
  /\ i + 1 \in BodyRange(s, d)
  /\ s[i + 1].type = "EQUAL"
  /\ \A k \in d..i : s[k].type = "LBRACKET" =>
       \E r \in k..i : s[r].type = "RBRACKET"

SpelledAlike(s, d) ==
  \A i, j \in BodyRange(s, d) :
    /\ DefinesLayer(s, d, i)
    /\ s[j].type \in NameTypes
    /\ Key(s[j]) = Key(s[i])
    => s[j].value = s[i].value

\* In a definition that stays, a layer of the body is spelled in one way,
\* also where it is used before it is defined: PVRS, unlike SVRF, tells
\* cases apart (extractMacro).
LayersSpelledAlike ==
  phase = "done" /\ ~flattenMacro =>
    \A d \in DOMAIN stream :
      stream[d].type = "DMACRO" /\ ~Nested(stream, d) => SpelledAlike(stream, d)

\* The passes come to an end, with the expansion or with an error.
Termination == <>Ended
=============================================================================
