--------------------------- MODULE PvrsWriterProofs ---------------------------
(***************************************************************************)
(* Proofs about the writer of PVRS, whatever the tree: in one round of     *)
(* visits a layer of a macro is written behind its definition, and all     *)
(* iterators stay in their lists.                                          *)
(***************************************************************************)
EXTENDS PvrsWriterProperties, ListLemmas

(***************************************************************************)
(* What is written, as a list of pieces o.                                 *)
(***************************************************************************)
Listed(s) == s \in Seq({s[i] : i \in DOMAIN s})

Defines(o, i, path, name) ==
  o[i].is = "define" /\ o[i].path = path /\ o[i].name = name

\* Every name of a macro's layer in d has been defined in o.
Covered(d, o) ==
  \A path, name : <<path, name>> \in d =>
    \E i \in DOMAIN o : Defines(o, i, path, name)

InOrder(o) ==
  \A j \in DOMAIN o : o[j].is = "layer" /\ o[j].path # <<>> =>
    \E i \in 1..j : Defines(o, i, o[j].path, o[j].name)

\* The layers in o are among those of d.
Among(o, d) ==
  \A j \in DOMAIN o : o[j].is = "layer" /\ o[j].path # <<>> =>
    <<o[j].path, o[j].name>> \in d

NoLayers(o) == Listed(o) /\ \A j \in DOMAIN o : o[j].is # "layer"

LEMMA ListedLength ==
  ASSUME NEW s, Listed(s)
  PROVE  Len(s) \in Nat /\ DOMAIN s = 1..Len(s)
BY LenProperties DEF Listed

LEMMA Joined ==
  ASSUME NEW s, NEW t, Listed(s), Listed(t)
  PROVE  /\ Listed(s \o t)
         /\ Len(s \o t) = Len(s) + Len(t)
         /\ \A i \in 1..Len(s) : (s \o t)[i] = s[i]
         /\ \A i \in 1..Len(t) : (s \o t)[Len(s) + i] = t[i]
<1> DEFINE A == {s[i] : i \in DOMAIN s}
           B == {t[i] : i \in DOMAIN t}
           U == {(s \o t)[i] : i \in DOMAIN (s \o t)}
<1>1. s \in Seq(A \cup B) /\ t \in Seq(A \cup B)
  BY SeqMonotonic DEF Listed
<1>2. s \o t \in Seq(A \cup B)
  BY <1>1, ConcatProperties
<1>3. /\ Len(s \o t) = Len(s) + Len(t)
      /\ \A i \in 1..(Len(s) + Len(t)) :
           (s \o t)[i] = IF i <= Len(s) THEN s[i] ELSE t[i - Len(s)]
  <2> HIDE DEF A, B
  <2> QED
    BY <1>1, ConcatProperties
<1>4. Len(s) \in Nat /\ Len(t) \in Nat
  BY ListedLength
<1>5. Listed(s \o t)
  <2>1. s \o t \in [1..Len(s \o t) -> A \cup B] /\ Len(s \o t) \in Nat
    <3> HIDE DEF A, B
    <3> QED
      BY <1>2, LenProperties
  <2> HIDE DEF A, B
  <2>2. s \o t \in [1..Len(s \o t) -> U]
    BY <2>1
  <2> HIDE DEF U
  <2>3. s \o t \in Seq(U)
    BY <2>1, <2>2, SeqDef
  <2> QED
    BY <2>3 DEF Listed, U
<1> QED
  BY <1>3, <1>4, <1>5

LEMMA Associated ==
  ASSUME NEW s, NEW t, NEW u, Listed(s), Listed(t), Listed(u)
  PROVE  s \o t \o u = s \o (t \o u)
<1> DEFINE A == {s[i] : i \in DOMAIN s}
           B == {t[i] : i \in DOMAIN t}
           C == {u[i] : i \in DOMAIN u}
           All == A \cup B \cup C
<1>1. s \in Seq(A) /\ t \in Seq(B) /\ u \in Seq(C)
  BY DEF Listed
<1>2. A \subseteq All /\ B \subseteq All /\ C \subseteq All
  OBVIOUS
<1> HIDE DEF A, B, C, All
<1>3. s \in Seq(All) /\ t \in Seq(All) /\ u \in Seq(All)
  BY <1>1, <1>2, SeqMonotonic
<1> QED
  BY <1>3, ConcatAssociative

LEMMA NoPieces == NoLayers(<<>>)
<1> DEFINE s == <<>>
<1>1. s \in Seq({s[i] : i \in DOMAIN s}) /\ Len(s) = 0
  BY EmptySeq
<1>2. NoLayers(s)
  <2> HIDE DEF s
  <2>1. DOMAIN s = {}
    BY <1>1, ListedLength DEF Listed
  <2> QED
    BY <1>1, <2>1 DEF NoLayers, Listed
<1> QED
  BY <1>2

LEMMA OnePiece ==
  ASSUME NEW a
  PROVE  /\ Listed(<<a>>)
         /\ a.is # "layer" => NoLayers(<<a>>)
<1>1. <<a>> \in Seq({<<a>>[i] : i \in DOMAIN <<a>>})
  OBVIOUS
<1> QED
  BY <1>1 DEF NoLayers, Listed

LEMMA TwoPieces ==
  ASSUME NEW a, NEW b, a.is # "layer", b.is # "layer"
  PROVE  NoLayers(<<a, b>>)
<1>1. <<a, b>> \in Seq({<<a, b>>[i] : i \in DOMAIN <<a, b>>})
  OBVIOUS
<1> QED
  BY <1>1 DEF NoLayers, Listed

LEMMA JoinedPieces ==
  ASSUME NEW s, NEW t, NoLayers(s), NoLayers(t)
  PROVE  NoLayers(s \o t)
<1>1. /\ Len(s) \in Nat /\ DOMAIN s = 1..Len(s)
      /\ Len(t) \in Nat /\ DOMAIN t = 1..Len(t)
      /\ DOMAIN (s \o t) = 1..Len(s \o t)
  BY ListedLength, Joined DEF NoLayers
<1>2. ASSUME NEW j \in DOMAIN (s \o t)
      PROVE  (s \o t)[j].is # "layer"
  <2>1. CASE j <= Len(s)
    BY <1>1, <2>1, Joined DEF NoLayers
  <2>2. CASE j > Len(s)
    <3>1. j - Len(s) \in 1..Len(t) /\ j = Len(s) + (j - Len(s))
      BY <1>1, <2>2, Joined DEF NoLayers
    <3> QED
      BY <1>1, <3>1, Joined DEF NoLayers
  <2> QED
    BY <1>1, <2>1, <2>2
<1> QED
  BY <1>2, Joined DEF NoLayers

\* More is written, with layers that have been defined.
LEMMA Continued ==
  ASSUME NEW o, NEW p, NEW d, Listed(o), Listed(p),
         Covered(d, o), InOrder(o), Among(p, d)
  PROVE  Listed(o \o p) /\ Covered(d, o \o p) /\ InOrder(o \o p)
<1>1. /\ Len(o) \in Nat /\ DOMAIN o = 1..Len(o)
      /\ Len(p) \in Nat /\ DOMAIN p = 1..Len(p)
      /\ Listed(o \o p)
      /\ DOMAIN (o \o p) = 1..(Len(o) + Len(p))
  BY ListedLength, Joined
<1>2. ASSUME NEW path, NEW name, <<path, name>> \in d
      PROVE  \E i \in 1..Len(o) : Defines(o \o p, i, path, name)
  <2>1. PICK i \in 1..Len(o) : Defines(o, i, path, name)
    BY <1>1, <1>2 DEF Covered
  <2> QED
    BY <2>1, Joined DEF Defines
<1>3. Covered(d, o \o p)
  <2> SUFFICES ASSUME NEW path, NEW name, <<path, name>> \in d
               PROVE  \E i \in DOMAIN (o \o p) : Defines(o \o p, i, path, name)
    BY DEF Covered
  <2>1. PICK i \in 1..Len(o) : Defines(o \o p, i, path, name)
    BY <1>2
  <2> QED
    BY <1>1, <2>1
<1>4. ASSUME NEW j \in DOMAIN (o \o p), (o \o p)[j].is = "layer",
             (o \o p)[j].path # <<>>
      PROVE  \E i \in 1..j : Defines(o \o p, i, (o \o p)[j].path, (o \o p)[j].name)
  <2>1. CASE j <= Len(o)
    <3>1. j \in DOMAIN o /\ (o \o p)[j] = o[j]
      BY <1>1, <2>1, Joined
    <3>2. PICK i \in 1..j : Defines(o, i, o[j].path, o[j].name)
      BY <1>4, <3>1 DEF InOrder
    <3>3. i \in 1..Len(o)
      BY <1>1, <2>1
    <3> QED
      BY <3>1, <3>2, <3>3, Joined DEF Defines
  <2>2. CASE j > Len(o)
    <3>1. j - Len(o) \in DOMAIN p /\ j = Len(o) + (j - Len(o))
      BY <1>1, <2>2
    <3>2. (o \o p)[j] = p[j - Len(o)]
      BY <1>1, <3>1, Joined
    <3>3. <<(o \o p)[j].path, (o \o p)[j].name>> \in d
      BY <1>4, <3>1, <3>2 DEF Among
    <3>4. PICK i \in 1..Len(o) :
             Defines(o \o p, i, (o \o p)[j].path, (o \o p)[j].name)
      BY <1>2, <3>3
    <3>5. i \in 1..j
      BY <1>1, <2>2
    <3> QED
      BY <3>4, <3>5
  <2> QED
    BY <1>1, <2>1, <2>2
<1> QED
  BY <1>1, <1>3, <1>4 DEF InOrder

LEMMA WithoutLayers ==
  ASSUME NEW p, NoLayers(p), NEW d
  PROVE  Listed(p) /\ Among(p, d)
BY DEF NoLayers, Among

-----------------------------------------------------------------------------
(***************************************************************************)
(* The state of the writer.                                                *)
(***************************************************************************)
CallsIn(c, n) ==
  /\ Listed(c)
  /\ \A i \in DOMAIN c : "node" \in DOMAIN c[i] /\ c[i].node \in 1..n

\* A name that has got scopes is the name of a layer that has been defined.
ScopedIn(list, d) ==
  \A v \in DOMAIN list : \A i \in DOMAIN list[v].tokens :
    LET t == list[v].tokens[i]
    IN  t.path # <<>> => <<t.path, t.name>> \in d

WriterInv ==
  /\ deck \in Decks
  /\ nodes \in Seq(Node)
  /\ Len(nodes) = Len(deck.nodes)
  /\ at \in Nat \ {0}
  /\ CallsIn(calls, Len(nodes))
  /\ Listed(out)
  /\ ~deck.keepTmp =>
       /\ ~collecting
       /\ ScopedIn(nodes, defLayers)
       /\ Covered(defLayers, out)
       /\ InOrder(out)

LEMMA DeckFacts ==
  ASSUME deck \in Decks
  PROVE  /\ deck.nodes \in Seq(Node)
         /\ DOMAIN deck.nodes = 1..Len(deck.nodes) /\ Len(deck.nodes) \in Nat
         /\ \A n \in TmpLayers : deck.tmpLayers[n] \in 1..Len(deck.nodes)
         /\ deck.keepTmp \in BOOLEAN
BY DecksAssumption, LenProperties DEF TmpLayers

LEMMA NodeFacts ==
  ASSUME nodes \in Seq(Node)
  PROVE  /\ Len(nodes) \in Nat /\ DOMAIN nodes = 1..Len(nodes)
         /\ \A v \in DOMAIN nodes :
              /\ nodes[v] \in Node
              /\ nodes[v].tokens \in Seq(Token)
              /\ DOMAIN nodes[v].tokens = 1..Len(nodes[v].tokens)
              /\ Len(nodes[v].tokens) \in Nat
              /\ \A i \in DOMAIN nodes[v].tokens : nodes[v].tokens[i] \in Token
<1>1. Len(nodes) \in Nat /\ DOMAIN nodes = 1..Len(nodes)
  BY LenProperties
<1>2. ASSUME NEW v \in DOMAIN nodes
      PROVE  nodes[v] \in Node /\ nodes[v].tokens \in Seq(Token)
  <2>1. nodes[v] \in Node
    BY <1>1, ElementOfSeq
  <2> QED
    BY <2>1 DEF Node
<1>3. ASSUME NEW s \in Seq(Token)
      PROVE  /\ DOMAIN s = 1..Len(s) /\ Len(s) \in Nat
             /\ \A i \in DOMAIN s : s[i] \in Token
  BY LenProperties, ElementOfSeq
<1> QED
  BY <1>1, <1>2, <1>3

\* The innermost call, and the list that it reads.
LEMMA HereFacts ==
  ASSUME WriterInv, calls # <<>>
  PROVE  /\ Len(calls) \in Nat \ {0} /\ DOMAIN calls = 1..Len(calls)
         /\ Innermost.node \in DOMAIN nodes
         /\ \A i \in DOMAIN Tokens : Tokens[i] \in Token
         /\ DOMAIN Tokens = 1..Len(Tokens) /\ Len(Tokens) \in Nat
         /\ ~deck.keepTmp => \A i \in DOMAIN Tokens :
              Tokens[i].path # <<>> => <<Tokens[i].path, Tokens[i].name>> \in defLayers
<1>1. Len(calls) \in Nat \ {0} /\ DOMAIN calls = 1..Len(calls)
  <2> DEFINE A == {calls[i] : i \in DOMAIN calls}
  <2>1. calls \in Seq(A)
    BY DEF WriterInv, CallsIn, Listed
  <2> HIDE DEF A
  <2> QED
    BY <2>1, EmptySeq, LenProperties
<1>2. Innermost.node \in DOMAIN nodes
  BY <1>1, NodeFacts DEF WriterInv, CallsIn, Innermost
<1> QED
  BY <1>1, <1>2, NodeFacts DEF WriterInv, ScopedIn, Tokens, Here

LEMMA MovedCalls ==
  ASSUME NEW c, NEW n, CallsIn(c, n), c # <<>>, NEW pos, NEW option, NEW step
  PROVE  /\ CallsIn([c EXCEPT ![Len(c)].pos = pos, ![Len(c)].option = option], n)
         /\ CallsIn([c EXCEPT ![Len(c)].pos = pos, ![Len(c)].option = option,
                              ![Len(c)].step = step], n)
<1>1. ASSUME NEW d, DOMAIN d = DOMAIN c, d = [i \in DOMAIN c |-> d[i]]
      PROVE  Listed(d)
  <2> DEFINE D == {d[i] : i \in DOMAIN d}
  <2>1. DOMAIN d = 1..Len(c) /\ Len(c) \in Nat
    BY <1>1, ListedLength DEF CallsIn
  <2>2. d \in [1..Len(c) -> D]
    BY <1>1, <2>1
  <2> HIDE DEF D
  <2>3. d \in Seq(D)
    BY <2>1, <2>2, SeqDef
  <2> QED
    BY <2>3 DEF Listed, D
<1> DEFINE d1 == [c EXCEPT ![Len(c)].pos = pos, ![Len(c)].option = option]
           d2 == [c EXCEPT ![Len(c)].pos = pos, ![Len(c)].option = option,
                              ![Len(c)].step = step]
<1>2. CallsIn(d1, n)
  <2>1. Listed(d1)
    BY <1>1
  <2>2. ASSUME NEW i \in DOMAIN d1
        PROVE  "node" \in DOMAIN d1[i] /\ d1[i].node \in 1..n
    BY DEF CallsIn
  <2> QED
    BY <2>1, <2>2 DEF CallsIn
<1>3. CallsIn(d2, n)
  <2>1. Listed(d2)
    BY <1>1
  <2>2. ASSUME NEW i \in DOMAIN d2
        PROVE  "node" \in DOMAIN d2[i] /\ d2[i].node \in 1..n
    BY DEF CallsIn
  <2> QED
    BY <2>1, <2>2 DEF CallsIn
<1> QED
  BY <1>2, <1>3

\* The innermost call ends, or another one begins in it.
LEMMA EndedCall ==
  ASSUME NEW c, NEW n, CallsIn(c, n), c # <<>>
  PROVE  CallsIn(Front(c), n)
<1> DEFINE A == {c[i] : i \in DOMAIN c}
           F == {Front(c)[i] : i \in DOMAIN Front(c)}
<1>1. c \in Seq(A) /\ Len(c) \in Nat \ {0} /\ DOMAIN c = 1..Len(c)
  <2>1. c \in Seq(A)
    BY DEF CallsIn, Listed
  <2> HIDE DEF A
  <2> QED
    BY <2>1, EmptySeq, LenProperties
<1>2. /\ Front(c) \in Seq(A) /\ Len(Front(c)) = Len(c) - 1
      /\ \A i \in 1..(Len(c) - 1) : Front(c)[i] = c[i]
  <2>1. \A i \in 1..(Len(c) - 1) : c[i] \in A
    BY <1>1
  <2> HIDE DEF A
  <2> QED
    BY <1>1, <2>1, SubSeqProperties DEF Front
<1>3. Front(c) \in [1..(Len(c) - 1) -> F]
  <2>1. Front(c) \in [1..(Len(c) - 1) -> A]
    <3> HIDE DEF A
    <3> QED
      BY <1>2, LenProperties
  <2> QED
    BY <2>1
<1>4. Front(c) \in Seq(F)
  <2> HIDE DEF F
  <2> QED
    BY <1>1, <1>3, SeqDef
<1>5. ASSUME NEW i \in DOMAIN Front(c)
      PROVE  i \in DOMAIN c /\ Front(c)[i] = c[i]
  BY <1>1, <1>2, <1>3
<1> QED
  BY <1>4, <1>5 DEF CallsIn, Listed

LEMMA BegunCall ==
  ASSUME NEW c, NEW n, CallsIn(c, n), NEW new,
         "node" \in DOMAIN new, new.node \in 1..n
  PROVE  CallsIn(Append(c, new), n)
<1> DEFINE d == Append(c, new)
           A == {c[i] : i \in DOMAIN c} \cup {new}
           D == {d[i] : i \in DOMAIN d}
<1>1. c \in Seq(A)
  BY SeqMonotonic DEF CallsIn, Listed
<1>2. /\ d \in Seq(A) /\ Len(d) = Len(c) + 1 /\ Len(c) \in Nat
      /\ DOMAIN c = 1..Len(c) /\ d \in [1..(Len(c) + 1) -> A]
      /\ \A i \in 1..Len(c) : d[i] = c[i]
      /\ d[Len(c) + 1] = new
  <2>1. new \in A
    OBVIOUS
  <2> HIDE DEF A
  <2>2. d \in Seq(A) /\ Len(d) = Len(c) + 1 /\ Len(c) \in Nat
        /\ DOMAIN c = 1..Len(c)
    BY <1>1, <2>1, AppendProperties, LenProperties
  <2>3. \A i \in 1..Len(c) : d[i] = c[i]
    BY <1>1, <2>1, AppendProperties
  <2>4. d[Len(c) + 1] = new
    BY <1>1, <2>1, AppendProperties
  <2>5. d \in [1..(Len(c) + 1) -> A]
    <3> HIDE DEF d
    <3> QED
      BY <2>2, LenProperties
  <2> QED
    BY <2>2, <2>3, <2>4, <2>5
<1>3. d \in [1..(Len(c) + 1) -> D]
  <2> HIDE DEF A, d
  <2> QED
    BY <1>2
<1>4. d \in Seq(D)
  <2> HIDE DEF D, d
  <2> QED
    BY <1>2, <1>3, SeqDef
<1>5. ASSUME NEW i \in DOMAIN d
      PROVE  "node" \in DOMAIN d[i] /\ d[i].node \in 1..n
  <2>1. i \in 1..(Len(c) + 1)
    BY <1>2
  <2>2. i \in 1..Len(c) \/ i = Len(c) + 1
    BY <1>2, <2>1
  <2> HIDE DEF d
  <2> QED
    BY <1>2, <2>2 DEF CallsIn
<1> QED
  BY <1>4, <1>5 DEF CallsIn, Listed

-----------------------------------------------------------------------------
(***************************************************************************)
(* Steps that write no layers.                                             *)
(***************************************************************************)
LEMMA StopInv ==
  ASSUME WriterInv, NEW how, Stop(how)
  PROVE  WriterInv'
BY DEF WriterInv, Stop

LEMMA WrittenInv ==
  ASSUME WriterInv, NEW p, NoLayers(p), out' = out \o p,
         UNCHANGED <<deck, nodes, collecting, defLayers>>,
         at' \in Nat \ {0}, CallsIn(calls', Len(nodes))
  PROVE  WriterInv'
<1>1. Listed(p) /\ Among(p, defLayers)
  BY WithoutLayers
<1>2. Listed(out')
  BY <1>1, Joined DEF WriterInv
<1>3. ~deck.keepTmp => Covered(defLayers, out') /\ InOrder(out')
  BY <1>1, Continued DEF WriterInv
<1> QED
  BY <1>2, <1>3 DEF WriterInv

LEMMA WriteStepInv ==
  ASSUME WriterInv, calls # <<>>, NEW p, NoLayers(p), NEW i, NEW step,
         WriteStep(p, i, step)
  PROVE  WriterInv'
<1>1. CallsIn(calls', Len(nodes))
  BY MovedCalls DEF WriterInv, WriteStep, MovedTo
<1> QED
  BY <1>1, WrittenInv DEF WriteStep, WriterInv

LEMMA WriteInv ==
  ASSUME WriterInv, calls # <<>>, NEW p, NoLayers(p), NEW i, Write(p, i)
  PROVE  WriterInv'
BY WriteStepInv DEF Write

LEMMA PlainPieces ==
  /\ \A word : Text(word).is # "layer" /\ Open(word).is # "layer"
  /\ \A text : Number(text).is # "layer"
  /\ \A token : Defined(token).is # "layer"
  /\ Close.is # "layer"
BY DEF Text, Open, Number, Defined, Close, Piece

LEMMA EchoPieces == NoLayers(Echo)
BY NoPieces, OnePiece, PlainPieces DEF Echo

LEMMA HeadPieces ==
  ASSUME NEW v
  PROVE  NoLayers(Heads(v))
BY OnePiece, TwoPieces, PlainPieces DEF Heads

\* A temporary layer is written where its name is.
LEMMA ExpandInv ==
  ASSUME WriterInv, calls # <<>>, NEW p, NoLayers(p), NEW i, IsTmpName(i),
         NEW back, Expand(p, i, back)
  PROVE  WriterInv'
<1> DEFINE v == deck.tmpLayers[Tokens[i].name]
<1>1. v \in 1..Len(nodes)
  BY DeckFacts DEF WriterInv, IsTmpName, IsTmpLayer
<1>2. CASE NotConverted(v)
  <2>1. Write(p, back)
    BY <1>2 DEF Expand
  <2> QED
    BY <2>1, WriteInv
<1>3. CASE ~NotConverted(v) /\ WithoutName(v)
  <2>1. Stop("undefined")
    BY <1>3 DEF Expand
  <2> QED
    BY <2>1, StopInv
<1>4. CASE ~NotConverted(v) /\ ~WithoutName(v) /\ BadName(v)
  <2>1. Stop("thrown")
    BY <1>4 DEF Expand, Throw
  <2> QED
    BY <2>1, StopInv
<1>5. CASE ~NotConverted(v) /\ ~WithoutName(v) /\ ~BadName(v)
  <2>1. /\ out' = out \o p \o Heads(v)
        /\ calls' = Append(MovedTo(back, ""), Begun(v))
        /\ UNCHANGED <<deck, nodes, collecting, at, defLayers>>
    BY <1>5 DEF Expand
  <2>2. CallsIn(MovedTo(back, ""), Len(nodes))
    BY MovedCalls DEF WriterInv, MovedTo
  <2>3. "node" \in DOMAIN Begun(v) /\ Begun(v).node = v
    BY DEF Begun
  <2>4. CallsIn(calls', Len(nodes))
    BY <1>1, <2>1, <2>2, <2>3, BegunCall
  <2>5. NoLayers(p \o Heads(v))
    BY HeadPieces, JoinedPieces
  <2>6. out' = out \o (p \o Heads(v))
    <3>1. Listed(out) /\ Listed(p) /\ Listed(Heads(v))
      BY HeadPieces DEF WriterInv, NoLayers
    <3> DEFINE h == Heads(v)
    <3>2. Listed(h) /\ out' = out \o p \o h
      BY <2>1, <3>1
    <3> HIDE DEF h
    <3>3. out' = out \o (p \o h)
      BY <3>1, <3>2, Associated
    <3> QED
      BY <3>3 DEF h
  <2> QED
    BY <2>1, <2>4, <2>5, <2>6, WrittenInv DEF WriterInv
<1> QED
  BY <1>2, <1>3, <1>4, <1>5

-----------------------------------------------------------------------------
(***************************************************************************)
(* Layers that are written.                                                *)
(***************************************************************************)
\* getRealLayerName(): the scopes that are put in front of a name are those
\* of a layer that has been defined.
LEMMA RealFacts ==
  ASSUME NEW t \in Token
  PROVE  /\ Real(t) \in Token
         /\ Real(t).name = t.name
         /\ \/ Real(t).path = t.path
            \/ <<Real(t).path, t.name>> \in defLayers
<1>1. CASE ~Scoped(t)
  BY <1>1 DEF Real
<1>2. CASE Scoped(t) /\ DefinedScopes(t) = {}
  BY <1>2 DEF Real, Token, TokenTypes
<1>3. CASE Scoped(t) /\ DefinedScopes(t) # {}
  <2>1. /\ t.scopes \in Seq(STRING) /\ t.path \in Seq(STRING)
        /\ DOMAIN t.scopes = 1..Len(t.scopes) /\ Len(t.scopes) \in Nat
    BY LenProperties DEF Token
  <2>2. DefinedScopes(t) \in SUBSET (0..Len(t.scopes))
    BY <2>1 DEF DefinedScopes
  <2>3. Max(DefinedScopes(t)) \in DefinedScopes(t)
    <3>1. \E x \in DefinedScopes(t) : \A y \in DefinedScopes(t) : y <= x
      BY <1>3, <2>1, <2>2, MaxOfSegment
    <3>2. \E x \in DefinedScopes(t) : \A y \in DefinedScopes(t) : x >= y
      BY <2>1, <2>2, <3>1
    <3> QED
      BY <3>2 DEF Max
  <2> DEFINE k == Max(DefinedScopes(t))
             path == SubSeq(t.scopes, 1, k) \o t.path
  <2>4. k \in 1..Len(t.scopes) /\ <<path, t.name>> \in defLayers
    BY <2>1, <2>3 DEF DefinedScopes, FullName
  <2>5. path \in Seq(STRING)
    <3>1. \A i \in 1..k : t.scopes[i] \in STRING
      BY <2>1, <2>4, ElementOfSeq
    <3>2. SubSeq(t.scopes, 1, k) \in Seq(STRING)
      BY <2>4, <3>1, SubSeqProperties
    <3> QED
      BY <2>1, <3>2, ConcatProperties
  <2>6. Real(t) = [t EXCEPT !.type = "STRING", !.path = path]
    BY <1>3 DEF Real
  <2> HIDE DEF path
  <2> QED
    BY <2>4, <2>5, <2>6 DEF Token, TokenTypes
<1> QED
  BY <1>1, <1>2, <1>3

LEMMA LayerRefFacts ==
  ASSUME WriterInv, calls # <<>>, NEW i, LayerRef(i).is = "layer"
  PROVE  /\ LayerRef(i).token \in Token
         /\ ~deck.keepTmp /\ LayerRef(i).token.path # <<>> =>
              <<LayerRef(i).token.path, LayerRef(i).token.name>> \in defLayers
<1> DEFINE t == Tokens[i]
<1>1. i \in DOMAIN Tokens
  BY DEF LayerRef
<1>2. \/ LayerRef(i).token = Real(t)
      \/ LayerRef(i).token = t
      \/ i < Len(Tokens) /\ LayerRef(i).token = Tokens[i + 1]
  BY <1>1 DEF LayerRef
<1>3. i + 1 \in DOMAIN Tokens \/ ~(i < Len(Tokens))
  BY <1>1, HereFacts
<1>4. t \in Token
  BY <1>1, HereFacts
<1>5. CASE LayerRef(i).token = Real(t)
  BY <1>1, <1>4, <1>5, RealFacts, HereFacts
<1>6. CASE LayerRef(i).token = t
  BY <1>1, <1>6, HereFacts
<1>7. CASE i < Len(Tokens) /\ LayerRef(i).token = Tokens[i + 1]
  BY <1>3, <1>7, HereFacts
<1> QED
  BY <1>2, <1>5, <1>6, <1>7

LEMMA WriteLayerInv ==
  ASSUME WriterInv, calls # <<>>, NEW p, NoLayers(p), NEW i,
         LayerRef(i).is = "layer", NEW step, WriteLayer(p, LayerRef(i), step)
  PROVE  WriterInv'
<1> DEFINE ref == LayerRef(i)
           token == LayerRef(i).token
           n == Innermost.node
           j == ref.at - 1
<1>1. /\ out' = out \o p \o <<Layer(token)>>
      /\ nodes' = [nodes EXCEPT ![n].tokens[j] = token]
      /\ calls' = [MovedTo(ref.at, "") EXCEPT ![Len(calls)].step = step]
      /\ UNCHANGED <<deck, collecting, at, defLayers>>
  BY DEF WriteLayer
<1>2. /\ token \in Token
      /\ ~deck.keepTmp /\ token.path # <<>> => <<token.path, token.name>> \in defLayers
  BY LayerRefFacts
<1>3. CallsIn(calls', Len(nodes))
  BY <1>1, MovedCalls DEF WriterInv, MovedTo
<1> HIDE DEF token, ref, j
<1>4. n \in DOMAIN nodes /\ nodes[n] \in Node /\ nodes[n].tokens \in Seq(Token)
      /\ DOMAIN nodes = 1..Len(nodes) /\ nodes \in Seq(Node)
  BY HereFacts, NodeFacts DEF WriterInv
<1> HIDE DEF n
<1> DEFINE list == [nodes[n].tokens EXCEPT ![j] = token]
           node == [nodes[n] EXCEPT !.tokens = list]
<1>5. list \in Seq(Token) /\ DOMAIN list = DOMAIN nodes[n].tokens
      /\ \A k \in DOMAIN list : list[k] = IF k = j THEN token ELSE nodes[n].tokens[k]
  <2>1. DOMAIN nodes[n].tokens = 1..Len(nodes[n].tokens) /\ Len(nodes[n].tokens) \in Nat
    BY <1>4, LenProperties
  <2>2. \A k \in DOMAIN nodes[n].tokens : nodes[n].tokens[k] \in Token
    BY <1>4, <2>1, ElementOfSeq
  <2>3. list \in [1..Len(nodes[n].tokens) -> Token]
    BY <1>2, <2>1, <2>2
  <2>4. list \in Seq(Token)
    <3> HIDE DEF list
    <3> QED
      BY <2>1, <2>3, SeqDef
  <2> QED
    BY <2>4
<1> HIDE DEF list
<1>6. node \in Node /\ node.tokens = list
  BY <1>4, <1>5 DEF Node
<1>7. /\ nodes' \in Seq(Node) /\ Len(nodes') = Len(nodes)
      /\ DOMAIN nodes' = DOMAIN nodes
      /\ \A v \in DOMAIN nodes : nodes'[v] = IF v = n THEN node ELSE nodes[v]
  <2>1. nodes' = [nodes EXCEPT ![n] = node]
    BY <1>1 DEF list
  <2> HIDE DEF node
  <2> QED
    BY <1>4, <1>6, <2>1, ExceptSeq, LenProperties
<1>8. ~deck.keepTmp => ScopedIn(nodes', defLayers)
  <2> HIDE DEF node
  <2> SUFFICES ASSUME ~deck.keepTmp, NEW v \in DOMAIN nodes',
                      NEW k \in DOMAIN nodes'[v].tokens,
                      nodes'[v].tokens[k].path # <<>>
               PROVE  <<nodes'[v].tokens[k].path, nodes'[v].tokens[k].name>>
                        \in defLayers
    BY DEF ScopedIn
  <2>1. CASE v = n /\ k = j
    BY <1>2, <1>5, <1>6, <1>7, <2>1
  <2>2. CASE v = n /\ k # j
    <3>1. nodes'[v].tokens = list /\ k \in DOMAIN list
      BY <1>4, <1>6, <1>7, <2>2
    <3>2. k \in DOMAIN nodes[n].tokens /\ nodes'[v].tokens[k] = nodes[n].tokens[k]
      BY <1>5, <2>2, <3>1
    <3>3. ScopedIn(nodes, defLayers)
      BY DEF WriterInv
    <3> QED
      BY <1>4, <3>2, <3>3 DEF ScopedIn
  <2>3. CASE v # n
    BY <1>7, <2>3 DEF WriterInv, ScopedIn
  <2> QED
    BY <2>1, <2>2, <2>3
<1>9. /\ Listed(out')
      /\ ~deck.keepTmp => Covered(defLayers, out') /\ InOrder(out')
  <2> DEFINE q == <<Layer(token)>>
  <2>1. Listed(q) /\ Listed(p) /\ Listed(out) /\ Listed(out \o p)
    BY OnePiece, Joined DEF NoLayers, WriterInv
  <2>2. ~deck.keepTmp => Covered(defLayers, out \o p) /\ InOrder(out \o p)
    BY <2>1, WithoutLayers, Continued DEF WriterInv
  <2>3. ~deck.keepTmp => Among(q, defLayers)
    BY <1>2 DEF Among, Layer, Piece
  <2>4. out' = (out \o p) \o q
    BY <1>1
  <2> HIDE DEF q
  <2> QED
    BY <2>1, <2>2, <2>3, <2>4, Joined, Continued
<1> QED
  BY <1>1, <1>3, <1>7, <1>8, <1>9 DEF WriterInv

-----------------------------------------------------------------------------
(***************************************************************************)
(* Every action.                                                           *)
(***************************************************************************)
LEMMA OperandsInv ==
  ASSUME WriterInv, Operands
  PROVE  WriterInv'
<1> USE DEF AtTmp, AtOwnName, AtRest, AtOperator, AtSeparator, AtOperand, Reading, Busy
<1>1. calls # <<>>
  BY DEF Operands, OperationKeyword, TmpOperand, LayerOperand, BadOperand,
         NameOperand, NumberOperand, RejectOperand, ConstraintOperand,
         ConstraintPast, RejectConstraint, EchoConstraint, IgnoreConstraint,
         RejectOperator, OperatorAgain, EchoSeparator, SeparatorAgain, RejectSeparator
<1>2. /\ NoLayers(<<>>) /\ NoLayers(Echo)
      /\ \A word : NoLayers(<<Text(word)>>)
      /\ \A text : NoLayers(<<Number(text)>>)
  BY NoPieces, EchoPieces, OnePiece, PlainPieces
<1>3. CASE OperationKeyword
  BY <1>1, <1>2, <1>3, WriteInv DEF OperationKeyword
<1>4. CASE TmpOperand
  BY <1>1, <1>2, <1>4, ExpandInv DEF TmpOperand
<1>5. CASE LayerOperand
  BY <1>1, <1>2, <1>5, WriteLayerInv DEF LayerOperand
<1>6. CASE NameOperand
  BY <1>1, <1>2, <1>6, WriteStepInv, StopInv DEF NameOperand, Throw
<1>7. CASE NumberOperand
  <2>1. ASSUME NEW text
        PROVE  NoLayers(Append(Echo, Number(text)))
    <3>1. Append(Echo, Number(text)) = Echo \o <<Number(text)>>
      <4> DEFINE A == {Echo[i] : i \in DOMAIN Echo} \cup {Number(text)}
      <4>1. Echo \in Seq(A) /\ Number(text) \in A
        BY <1>2, SeqMonotonic DEF NoLayers, Listed
      <4> HIDE DEF A
      <4> QED
        BY <4>1, AppendIsConcat
    <3> QED
      BY <1>2, <3>1, JoinedPieces
  <2>2. PICK r \in GetNumberExp(Tokens, Pos) :
          \/ WriteStep(Append(Echo, Number(r.text)), r.at, StepAfter("number"))
          \/ Stop("undefined")
          \/ StopAt(r.at)
          \/ Endless
          \/ Write(<<>>, r.at)
          \/ WriteStep(Echo, r.at, StepAfter("number"))
    BY <1>7 DEF NumberOperand
  <2> QED
    BY <1>1, <1>2, <2>1, <2>2, WriteStepInv, WriteInv, StopInv DEF StopAt, Endless
<1>8. CASE BadOperand \/ RejectOperand \/ RejectOperator
  BY <1>8, StopInv DEF BadOperand, RejectOperand, RejectOperator, Throw
<1>9. CASE OperatorAgain \/ SeparatorAgain \/ RejectSeparator
  BY <1>9, StopInv DEF OperatorAgain, SeparatorAgain, RejectSeparator, Throw, Endless
<1>10. CASE ConstraintOperand
  BY <1>1, <1>2, <1>10, WriteInv DEF ConstraintOperand
<1>11. CASE ConstraintPast \/ RejectConstraint
  BY <1>11, StopInv DEF ConstraintPast, RejectConstraint, StopAt
<1>12. CASE EchoConstraint
  BY <1>1, <1>2, <1>12, WriteInv, StopInv DEF EchoConstraint
<1>13. CASE IgnoreConstraint
  BY <1>1, <1>2, <1>13, WriteInv, StopInv DEF IgnoreConstraint, Endless
<1>14. CASE EchoSeparator
  BY <1>1, <1>2, <1>14, WriteInv DEF EchoSeparator
<1> QED
  BY <1>3, <1>4, <1>5, <1>6, <1>7, <1>8, <1>9, <1>10, <1>11, <1>12, <1>13, <1>14
  DEF Operands

LEMMA OptionsInv ==
  ASSUME WriterInv, Options
  PROVE  WriterInv'
<1> USE DEF AtOption, Reading, Busy
<1>1. calls # <<>>
  BY DEF Options, FlagOption, OmitOption, SkipOption, PairOption, RejectPair,
         FollowOption, WordOption, NameOption, ValueOption, AfterOption,
         KeyOperand, TwoOption, LimitOption, TmpOption, TmpOptionAgain,
         LayerOption, BadLayerOption, WithoutLayer, AtLayerOption
<1>2. /\ NoLayers(<<>>)
      /\ \A word : NoLayers(<<Text(word)>>)
      /\ \A word1, word2 : NoLayers(<<Text(word1), Text(word2)>>)
      /\ \A word, text : NoLayers(<<Text(word), Number(text)>>)
  BY NoPieces, OnePiece, TwoPieces, PlainPieces
<1>3. CASE FlagOption \/ OmitOption \/ SkipOption
  BY <1>1, <1>2, <1>3, WriteInv DEF FlagOption, OmitOption, SkipOption
<1>4. CASE PairOption \/ RejectPair \/ FollowOption
  BY <1>1, <1>2, <1>4, WriteInv, StopInv
  DEF PairOption, RejectPair, FollowOption, Throw
<1>5. CASE WordOption \/ NameOption
  BY <1>1, <1>2, <1>5, WriteInv, StopInv DEF WordOption, NameOption, Throw
<1>6. CASE ValueOption
  <2>1. PICK r \in GetNumberExp(Tokens, Pos + 1) :
          \/ Write(<<Text(AtKey), Number(Sign \o r.text)>>, r.at)
          \/ Stop("undefined")
          \/ Write(<<>>, r.at)
          \/ Write(<<Text(AtKey)>>, r.at)
          \/ OperandInstead(r.at)
    BY <1>6 DEF ValueOption
  <2>2. CASE OperandInstead(r.at)
    BY <1>1, <1>2, <2>2, WriteLayerInv, StopInv DEF OperandInstead, StopAt
  <2> QED
    BY <1>1, <1>2, <2>1, <2>2, WriteInv, StopInv
<1>7. CASE AfterOption
  BY <1>1, <1>2, <1>7, WriteInv, StopInv DEF AfterOption
<1>8. CASE KeyOperand
  BY <1>1, <1>2, <1>8, WriteLayerInv, StopInv DEF KeyOperand, Throw
<1>9. CASE TwoOption
  <2>1. PICK r1 \in GetNumberExp(Tokens, Pos + 1) :
          LET first == IF r1.is = "got" THEN <<Text(AtKey), Number(r1.text)>> ELSE <<>>
          IN  \/ Stop("undefined")
              \/ Throw
              \/ \E r2 \in GetNumberExp(Tokens, r1.at) :
                   \/ Write(Append(first, Number(r2.text)), r2.at)
                   \/ Stop("undefined")
                   \/ Write(first, r2.at)
    BY <1>9 DEF TwoOption
  <2> DEFINE first == IF r1.is = "got" THEN <<Text(AtKey), Number(r1.text)>> ELSE <<>>
  <2>2. NoLayers(first)
    BY <1>2
  <2>3. ASSUME NEW text
        PROVE  NoLayers(Append(first, Number(text)))
    <3>1. NoLayers(<<Number(text)>>)
      BY OnePiece, PlainPieces
    <3>2. Append(first, Number(text)) = first \o <<Number(text)>>
      <4> DEFINE A == {first[i] : i \in DOMAIN first} \cup {Number(text)}
      <4>1. first \in Seq(A) /\ Number(text) \in A
        BY <2>2, SeqMonotonic DEF NoLayers, Listed
      <4> HIDE DEF A, first
      <4> QED
        BY <4>1, AppendIsConcat
    <3> HIDE DEF first
    <3> QED
      BY <2>2, <3>1, <3>2, JoinedPieces
  <2> HIDE DEF first
  <2>4. \/ Stop("undefined")
        \/ Throw
        \/ \E r2 \in GetNumberExp(Tokens, r1.at) :
              \/ Write(Append(first, Number(r2.text)), r2.at)
              \/ Write(first, r2.at)
    BY <2>1 DEF first
  <2> QED
    BY <1>1, <2>2, <2>3, <2>4, WriteInv, StopInv DEF Throw
<1>10. CASE LimitOption
  <2>1. PICK r \in GetConstraint(Tokens, Pos + 1) :
          \/ Stop("undefined")
          \/ Write(<<>>, r.at)
          \/ Write(<<Text(AtKey), Number(r.text)>>, r.at)
    BY <1>10 DEF LimitOption
  <2> QED
    BY <1>1, <1>2, <2>1, WriteInv, StopInv
<1>11. CASE TmpOption \/ TmpOptionAgain
  BY <1>1, <1>2, <1>11, ExpandInv DEF TmpOption, TmpOptionAgain
<1>12. CASE LayerOption
  BY <1>1, <1>2, <1>12, WriteLayerInv DEF LayerOption, AtLayerOption
<1>13. CASE BadLayerOption
  BY <1>13, StopInv DEF BadLayerOption
<1>14. CASE WithoutLayer
  <2>1. \/ Write(<<Text(AtKey)>>, Pos + 1)
        \/ Throw
        \/ Endless
        \/ /\ out' = Append(out, Text(AtKey))
           /\ calls' = MovedTo(Pos + 1, Otherwise)
           /\ UNCHANGED <<deck, nodes, collecting, at, defLayers, status>>
    BY <1>14 DEF WithoutLayer
  <2>2. CASE /\ out' = Append(out, Text(AtKey))
             /\ calls' = MovedTo(Pos + 1, Otherwise)
             /\ UNCHANGED <<deck, nodes, collecting, at, defLayers, status>>
    <3>1. CallsIn(calls', Len(nodes))
      BY <1>1, <2>2, MovedCalls DEF WriterInv, MovedTo
    <3>2. out' = out \o <<Text(AtKey)>>
      <4> DEFINE A == {out[i] : i \in DOMAIN out} \cup {Text(AtKey)}
      <4>1. out \in Seq(A) /\ Text(AtKey) \in A
        BY SeqMonotonic DEF WriterInv, Listed
      <4> HIDE DEF A
      <4> QED
        BY <2>2, <4>1, AppendIsConcat
    <3> QED
      BY <1>2, <2>2, <3>1, <3>2, WrittenInv DEF WriterInv
  <2> QED
    BY <1>1, <1>2, <2>1, <2>2, WriteInv, StopInv DEF Throw, Endless
<1> QED
  BY <1>3, <1>4, <1>5, <1>6, <1>7, <1>8, <1>9, <1>10, <1>11, <1>12, <1>13, <1>14
  DEF Options

LEMMA WrittenAsIsInv ==
  ASSUME WriterInv, Written
  PROVE  WriterInv'
<1>1. calls # <<>>
  BY DEF Written, OwnKeyword, TmpArgument, Argument, Arguing, Busy
<1>2. NoLayers(<<>>) /\ \A word : NoLayers(<<Text(word)>>)
  BY NoPieces, OnePiece, PlainPieces
<1>3. CASE OwnKeyword
  BY <1>1, <1>2, <1>3, WriteInv DEF OwnKeyword
<1>4. CASE TmpArgument
  BY <1>1, <1>2, <1>4, ExpandInv DEF TmpArgument
<1>5. CASE Argument
  BY <1>1, <1>2, <1>5, WriteInv, StopInv DEF Argument, Throw
<1> QED
  BY <1>3, <1>4, <1>5 DEF Written

\* A piece without a layer at the end.
LEMMA AppendedPiece ==
  ASSUME WriterInv, NEW a, a.is # "layer"
  PROVE  NoLayers(<<a>>) /\ Append(out, a) = out \o <<a>>
<1> DEFINE A == {out[i] : i \in DOMAIN out} \cup {a}
<1>1. out \in Seq(A) /\ a \in A
  BY SeqMonotonic DEF WriterInv, Listed
<1>2. Append(out, a) = out \o <<a>>
  <2> HIDE DEF A
  <2> QED
    BY <1>1, AppendIsConcat
<1> QED
  BY <1>2, OnePiece

LEMMA ReturnInv ==
  ASSUME WriterInv, Return
  PROVE  WriterInv'
<1>1. CallsIn(calls', Len(nodes))
  BY EndedCall DEF WriterInv, Return, Busy
<1>2. at' \in Nat \ {0}
  BY DEF WriterInv, Return
<1>3. NoLayers(<<Close>>) /\ out' = out \o <<Close>>
  BY AppendedPiece, PlainPieces DEF Return
<1> QED
  BY <1>1, <1>2, <1>3, WrittenInv DEF Return

LEMMA NextNodeInv ==
  ASSUME WriterInv, NEW p, NoLayers(p), NextNode(p), UNCHANGED <<nodes, defLayers>>
  PROVE  WriterInv'
<1>1. at' \in Nat \ {0} /\ CallsIn(calls', Len(nodes))
  BY DEF WriterInv, NextNode
<1> QED
  BY <1>1, WrittenInv DEF NextNode

\* The operation of a visited node begins.
LEMMA BegunVisit ==
  ASSUME WriterInv, at <= Len(nodes), calls = <<>>
  PROVE  CallsIn(<<Begun(at)>>, Len(nodes))
<1>1. "node" \in DOMAIN Begun(at) /\ Begun(at).node = at
  BY DEF Begun
<1>2. at \in 1..Len(nodes)
  BY NodeFacts DEF WriterInv
<1>3. <<Begun(at)>> = Append(calls, Begun(at))
  OBVIOUS
<1> QED
  BY <1>1, <1>2, <1>3, BegunCall DEF WriterInv

LEMMA BeginOperationInv ==
  ASSUME WriterInv, at <= Len(nodes), calls = <<>>,
         NEW p, NoLayers(p), BeginOperation(p)
  PROVE  /\ CallsIn(calls', Len(nodes)) /\ at' \in Nat \ {0}
         /\ UNCHANGED <<deck, collecting>>
         /\ \E q : NoLayers(q) /\ out' = out \o p \o q
<1>1. Listed(out \o p)
  BY Joined DEF WriterInv, NoLayers
<1>2. (out \o p) \o <<>> = out \o p
  <2> DEFINE s == out \o p
             A == {s[i] : i \in DOMAIN s}
  <2>1. s \in Seq(A)
    BY <1>1 DEF Listed
  <2> HIDE DEF A, s
  <2>2. s \o <<>> = s
    BY <2>1, ConcatEmptySeq
  <2> QED
    BY <2>2 DEF s
<1>3. CASE NotConverted(at)
  <2>1. NextNode(p)
    BY <1>3 DEF BeginOperation
  <2>2. out' = out \o p \o <<>>
    BY <1>2, <2>1 DEF NextNode
  <2>3. CallsIn(calls', Len(nodes)) /\ at' \in Nat \ {0}
        /\ UNCHANGED <<deck, collecting>>
    BY <2>1 DEF NextNode, WriterInv
  <2> QED
    BY <2>2, <2>3, NoPieces
<1>4. CASE ~NotConverted(at) /\ (WithoutName(at) \/ BadName(at))
  <2>1. out' = out \o p /\ UNCHANGED <<deck, collecting, at, calls>>
    BY <1>4 DEF BeginOperation
  <2>2. out' = out \o p \o <<>>
    BY <1>2, <2>1
  <2> QED
    BY <2>1, <2>2, NoPieces DEF WriterInv
<1>5. CASE ~NotConverted(at) /\ ~WithoutName(at) /\ ~BadName(at)
  <2>1. /\ out' = out \o p \o Heads(at)
        /\ calls' = <<Begun(at)>>
        /\ UNCHANGED <<deck, collecting, at>>
    BY <1>5 DEF BeginOperation
  <2>2. NoLayers(Heads(at))
    BY HeadPieces
  <2> QED
    BY <2>1, <2>2, BegunVisit DEF WriterInv
<1> QED
  BY <1>3, <1>4, <1>5

\* The head of a definition, with all its scopes.
LEMMA HeadFacts ==
  ASSUME WriterInv, at <= Len(nodes)
  PROVE  /\ AllName(nodes[at].head) \in Token
         /\ at \in DOMAIN nodes /\ nodes[at] \in Node
<1>1. at \in DOMAIN nodes /\ nodes[at] \in Node
  BY NodeFacts DEF WriterInv
<1>2. nodes[at].head \in Token
  BY <1>1 DEF Node
<1>3. ASSUME NEW t \in Token
      PROVE  AllName(t) \in Token
  <2>1. t.scopes \o t.path \in Seq(STRING)
    BY ConcatProperties DEF Token
  <2> QED
    BY <2>1 DEF AllName, Token, TokenTypes
<1> QED
  BY <1>1, <1>2, <1>3

LEMMA DefinitionInv ==
  ASSUME WriterInv, VisitLayerDefinition
  PROVE  WriterInv'
<1> DEFINE head == AllName(nodes[at].head)
           new == IF Scoped(head) THEN {<<head.path, head.name>>} ELSE {}
           p == <<Defined(head)>>
<1>1. at <= Len(nodes) /\ calls = <<>>
  BY DEF VisitLayerDefinition, Visiting
<1>2. CASE Conflicts(head)
  <2>1. Throw
    BY <1>2 DEF VisitLayerDefinition
  <2> QED
    BY <2>1, StopInv DEF Throw
<1>3. CASE ~Conflicts(head)
  <2>1. /\ nodes' = [nodes EXCEPT ![at].head = head]
        /\ defLayers' = defLayers \cup new
        /\ IF collecting THEN NextNode(<<>>) ELSE BeginOperation(p)
    BY <1>3 DEF VisitLayerDefinition
  <2>2. at \in DOMAIN nodes /\ nodes[at] \in Node /\ head \in Token
        /\ nodes \in Seq(Node) /\ DOMAIN nodes = 1..Len(nodes)
    BY <1>1, HeadFacts, NodeFacts DEF WriterInv
  <2> HIDE DEF head
  <2> DEFINE node == [nodes[at] EXCEPT !.head = head]
  <2>3. node \in Node /\ node.tokens = nodes[at].tokens
    BY <2>2 DEF Node
  <2>4. /\ nodes' \in Seq(Node) /\ Len(nodes') = Len(nodes)
        /\ DOMAIN nodes' = DOMAIN nodes
        /\ \A v \in DOMAIN nodes : nodes'[v].tokens = nodes[v].tokens
    <3>1. nodes' = [nodes EXCEPT ![at] = node]
      BY <2>1
    <3> HIDE DEF node
    <3> QED
      BY <2>2, <2>3, <3>1, ExceptSeq, LenProperties
  <2>5. ~deck.keepTmp => ScopedIn(nodes', defLayers')
    <3>1. defLayers \subseteq defLayers'
      BY <2>1
    <3>2. ~deck.keepTmp => ScopedIn(nodes, defLayers)
      BY DEF WriterInv
    <3> SUFFICES ASSUME ~deck.keepTmp, NEW v \in DOMAIN nodes',
                        NEW k \in DOMAIN nodes'[v].tokens,
                        nodes'[v].tokens[k].path # <<>>
                 PROVE  <<nodes'[v].tokens[k].path, nodes'[v].tokens[k].name>>
                          \in defLayers'
      BY DEF ScopedIn
    <3>3. v \in DOMAIN nodes /\ nodes'[v].tokens = nodes[v].tokens
      BY <2>4
    <3>4. <<nodes[v].tokens[k].path, nodes[v].tokens[k].name>> \in defLayers
      BY <3>2, <3>3 DEF ScopedIn
    <3> QED
      BY <3>1, <3>3, <3>4
  <2>6. CASE collecting
    <3>1. NextNode(<<>>) /\ deck.keepTmp
      BY <2>1, <2>6, DeckFacts DEF WriterInv
    <3>2. Listed(out')
      BY <3>1, NoPieces, Joined DEF WriterInv, NextNode, NoLayers
    <3> QED
      BY <2>4, <3>1, <3>2 DEF WriterInv, NextNode
  <2>7. CASE ~collecting
    <3>1. NoLayers(p)
      BY OnePiece, PlainPieces
    <3>2. BeginOperation(p)
      BY <2>1, <2>7
    <3>3. /\ CallsIn(calls', Len(nodes)) /\ at' \in Nat \ {0}
          /\ UNCHANGED <<deck, collecting>>
          /\ \E q : NoLayers(q) /\ out' = out \o p \o q
      <4> HIDE DEF p
      <4> QED
        BY <1>1, <3>1, <3>2, BeginOperationInv
    <3>4. PICK q : NoLayers(q) /\ out' = out \o p \o q
      BY <3>3
    <3>5. Listed(out) /\ Listed(p) /\ Listed(q) /\ Listed(out \o p) /\ Listed(out')
      BY <3>1, <3>4, Joined DEF WriterInv, NoLayers
    <3>6. ASSUME ~deck.keepTmp
          PROVE  Covered(defLayers', out') /\ InOrder(out')
      <4>1. Covered(defLayers, out \o p) /\ InOrder(out \o p)
        BY <3>1, <3>5, <3>6, WithoutLayers, Continued DEF WriterInv
      <4>2. \E i \in DOMAIN (out \o p) : Defines(out \o p, i, head.path, head.name)
        <5>1. /\ Len(p) = 1 /\ p[1] = Defined(head)
              /\ Len(out) \in Nat /\ Len(out \o p) = Len(out) + 1
              /\ DOMAIN (out \o p) = 1..(Len(out) + 1)
          BY <3>5, Joined, ListedLength
        <5>2. (out \o p)[Len(out) + 1] = Defined(head)
          <6> HIDE DEF p
          <6> QED
            BY <3>5, <5>1, Joined
        <5> HIDE DEF p
        <5>3. Defines(out \o p, Len(out) + 1, head.path, head.name)
          BY <5>2 DEF Defines, Defined, Piece
        <5> QED
          BY <5>1, <5>3
      <4>3. Covered(defLayers', out \o p)
        <5> HIDE DEF p
        <5> SUFFICES ASSUME NEW path, NEW name, <<path, name>> \in defLayers'
                     PROVE  \E i \in DOMAIN (out \o p) : Defines(out \o p, i, path, name)
          BY DEF Covered
        <5>1. CASE <<path, name>> \in defLayers
          BY <4>1, <5>1 DEF Covered
        <5>2. CASE <<path, name>> \notin defLayers
          <6>1. path = head.path /\ name = head.name
            BY <2>1, <5>2
          <6> QED
            BY <4>2, <6>1
        <5> QED
          BY <5>1, <5>2
      <4> HIDE DEF p
      <4> QED
        BY <3>4, <3>5, <4>1, <4>3, WithoutLayers, Continued
    <3> QED
      BY <2>4, <2>5, <3>3, <3>5, <3>6 DEF WriterInv
  <2> QED
    BY <2>6, <2>7
<1> QED
  BY <1>2, <1>3

LEMMA VisitsInv ==
  ASSUME WriterInv, Visits
  PROVE  WriterInv'
<1>1. /\ NoLayers(<<>>)
      /\ \A word : NoLayers(<<Text(word)>>)
      /\ \A word1, word2 : NoLayers(<<Text(word1), Text(word2)>>)
  BY NoPieces, OnePiece, TwoPieces, PlainPieces
<1>2. CASE VisitLayerDefinition
  BY <1>2, DefinitionInv
<1>3. CASE VisitTmpLayer
  BY <1>1, <1>3, NextNodeInv DEF VisitTmpLayer
<1>4. CASE VisitLayerOperation
  <2>1. CASE collecting
    BY <1>1, <1>4, <2>1, NextNodeInv DEF VisitLayerOperation
  <2>2. CASE ~collecting
    <3>1. BeginOperation(<<>>) /\ at <= Len(nodes) /\ calls = <<>>
          /\ UNCHANGED <<nodes, defLayers>>
      BY <1>4, <2>2 DEF VisitLayerOperation, Visiting
    <3>2. /\ CallsIn(calls', Len(nodes)) /\ at' \in Nat \ {0}
          /\ UNCHANGED <<deck, collecting>>
          /\ \E q : NoLayers(q) /\ out' = out \o <<>> \o q
      BY <1>1, <3>1, BeginOperationInv
    <3>3. out \o <<>> = out
      <4> DEFINE A == {out[i] : i \in DOMAIN out}
      <4>1. out \in Seq(A)
        BY DEF WriterInv, Listed
      <4> HIDE DEF A
      <4> QED
        BY <4>1, ConcatEmptySeq
    <3> QED
      BY <3>1, <3>2, <3>3, WrittenInv
  <2> QED
    BY <2>1, <2>2
<1>5. CASE VisitRuleCheck
  BY <1>1, <1>5, NextNodeInv, StopInv DEF VisitRuleCheck, Throw
<1>6. CASE VisitText \/ VisitUnknow
  BY <1>1, <1>6, NextNodeInv DEF VisitText, VisitUnknow
<1>7. CASE SecondRound
  <2>1. deck.keepTmp
    BY <1>7, DeckFacts DEF SecondRound, WriterInv
  <2> QED
    BY <1>7, <2>1 DEF SecondRound, WriterInv
<1>8. CASE Finish
  BY <1>8, StopInv DEF Finish
<1> QED
  BY <1>2, <1>3, <1>4, <1>5, <1>6, <1>7, <1>8 DEF Visits

LEMMA InitWriterInv ==
  ASSUME Init
  PROVE  WriterInv
<1>1. deck \in Decks /\ nodes = deck.nodes /\ out = <<>> /\ calls = <<>>
      /\ at = 1 /\ defLayers = {} /\ (~deck.keepTmp => ~collecting)
  BY DEF Init
<1>2. Listed(out) /\ Listed(calls) /\ DOMAIN out = {} /\ DOMAIN calls = {}
  <2> DEFINE e == <<>>
  <2>1. Listed(e) /\ Len(e) = 0
    BY NoPieces, EmptySeq DEF NoLayers
  <2>2. DOMAIN e = {} /\ out = e /\ calls = e
    BY <1>1, <2>1
  <2> HIDE DEF e
  <2> QED
    BY <2>1, <2>2
<1>3. ScopedIn(nodes, defLayers)
  BY <1>1, DecksAssumption DEF ScopedIn
<1>4. Covered(defLayers, out) /\ InOrder(out) /\ CallsIn(calls, Len(nodes))
  BY <1>1, <1>2 DEF Covered, InOrder, CallsIn
<1> QED
  BY <1>1, <1>2, <1>3, <1>4, DeckFacts DEF WriterInv

\* Whatever names the tree of a single round has, and whichever macros they
\* are in, a layer of a macro is written behind a definition with the same
\* scopes (beginVisitLayerDefinitionNode and getRealLayerName).
THEOREM LayersInOrder == Spec => []DefinedBefore
<1>1. Init => WriterInv
  BY InitWriterInv
<1>2. WriterInv /\ [Next]_vars => WriterInv'
  <2>1. CASE Next /\ WriterInv
    BY <2>1, OperandsInv, OptionsInv, WrittenAsIsInv, ReturnInv, VisitsInv DEF Next
  <2>2. CASE UNCHANGED vars /\ WriterInv
    BY <2>2 DEF WriterInv, vars
  <2> QED
    BY <2>1, <2>2
<1>3. WriterInv => DefinedBefore
  BY DEF WriterInv, InOrder, Defines, DefinedBefore
<1> QED
  BY <1>1, <1>2, <1>3, PTL DEF Spec

-----------------------------------------------------------------------------
(***************************************************************************)
(* The positions where the parsers of numbers end.  The list of tokens has *)
(* n - 1 elements; position n is its end.                                  *)
(***************************************************************************)
\* The provers do not know that a literal is in STRING.
Texts == STRING \cup {"(", ")", ",", "-"}

From(i, n) ==
  {r \in [is : {"got", "none", "undefined"}, at : 1..n, text : Seq(Texts)] :
     r.is # "undefined" => r.at >= i}
Moved(i, n) == {r \in From(i, n) : r.is = "got" => r.at > i}

Levels == {"exp", "term"}
Tails  == {"exp tail", "term tail"}
ResultsAt(rule, i, n) == IF rule \in Tails THEN From(i, n) ELSE Moved(i, n)

\* From position j on, the results of f are where they may be.
Placed(f, j, n) ==
  \A rule \in Rules : \A k \in j..n : f[<<rule, k>>] \subseteq ResultsAt(rule, k, n)

Same(f, g, j, n) ==
  \A rule \in Rules : \A k \in j..n : f[<<rule, k>>] = g[<<rule, k>>]

LEMMA ShortLists ==
  ASSUME NEW S, NEW a \in S, NEW b \in S
  PROVE  <<a>> \in Seq(S) /\ <<a, b>> \in Seq(S)
OBVIOUS

\* A sign in front of a text, or behind it.
LEMMA SignedText ==
  ASSUME NEW sign \in Texts, NEW text \in Seq(Texts)
  PROVE  <<sign>> \o text \in Seq(Texts) /\ text \o <<sign>> \in Seq(Texts)
<1>1. <<sign>> \in Seq(Texts)
  BY ShortLists
<1> QED
  BY <1>1, ConcatProperties

LEMMA Literals ==
  /\ "(" \in Texts /\ ")" \in Texts /\ "," \in Texts /\ "-" \in Texts
BY DEF Texts

LEMMA TokensFacts ==
  ASSUME NEW ts \in Seq(Token)
  PROVE  /\ Len(ts) \in Nat /\ DOMAIN ts = 1..Len(ts)
         /\ \A i \in 1..Len(ts) : ts[i] \in Token /\ ts[i].name \in Texts
                                  /\ <<ts[i].name>> \in Seq(Texts)
<1>1. Len(ts) \in Nat /\ DOMAIN ts = 1..Len(ts)
  BY LenProperties
<1>2. \A i \in 1..Len(ts) : ts[i] \in Token
  BY <1>1, ElementOfSeq
<1>3. \A i \in 1..Len(ts) : ts[i].name \in Texts
  BY <1>2 DEF Token, Texts
<1>4. \A i \in 1..Len(ts) : <<ts[i].name>> \in Seq(Texts)
  BY <1>3, ShortLists
<1> QED
  BY <1>1, <1>2, <1>3, <1>4

LEMMA BeforeFrom ==
  ASSUME NEW n, NEW i, NEW text \in Seq(Texts), NEW S
  PROVE  /\ S \subseteq From(i, n) => Before(text, S) \subseteq From(i, n)
         /\ S \subseteq Moved(i, n) => Before(text, S) \subseteq Moved(i, n)
<1>1. ASSUME NEW r \in From(i, n)
      PROVE  /\ [r EXCEPT !.text = text \o @] \in From(i, n)
             /\ r \in Moved(i, n) => [r EXCEPT !.text = text \o @] \in Moved(i, n)
  <2>1. text \o r.text \in Seq(Texts)
    BY ConcatProperties DEF From
  <2>2. PICK t \in Seq(Texts) : t = text \o r.text
    BY <2>1
  <2>3. [r EXCEPT !.text = t] \in From(i, n)
    BY DEF From
  <2>4. r \in Moved(i, n) => [r EXCEPT !.text = t] \in Moved(i, n)
    BY <2>3 DEF Moved, From
  <2> QED
    BY <2>2, <2>3, <2>4
<1>2. Moved(i, n) \subseteq From(i, n)
  BY DEF Moved
<1>3. ASSUME NEW x \in Before(text, S)
      PROVE  \E r \in S : x = r \/ x = [r EXCEPT !.text = text \o @]
  BY DEF Before
<1> QED
  BY <1>1, <1>2, <1>3

LEMMA FromLater ==
  ASSUME NEW n \in Nat, NEW i \in Nat, NEW k \in Nat, k > i, NEW r
  PROVE  /\ r \in From(k, n) => r \in Moved(i, n)
         /\ r \in Moved(k, n) => r \in Moved(i, n)
BY DEF From, Moved

\* What follows a first part.
LEMMA MorePlaced ==
  ASSUME NEW ts \in Seq(Token), NEW n, n = Len(ts) + 1, NEW i \in 1..n,
         NEW level \in Levels, NEW f, Placed(f, i + 1, n)
  PROVE  More(level, ts, i, f) \subseteq From(i, n)
<1>1. n \in Nat /\ i \in Nat
  BY TokensFacts
<1>2. CASE ~Is(ts, i, "OPERATOR", Operators[level])
  <2>1. More(level, ts, i, f) = {Got(i, <<>>)}
    BY <1>2 DEF More
  <2>2. Got(i, <<>>) \in From(i, n)
    BY <1>1 DEF Got, From
  <2> QED
    BY <2>1, <2>2
<1>3. CASE Is(ts, i, "OPERATOR", Operators[level])
  <2>1. i \in 1..Len(ts) /\ i + 1 \in (i + 1)..n /\ i + 1 \in Nat
    BY <1>1, <1>3, TokensFacts DEF Is
  <2> DEFINE first == f[<<Sub[level], i + 1>>]
             tail(k) == f[<<TailOf[level], k>>]
  <2>2. Sub[level] \in Rules \ Tails /\ TailOf[level] \in Tails /\ Tails \subseteq Rules
    <3>1. CASE level = "exp"
      BY <3>1 DEF Sub, TailOf, Rules, Tails
    <3>2. CASE level = "term"
      BY <3>2 DEF Sub, TailOf, Rules, Tails
    <3> QED
      BY <3>1, <3>2 DEF Levels
  <2>3. first \subseteq Moved(i + 1, n)
    BY <2>1, <2>2 DEF Placed, ResultsAt
  <2>4. \A k \in (i + 1)..n : tail(k) \subseteq From(k, n)
    BY <2>2 DEF Placed, ResultsAt
  <2>5. ASSUME NEW x \in More(level, ts, i, f)
        PROVE  \E r \in first :
                 \/ r.is # "got" /\ x = r
                 \/ r.is = "got" /\ x \in Before(<<ts[i].name>> \o r.text, tail(r.at))
    BY <1>3 DEF More, Then
  <2> HIDE DEF first, tail
  <2>6. ASSUME NEW x \in More(level, ts, i, f)
        PROVE  x \in Moved(i, n)
    <3>1. PICK r \in first :
                 \/ r.is # "got" /\ x = r
                 \/ r.is = "got" /\ x \in Before(<<ts[i].name>> \o r.text, tail(r.at))
      BY <2>5
    <3>2. r \in Moved(i + 1, n) /\ r \in From(i + 1, n)
      BY <2>3 DEF Moved
    <3>3. CASE r.is # "got"
      BY <1>1, <2>1, <3>1, <3>2, <3>3, FromLater
    <3>4. CASE r.is = "got"
      <4>1. r.at \in (i + 1)..n /\ r.at \in Nat /\ r.at > i /\ r.text \in Seq(Texts)
        BY <1>1, <3>2, <3>4 DEF Moved, From
      <4>2. <<ts[i].name>> \o r.text \in Seq(Texts)
        BY <2>1, <4>1, TokensFacts, ConcatProperties
      <4>3. Before(<<ts[i].name>> \o r.text, tail(r.at)) \subseteq From(r.at, n)
        BY <2>4, <4>1, <4>2, BeforeFrom
      <4> QED
        BY <1>1, <3>1, <3>4, <4>1, <4>3, FromLater
    <3> QED
      BY <3>3, <3>4
  <2> QED
    BY <2>6 DEF Moved
<1> QED
  BY <1>2, <1>3

LEMMA ParenthesisPlaced ==
  ASSUME NEW ts \in Seq(Token), NEW n, n = Len(ts) + 1, NEW i \in 1..Len(ts),
         NEW f, Placed(f, i + 1, n)
  PROVE  Parenthesis(ts, i, f) \subseteq Moved(i, n)
<1>1. n \in Nat /\ Len(ts) \in Nat /\ i + 1 \in (i + 1)..n
  BY TokensFacts
<1>2. f[<<"exp", i + 1>>] \subseteq From(i + 1, n)
  BY <1>1 DEF Placed, ResultsAt, Rules, Tails, Moved
<1> SUFFICES ASSUME NEW e \in From(i + 1, n)
             PROVE  (IF e.is = "undefined" \/ e.at > Len(ts) THEN Past
                     ELSE Got(e.at + 1, <<"(">> \o e.text \o <<")">>)) \in Moved(i, n)
  BY <1>2 DEF Parenthesis
<1>3. e.text \in Seq(Texts) /\ e.at \in 1..n
  BY DEF From
<1>4. CASE e.is = "undefined" \/ e.at > Len(ts)
  BY <1>1, <1>4 DEF Past, Moved, From
<1>5. CASE ~(e.is = "undefined" \/ e.at > Len(ts))
  <2>1. e.at + 1 \in 1..n /\ e.at + 1 > i
    BY <1>1, <1>5 DEF From
  <2>2. PICK text \in Seq(Texts) : text = <<"(">> \o e.text \o <<")">>
    <3>1. <<"(">> \o e.text \in Seq(Texts)
      BY <1>3, SignedText, Literals
    <3> QED
      BY <3>1, SignedText, Literals
  <2>3. Got(e.at + 1, text) \in Moved(i, n)
    BY <1>1, <2>1 DEF Got, From, Moved
  <2> QED
    BY <1>5, <2>2, <2>3
<1> QED
  BY <1>4, <1>5

LEMMA ParseFuncPlaced ==
  ASSUME NEW ts \in Seq(Token), NEW n, n = Len(ts) + 1, NEW i \in 1..Len(ts),
         NEW f, Placed(f, i + 1, n)
  PROVE  ParseFunc(ts, i, f) \subseteq Moved(i, n)
<1>1. n \in Nat /\ Len(ts) \in Nat /\ i + 1 \in 1..n
  BY TokensFacts
<1>2. CASE ~Is(ts, i + 1, "SEPARATOR", {"("})
  <2>1. No(i + 1) \in Moved(i, n)
    BY <1>1 DEF No, Moved, From
  <2> QED
    BY <1>2, <2>1 DEF ParseFunc
<1>3. CASE Is(ts, i + 1, "SEPARATOR", {"("})
  <2>1. i + 2 \in (i + 1)..n
    BY <1>1, <1>3, TokensFacts DEF Is
  <2> DEFINE args == f[<<"arguments", i + 2>>]
  <2>2. args \subseteq From(i + 2, n)
    BY <2>1 DEF Placed, ResultsAt, Rules, Tails, Moved
  <2>3. ASSUME NEW x \in ParseFunc(ts, i, f)
        PROVE  \E r \in args :
                 \/ r.is # "got" /\ x = r
                 \/ /\ r.is = "got" /\ r.at \in DOMAIN ts
                    /\ x = Got(r.at + 1, <<ts[i].name, "(">> \o r.text \o <<")">>)
                 \/ r.is = "got" /\ x = No(r.at)
    BY <1>3 DEF ParseFunc, Then, Is
  <2> HIDE DEF args
  <2> SUFFICES ASSUME NEW x \in ParseFunc(ts, i, f)
               PROVE  x \in Moved(i, n)
    OBVIOUS
  <2>4. PICK r \in args :
                 \/ r.is # "got" /\ x = r
                 \/ /\ r.is = "got" /\ r.at \in DOMAIN ts
                    /\ x = Got(r.at + 1, <<ts[i].name, "(">> \o r.text \o <<")">>)
                 \/ r.is = "got" /\ x = No(r.at)
    BY <2>3
  <2>5. r \in From(i + 2, n) /\ r.text \in Seq(Texts) /\ r.at \in 1..n
    BY <2>2 DEF From
  <2>6. CASE r.is # "got" /\ x = r
    BY <1>1, <2>1, <2>5, <2>6, FromLater
  <2>7. CASE r.is = "got" /\ x = No(r.at)
    BY <1>1, <2>1, <2>5, <2>7 DEF No, From, Moved
  <2>8. CASE /\ r.is = "got" /\ r.at \in DOMAIN ts
             /\ x = Got(r.at + 1, <<ts[i].name, "(">> \o r.text \o <<")">>)
    <3>1. r.at + 1 \in 1..n /\ r.at + 1 > i
      BY <1>1, <2>1, <2>5, <2>8, TokensFacts DEF From
    <3>2. <<ts[i].name, "(">> \in Seq(Texts)
      <4>1. ts[i].name \in Texts /\ "(" \in Texts
        BY TokensFacts DEF Texts
      <4> QED
        BY <4>1, ShortLists
    <3>3. PICK text \in Seq(Texts) : text = <<ts[i].name, "(">> \o r.text \o <<")">>
      <4>1. <<ts[i].name, "(">> \o r.text \in Seq(Texts)
        BY <2>5, <3>2, ConcatProperties
      <4> QED
        BY <4>1, SignedText, Literals
    <3>4. Got(r.at + 1, text) \in Moved(i, n)
      BY <1>1, <3>1 DEF Got, From, Moved
    <3> QED
      BY <2>8, <3>3, <3>4
  <2> QED
    BY <2>4, <2>6, <2>7, <2>8
<1> QED
  BY <1>2, <1>3

LEMMA FactorPlaced ==
  ASSUME NEW ts \in Seq(Token), NEW n, n = Len(ts) + 1, NEW i \in 1..n,
         NEW f, Placed(f, i + 1, n)
  PROVE  Factor(ts, i, f) \subseteq Moved(i, n)
<1>1. n \in Nat /\ Len(ts) \in Nat /\ i \in Nat
  BY TokensFacts
<1>2. No(i) \in Moved(i, n)
  BY <1>1 DEF No, Moved, From
<1>3. CASE i > Len(ts)
  BY <1>2, <1>3 DEF Factor
<1>4. CASE i \in 1..Len(ts)
  <2>1. Parenthesis(ts, i, f) \subseteq Moved(i, n) /\ ParseFunc(ts, i, f) \subseteq Moved(i, n)
    BY <1>4, ParenthesisPlaced, ParseFuncPlaced
  <2>2. /\ f[<<"factor", i + 1>>] \subseteq Moved(i + 1, n)
        /\ Moved(i + 1, n) \subseteq Moved(i, n)
    <3>1. i + 1 \in (i + 1)..n /\ "factor" \in Rules \ Tails
      BY <1>1, <1>4 DEF Rules, Tails
    <3>2. Moved(i + 1, n) \subseteq Moved(i, n)
      BY <1>1, FromLater
    <3> QED
      BY <3>1, <3>2 DEF Placed, ResultsAt
  <2>3. Before(<<"-">>, f[<<"factor", i + 1>>]) \subseteq Moved(i, n)
    <3>1. <<"-">> \in Seq(Texts)
      BY ShortLists, Literals
    <3> QED
      BY <2>2, <3>1, BeforeFrom
  <2>4. Got(i + 1, <<ts[i].name>>) \in Moved(i, n)
    <3>1. PICK text \in Seq(Texts) : text = <<ts[i].name>>
      BY <1>4, TokensFacts
    <3>2. Got(i + 1, text) \in Moved(i, n)
      BY <1>1, <1>4 DEF Got, Moved, From
    <3> QED
      BY <3>1, <3>2
  <2>5. \/ Factor(ts, i, f) = Parenthesis(ts, i, f)
        \/ Factor(ts, i, f) = Before(<<"-">>, f[<<"factor", i + 1>>])
        \/ Factor(ts, i, f) = f[<<"factor", i + 1>>]
        \/ Factor(ts, i, f) = ParseFunc(ts, i, f)
        \/ Factor(ts, i, f) = {Got(i + 1, <<ts[i].name>>)}
        \/ Factor(ts, i, f) = {No(i)}
    BY <1>1, <1>4 DEF Factor
  <2> QED
    BY <1>2, <2>1, <2>2, <2>3, <2>4, <2>5
<1> QED
  BY <1>1, <1>3, <1>4

LEMMA ComposedPlaced ==
  ASSUME NEW n \in Nat, NEW i \in 1..n, NEW rule \in Levels,
         NEW f, Placed(f, i + 1, n), f[<<Sub[rule], i>>] \subseteq Moved(i, n)
  PROVE  Composed(rule, i, f) \subseteq Moved(i, n)
<1> DEFINE first == f[<<Sub[rule], i>>]
           tail(k) == f[<<TailOf[rule], k>>]
<1>1. TailOf[rule] \in Rules /\ TailOf[rule] \in Tails
  <2>1. CASE rule = "exp"
    BY <2>1 DEF TailOf, Rules, Tails
  <2>2. CASE rule = "term"
    BY <2>2 DEF TailOf, Rules, Tails
  <2> QED
    BY <2>1, <2>2 DEF Levels
<1>2. \A k \in (i + 1)..n : tail(k) \subseteq From(k, n)
  BY <1>1 DEF Placed, ResultsAt
<1>3. ASSUME NEW x \in Composed(rule, i, f)
      PROVE  \E r \in first :
               \/ r.is # "got" /\ x = r
               \/ r.is = "got" /\ x \in Before(r.text, tail(r.at))
  BY DEF Composed, Then
<1> HIDE DEF first, tail
<1> SUFFICES ASSUME NEW x \in Composed(rule, i, f)
             PROVE  x \in Moved(i, n)
  OBVIOUS
<1>4. PICK r \in first :
               \/ r.is # "got" /\ x = r
               \/ r.is = "got" /\ x \in Before(r.text, tail(r.at))
  BY <1>3
<1>5. r \in Moved(i, n)
  BY DEF first
<1>6. CASE r.is = "got"
  <2>1. r.at \in (i + 1)..n /\ r.at \in Nat /\ r.at > i /\ r.text \in Seq(Texts)
    BY <1>5, <1>6 DEF Moved, From
  <2>2. Before(r.text, tail(r.at)) \subseteq From(r.at, n)
    BY <1>2, <2>1, BeforeFrom
  <2> QED
    BY <1>4, <1>6, <2>1, <2>2, FromLater
<1> QED
  BY <1>4, <1>5, <1>6

LEMMA ArgumentsPlaced ==
  ASSUME NEW ts \in Seq(Token), NEW n, n = Len(ts) + 1, NEW i \in 1..n,
         NEW f, Placed(f, i + 1, n), f[<<"exp", i>>] \subseteq Moved(i, n)
  PROVE  Arguments(ts, i, f) \subseteq Moved(i, n)
<1> DEFINE first == f[<<"exp", i>>]
           rest(k) == f[<<"arguments", k>>]
<1>1. n \in Nat /\ Len(ts) \in Nat /\ i \in Nat
  BY TokensFacts
<1>2. \A k \in (i + 1)..n : rest(k) \subseteq Moved(k, n)
  BY DEF Placed, ResultsAt, Rules, Tails
<1>3. ASSUME NEW x \in Arguments(ts, i, f)
      PROVE  \E r \in first :
               \/ x = r
               \/ r.is = "got" /\ r.at \in DOMAIN ts
                  /\ x \in Before(r.text \o <<",">>, rest(r.at + 1))
  BY DEF Arguments, Then, Is
<1> HIDE DEF first, rest
<1> SUFFICES ASSUME NEW x \in Arguments(ts, i, f)
             PROVE  x \in Moved(i, n)
  OBVIOUS
<1>4. PICK r \in first :
               \/ x = r
               \/ r.is = "got" /\ r.at \in DOMAIN ts
                  /\ x \in Before(r.text \o <<",">>, rest(r.at + 1))
  BY <1>3
<1>5. r \in Moved(i, n)
  BY DEF first
<1>6. CASE r.is = "got" /\ r.at \in DOMAIN ts
           /\ x \in Before(r.text \o <<",">>, rest(r.at + 1))
  <2>1. r.at + 1 \in (i + 1)..n /\ r.at + 1 \in Nat /\ r.at + 1 > i
        /\ r.text \in Seq(Texts)
    <3>1. r.at \in 1..Len(ts) /\ r.at > i /\ r.text \in Seq(Texts)
      BY <1>5, <1>6, TokensFacts DEF Moved, From
    <3> QED
      BY <1>1, <3>1
  <2>2. r.text \o <<",">> \in Seq(Texts)
    BY <2>1, SignedText, Literals
  <2>3. Before(r.text \o <<",">>, rest(r.at + 1)) \subseteq Moved(r.at + 1, n)
    BY <1>2, <2>1, <2>2, BeforeFrom
  <2> QED
    BY <1>1, <1>6, <2>1, <2>3, FromLater
<1> QED
  BY <1>4, <1>5, <1>6

\* f has the results of the rules from position j on.
Built(f, ts, j, n) ==
  \A rule \in Rules : \A k \in j..n : f[<<rule, k>>] = Results(rule, ts, k, f)

LEMMA RuleNames ==
  /\ "exp" \in Rules /\ "term" \in Rules /\ "factor" \in Rules
  /\ "exp" \in Levels /\ "term" \in Levels
  /\ \A rule \in Levels : Sub[rule] \in Rules \ Tails /\ TailOf[rule] \in Tails
  /\ "arguments" \in Rules /\ "exp tail" \in Rules /\ "term tail" \in Rules
  /\ \A rule \in Rules : \/ rule = "exp" \/ rule = "term" \/ rule = "factor"
                         \/ rule = "exp tail" \/ rule = "term tail" \/ rule = "arguments"
  /\ {"exp", "term", "factor", "arguments"} \subseteq Rules \ Tails
  /\ Tails \subseteq Rules /\ "exp tail" \in Tails /\ "term tail" \in Tails
  /\ Sub["exp"] = "term" /\ Sub["term"] = "factor"
  /\ TailOf["exp"] = "exp tail" /\ TailOf["term"] = "term tail"
BY DEF Rules, Levels, Tails, Sub, TailOf

LEMMA ResultsPlaced ==
  ASSUME NEW ts \in Seq(Token), NEW n, n = Len(ts) + 1, NEW i \in 1..n,
         NEW f, Placed(f, i + 1, n), Built(f, ts, i, n)
  PROVE  Placed(f, i, n)
<1>1. n \in Nat /\ i \in Nat /\ i \in i..n
  BY TokensFacts
<1>2. /\ f[<<"exp", i>>] = Composed("exp", i, f)
      /\ f[<<"term", i>>] = Composed("term", i, f)
      /\ f[<<"factor", i>>] = Factor(ts, i, f)
      /\ f[<<"exp tail", i>>] = More("exp", ts, i, f)
      /\ f[<<"term tail", i>>] = More("term", ts, i, f)
      /\ f[<<"arguments", i>>] = Arguments(ts, i, f)
  <2>1. \A rule \in Rules : f[<<rule, i>>] = Results(rule, ts, i, f)
    BY <1>1 DEF Built
  <2>2. /\ f[<<"exp", i>>] = Composed("exp", i, f)
        /\ f[<<"term", i>>] = Composed("term", i, f)
    BY <2>1 DEF Rules, Results
  <2>3. f[<<"factor", i>>] = Factor(ts, i, f)
    BY <2>1 DEF Rules, Results
  <2>4. /\ f[<<"exp tail", i>>] = More("exp", ts, i, f)
        /\ f[<<"term tail", i>>] = More("term", ts, i, f)
    BY <2>1 DEF Rules, Results
  <2>5. f[<<"arguments", i>>] = Arguments(ts, i, f)
    BY <2>1 DEF Rules, Results
  <2> QED
    BY <2>2, <2>3, <2>4, <2>5
<1>3. f[<<"factor", i>>] \subseteq Moved(i, n)
  BY <1>2, FactorPlaced
<1>4. f[<<"exp tail", i>>] \subseteq From(i, n) /\ f[<<"term tail", i>>] \subseteq From(i, n)
  <2>1. \A level \in Levels : More(level, ts, i, f) \subseteq From(i, n)
    BY MorePlaced
  <2>2. /\ More("exp", ts, i, f) \subseteq From(i, n)
        /\ More("term", ts, i, f) \subseteq From(i, n)
    BY <2>1 DEF Levels
  <2> QED
    BY <1>2, <2>2
<1>5. f[<<"term", i>>] \subseteq Moved(i, n)
  <2>1. f[<<Sub["term"], i>>] \subseteq Moved(i, n)
    BY <1>3, RuleNames
  <2>2. Composed("term", i, f) \subseteq Moved(i, n)
    BY <1>1, <2>1, ComposedPlaced, RuleNames
  <2> QED
    BY <1>2, <2>2
<1>6. f[<<"exp", i>>] \subseteq Moved(i, n)
  <2>1. f[<<Sub["exp"], i>>] \subseteq Moved(i, n)
    BY <1>5, RuleNames
  <2>2. Composed("exp", i, f) \subseteq Moved(i, n)
    BY <1>1, <2>1, ComposedPlaced, RuleNames
  <2> QED
    BY <1>2, <2>2
<1>7. f[<<"arguments", i>>] \subseteq Moved(i, n)
  BY <1>2, <1>6, ArgumentsPlaced
<1>8. ASSUME NEW rule \in Rules
      PROVE  f[<<rule, i>>] \subseteq ResultsAt(rule, i, n)
  <2>1. CASE rule \in Tails
    BY <1>4, <2>1 DEF ResultsAt, Tails
  <2>2. CASE rule \notin Tails
    <3>1. f[<<rule, i>>] \subseteq Moved(i, n)
      BY <1>3, <1>5, <1>6, <1>7, <2>2, RuleNames
    <3> QED
      BY <2>2, <3>1 DEF ResultsAt
  <2> QED
    BY <2>1, <2>2
<1>9. ASSUME NEW rule \in Rules, NEW k \in i..n
      PROVE  f[<<rule, k>>] \subseteq ResultsAt(rule, k, n)
  <2>1. k = i \/ k \in (i + 1)..n
    BY <1>1
  <2> QED
    BY <1>8, <2>1 DEF Placed
<1> QED
  BY <1>9 DEF Placed

\* Whatever has the results of the rules has them where they may be.
LEMMA BuiltPlaced ==
  ASSUME NEW ts \in Seq(Token), NEW n, n = Len(ts) + 1, NEW j \in 1..(n + 1),
         NEW f, Built(f, ts, j, n)
  PROVE  Placed(f, j, n)
<1>1. n \in Nat /\ j \in Nat
  BY TokensFacts
<1> DEFINE P == {k \in 0..(n + 1 - j) : Placed(f, n + 1 - k, n)}
<1>2. 0 \in P
  <2>1. 0 \in 0..(n + 1 - j)
    BY <1>1
  <2>2. Placed(f, n + 1 - 0, n)
    BY <1>1 DEF Placed
  <2> QED
    BY <2>1, <2>2
<1>3. ASSUME NEW k \in 1..(n + 1 - j), k - 1 \in P
      PROVE  k \in P
  <2>1. PICK i : i = n + 1 - k
    OBVIOUS
  <2>2. i \in 1..n /\ i + 1 = n + 1 - (k - 1) /\ i >= j
    BY <1>1, <2>1
  <2>3. Placed(f, i + 1, n)
    BY <1>3, <2>2
  <2>4. Built(f, ts, i, n)
    <3>1. \A m \in i..n : m \in j..n
      BY <1>1, <2>2
    <3> QED
      BY <3>1 DEF Built
  <2>5. Placed(f, i, n)
    BY <2>2, <2>3, <2>4, ResultsPlaced
  <2> QED
    BY <2>1, <2>5
<1>4. n + 1 - j \in Nat
  BY <1>1
<1>5. \A k \in 0..(n + 1 - j) : k \in P
  <2> HIDE DEF P
  <2> QED
    BY <1>2, <1>3, <1>4, UpTo
<1>6. n + 1 - j \in 0..(n + 1 - j) /\ n + 1 - (n + 1 - j) = j
  BY <1>1
<1> QED
  BY <1>5, <1>6

-----------------------------------------------------------------------------
(***************************************************************************)
(* The results at a position depend on later positions only, or on a rule  *)
(* that is part of the rule.  Hence they exist.                            *)
(***************************************************************************)
LEMMA MoreSame ==
  ASSUME NEW ts \in Seq(Token), NEW n, n = Len(ts) + 1, NEW i \in 1..n,
         NEW level \in Levels, NEW f, NEW g,
         Placed(f, i + 1, n), Same(f, g, i + 1, n)
  PROVE  More(level, ts, i, f) = More(level, ts, i, g)
<1>1. CASE ~Is(ts, i, "OPERATOR", Operators[level])
  BY <1>1 DEF More
<1>2. CASE Is(ts, i, "OPERATOR", Operators[level])
  <2>1. n \in Nat /\ i + 1 \in (i + 1)..n
    BY <1>2, TokensFacts DEF Is
  <2>2. Sub[level] \in Rules \ Tails /\ TailOf[level] \in Rules
    BY RuleNames
  <2>3. f[<<Sub[level], i + 1>>] = g[<<Sub[level], i + 1>>]
        /\ f[<<Sub[level], i + 1>>] \subseteq Moved(i + 1, n)
    BY <2>1, <2>2 DEF Same, Placed, ResultsAt
  <2>4. ASSUME NEW r \in f[<<Sub[level], i + 1>>], r.is = "got"
        PROVE  f[<<TailOf[level], r.at>>] = g[<<TailOf[level], r.at>>]
    <3>1. r.at \in (i + 1)..n
      BY <2>1, <2>3, <2>4 DEF Moved, From
    <3> QED
      BY <2>2, <3>1 DEF Same
  <2> DEFINE first == f[<<Sub[level], i + 1>>]
             p(k) == f[<<TailOf[level], k>>]
             q(k) == g[<<TailOf[level], k>>]
             tailF(r) == IF r.is = "got" THEN Before(<<ts[i].name>> \o r.text, p(r.at)) ELSE {r}
             tailG(r) == IF r.is = "got" THEN Before(<<ts[i].name>> \o r.text, q(r.at)) ELSE {r}
  <2>5. \A r \in first : tailF(r) = tailG(r)
    BY <2>4
  <2>6. More(level, ts, i, f) = UNION {tailF(r) : r \in first}
    BY <1>2 DEF More, Then
  <2>7. More(level, ts, i, g) = UNION {tailG(r) : r \in first}
    BY <1>2, <2>3 DEF More, Then
  <2> HIDE DEF first, tailF, tailG
  <2> QED
    BY <2>5, <2>6, <2>7
<1> QED
  BY <1>1, <1>2

LEMMA ParseFuncSame ==
  ASSUME NEW ts \in Seq(Token), NEW n, n = Len(ts) + 1, NEW i \in 1..Len(ts),
         NEW f, NEW g, Same(f, g, i + 1, n)
  PROVE  /\ ParseFunc(ts, i, f) = ParseFunc(ts, i, g)
         /\ Parenthesis(ts, i, f) = Parenthesis(ts, i, g)
<1>1. n \in Nat /\ Len(ts) \in Nat /\ i + 1 \in (i + 1)..n
  BY TokensFacts
<1>2. Parenthesis(ts, i, f) = Parenthesis(ts, i, g)
  <2>1. f[<<"exp", i + 1>>] = g[<<"exp", i + 1>>]
    BY <1>1, RuleNames DEF Same
  <2> QED
    BY <2>1 DEF Parenthesis
<1>3. CASE ~Is(ts, i + 1, "SEPARATOR", {"("})
  BY <1>2, <1>3 DEF ParseFunc
<1>4. CASE Is(ts, i + 1, "SEPARATOR", {"("})
  <2>1. i + 2 \in (i + 1)..n
    BY <1>1, <1>4, TokensFacts DEF Is
  <2>2. f[<<"arguments", i + 2>>] = g[<<"arguments", i + 2>>]
    BY <2>1, RuleNames DEF Same
  <2>3. ParseFunc(ts, i, f) = ParseFunc(ts, i, g)
    BY <1>4, <2>2 DEF ParseFunc
  <2> QED
    BY <1>2, <2>3
<1> QED
  BY <1>3, <1>4

LEMMA FactorSame ==
  ASSUME NEW ts \in Seq(Token), NEW n, n = Len(ts) + 1, NEW i \in 1..n,
         NEW f, NEW g, Same(f, g, i + 1, n)
  PROVE  Factor(ts, i, f) = Factor(ts, i, g)
<1>1. n \in Nat /\ Len(ts) \in Nat /\ i \in Nat
  BY TokensFacts
<1>2. CASE i > Len(ts)
  BY <1>2 DEF Factor
<1>3. CASE i \in 1..Len(ts)
  <2>1. i + 1 \in (i + 1)..n
    BY <1>1, <1>3
  <2>2. f[<<"factor", i + 1>>] = g[<<"factor", i + 1>>]
    BY <2>1, RuleNames DEF Same
  <2>3. /\ ParseFunc(ts, i, f) = ParseFunc(ts, i, g)
        /\ Parenthesis(ts, i, f) = Parenthesis(ts, i, g)
    BY <1>3, ParseFuncSame
  <2> QED
    BY <2>2, <2>3 DEF Factor
<1> QED
  BY <1>1, <1>2, <1>3

LEMMA ComposedSame ==
  ASSUME NEW n \in Nat, NEW i \in 1..n, NEW rule \in Levels,
         NEW f, NEW g, Same(f, g, i + 1, n),
         f[<<Sub[rule], i>>] \subseteq Moved(i, n),
         f[<<Sub[rule], i>>] = g[<<Sub[rule], i>>]
  PROVE  Composed(rule, i, f) = Composed(rule, i, g)
<1>1. ASSUME NEW r \in f[<<Sub[rule], i>>], r.is = "got"
      PROVE  f[<<TailOf[rule], r.at>>] = g[<<TailOf[rule], r.at>>]
  <2>1. r.at \in (i + 1)..n
    BY <1>1 DEF Moved, From
  <2>2. TailOf[rule] \in Rules
    BY RuleNames
  <2> QED
    BY <2>1, <2>2 DEF Same
<1> DEFINE first == f[<<Sub[rule], i>>]
           p(k) == f[<<TailOf[rule], k>>]
           q(k) == g[<<TailOf[rule], k>>]
           tailF(r) == IF r.is = "got" THEN Before(r.text, p(r.at)) ELSE {r}
           tailG(r) == IF r.is = "got" THEN Before(r.text, q(r.at)) ELSE {r}
<1>2. \A r \in first : tailF(r) = tailG(r)
  BY <1>1
<1>3. Composed(rule, i, f) = UNION {tailF(r) : r \in first}
  BY DEF Composed, Then
<1>4. Composed(rule, i, g) = UNION {tailG(r) : r \in first}
  BY DEF Composed, Then
<1> HIDE DEF first, tailF, tailG
<1> QED
  BY <1>2, <1>3, <1>4

LEMMA ArgumentsSame ==
  ASSUME NEW ts \in Seq(Token), NEW n, n = Len(ts) + 1, NEW i \in 1..n,
         NEW f, NEW g, Same(f, g, i + 1, n),
         f[<<"exp", i>>] \subseteq Moved(i, n),
         f[<<"exp", i>>] = g[<<"exp", i>>]
  PROVE  Arguments(ts, i, f) = Arguments(ts, i, g)
<1> DEFINE first == f[<<"exp", i>>]
           p(k) == f[<<"arguments", k>>]
           q(k) == g[<<"arguments", k>>]
           restF(r) == IF r.is = "got"
                       THEN IF Is(ts, r.at, "SEPARATOR", {","})
                            THEN Before(r.text \o <<",">>, p(r.at + 1)) ELSE {r}
                       ELSE {r}
           restG(r) == IF r.is = "got"
                       THEN IF Is(ts, r.at, "SEPARATOR", {","})
                            THEN Before(r.text \o <<",">>, q(r.at + 1)) ELSE {r}
                       ELSE {r}
<1>1. ASSUME NEW r \in first, r.is = "got", Is(ts, r.at, "SEPARATOR", {","})
      PROVE  p(r.at + 1) = q(r.at + 1)
  <2>1. n \in Nat /\ Len(ts) \in Nat /\ i \in Nat
    BY TokensFacts
  <2>2. r.at \in 1..Len(ts) /\ r.at > i
    BY <1>1, TokensFacts DEF Is, Moved, From
  <2>3. r.at + 1 \in (i + 1)..n
    BY <2>1, <2>2
  <2> QED
    BY <2>3, RuleNames DEF Same
<1>2. \A r \in first : restF(r) = restG(r)
  BY <1>1
<1>3. Arguments(ts, i, f) = UNION {restF(r) : r \in first}
  BY DEF Arguments, Then
<1>4. Arguments(ts, i, g) = UNION {restG(r) : r \in first}
  BY DEF Arguments, Then
<1> HIDE DEF first, restF, restG
<1> QED
  BY <1>2, <1>3, <1>4

LEMMA ResultsSame ==
  ASSUME NEW ts \in Seq(Token), NEW n, n = Len(ts) + 1, NEW i \in 1..n,
         NEW rule \in Rules, NEW f, NEW g, Placed(f, i, n), Same(f, g, i, n)
  PROVE  Results(rule, ts, i, f) = Results(rule, ts, i, g)
<1>1. n \in Nat /\ i \in Nat /\ i \in i..n
  BY TokensFacts
<1>2. Placed(f, i + 1, n) /\ Same(f, g, i + 1, n)
  <2>1. \A k \in (i + 1)..n : k \in i..n
    BY <1>1
  <2> QED
    BY <2>1 DEF Placed, Same
<1>3. /\ f[<<"factor", i>>] \subseteq Moved(i, n) /\ f[<<"factor", i>>] = g[<<"factor", i>>]
      /\ f[<<"term", i>>] \subseteq Moved(i, n) /\ f[<<"term", i>>] = g[<<"term", i>>]
      /\ f[<<"exp", i>>] \subseteq Moved(i, n) /\ f[<<"exp", i>>] = g[<<"exp", i>>]
  BY <1>1 DEF Placed, Same, ResultsAt, Rules, Tails
<1>4. CASE rule \in Levels
  <2>1. f[<<Sub[rule], i>>] \subseteq Moved(i, n) /\ f[<<Sub[rule], i>>] = g[<<Sub[rule], i>>]
    BY <1>3, <1>4, RuleNames DEF Levels
  <2>2. Composed(rule, i, f) = Composed(rule, i, g)
    BY <1>1, <1>2, <1>4, <2>1, ComposedSame
  <2> QED
    BY <1>4, <2>2 DEF Results, Levels
<1>6. CASE rule = "factor"
  <2>1. Factor(ts, i, f) = Factor(ts, i, g)
    BY <1>2, FactorSame
  <2> QED
    BY <1>6, <2>1 DEF Results
<1>7. CASE rule \in Tails
  <2>1. More("exp", ts, i, f) = More("exp", ts, i, g)
        /\ More("term", ts, i, f) = More("term", ts, i, g)
    <3>1. \A level \in Levels : More(level, ts, i, f) = More(level, ts, i, g)
      BY <1>2, MoreSame
    <3> QED
      BY <3>1 DEF Levels
  <2> QED
    BY <1>7, <2>1 DEF Results, Tails
<1>8. CASE rule = "arguments"
  <2>1. Arguments(ts, i, f) = Arguments(ts, i, g)
    BY <1>2, <1>3, ArgumentsSame
  <2> QED
    BY <1>8, <2>1 DEF Results
<1> QED
  BY <1>4, <1>6, <1>7, <1>8 DEF Rules, Tails, Levels

AllBut(f, g, rule, i, n) ==
  \A r \in Rules : \A k \in 1..n :
    r # rule \/ k # i => g[<<r, k>>] = f[<<r, k>>]

LEMMA Changed ==
  ASSUME NEW f, NEW n \in Nat, NEW i \in 1..n, NEW rule \in Rules, NEW v
  PROVE  \E g : g[<<rule, i>>] = v /\ AllBut(f, g, rule, i, n)
<1> DEFINE g == [x \in Rules \X (1..n) |-> IF x[1] = rule /\ x[2] = i THEN v ELSE f[x]]
<1>1. g[<<rule, i>>] = v
  OBVIOUS
<1>2. AllBut(f, g, rule, i, n)
  BY DEF AllBut
<1> QED
  BY <1>1, <1>2

LEMMA ResultsExtended ==
  ASSUME NEW ts \in Seq(Token), NEW n, n = Len(ts) + 1, NEW i \in 1..n,
         NEW f, Built(f, ts, i + 1, n)
  PROVE  \E g : Built(g, ts, i, n)
<1>1. n \in Nat /\ i \in Nat /\ i + 1 \in 1..(n + 1)
  BY TokensFacts
<1>2. Placed(f, i + 1, n)
  BY <1>1, BuiltPlaced
<1>0. PICK exp, term, factor, expTail, termTail, arguments :
       /\ exp = "exp" /\ term = "term" /\ factor = "factor"
       /\ expTail = "exp tail" /\ termTail = "term tail" /\ arguments = "arguments"
  OBVIOUS
<1>names. /\ exp \in Levels /\ term \in Levels /\ exp \in Rules /\ term \in Rules
          /\ factor \in Rules /\ expTail \in Rules /\ termTail \in Rules
          /\ arguments \in Rules
          /\ Sub[exp] = term /\ Sub[term] = factor
  BY <1>0, RuleNames
<1>others. /\ \A rule \in Rules : \/ rule = exp \/ rule = term \/ rule = factor
                                  \/ rule = expTail \/ rule = termTail \/ rule = arguments
           /\ exp # term /\ exp # factor /\ exp # expTail /\ exp # termTail /\ exp # arguments
           /\ term # factor /\ term # expTail /\ term # termTail /\ term # arguments
           /\ factor # expTail /\ factor # termTail /\ factor # arguments
           /\ expTail # termTail /\ expTail # arguments /\ termTail # arguments
  BY <1>0 DEF Rules
<1>change. \A rule \in Rules : \A h, v : \E g : g[<<rule, i>>] = v /\ AllBut(h, g, rule, i, n)
  BY <1>1, Changed
<1>3. PICK f1 : f1[<<factor, i>>] = Factor(ts, i, f) /\ AllBut(f, f1, factor, i, n)
  BY <1>names, <1>change, Zenon
<1>4. PICK f2 : f2[<<expTail, i>>] = More(exp, ts, i, f) /\ AllBut(f1, f2, expTail, i, n)
  BY <1>names, <1>change, Zenon
<1>5. PICK f3 : f3[<<termTail, i>>] = More(term, ts, i, f) /\ AllBut(f2, f3, termTail, i, n)
  BY <1>names, <1>change, Zenon
<1>6. PICK f4 : f4[<<term, i>>] = Composed(term, i, f3) /\ AllBut(f3, f4, term, i, n)
  BY <1>names, <1>change, Zenon
<1>7. PICK f5 : f5[<<exp, i>>] = Composed(exp, i, f4) /\ AllBut(f4, f5, exp, i, n)
  BY <1>names, <1>change, Zenon
<1>8. PICK g : g[<<arguments, i>>] = Arguments(ts, i, f5) /\ AllBut(f5, g, arguments, i, n)
  BY <1>names, <1>change, Zenon
<1>9. /\ Same(f, g, i + 1, n) /\ Same(f3, g, i + 1, n)
      /\ Same(f4, g, i + 1, n) /\ Same(f5, g, i + 1, n)
  <2>1. ASSUME NEW r \in Rules, NEW k \in (i + 1)..n
        PROVE  /\ f1[<<r, k>>] = f[<<r, k>>] /\ f2[<<r, k>>] = f[<<r, k>>]
               /\ f3[<<r, k>>] = f[<<r, k>>] /\ f4[<<r, k>>] = f[<<r, k>>]
               /\ f5[<<r, k>>] = f[<<r, k>>] /\ g[<<r, k>>] = f[<<r, k>>]
    <3>1. k \in 1..n /\ k # i
      BY <1>1
    <3> QED
      BY <3>1, <1>3, <1>4, <1>5, <1>6, <1>7, <1>8 DEF AllBut
  <2> QED
    BY <2>1 DEF Same
<1>10. /\ g[<<factor, i>>] = Factor(ts, i, f) /\ f3[<<factor, i>>] = Factor(ts, i, f)
       /\ g[<<expTail, i>>] = More(exp, ts, i, f)
       /\ g[<<termTail, i>>] = More(term, ts, i, f)
       /\ g[<<term, i>>] = Composed(term, i, f3) /\ f4[<<term, i>>] = g[<<term, i>>]
       /\ g[<<exp, i>>] = Composed(exp, i, f4) /\ f5[<<exp, i>>] = g[<<exp, i>>]
       /\ g[<<arguments, i>>] = Arguments(ts, i, f5)
  BY <1>names, <1>others, <1>1, <1>3, <1>4, <1>5, <1>6, <1>7, <1>8
     DEF AllBut
<1>11. Placed(f3, i + 1, n) /\ Placed(f4, i + 1, n) /\ Placed(f5, i + 1, n)
       /\ Placed(g, i + 1, n)
  BY <1>2, <1>9 DEF Same, Placed
<1>12. g[<<factor, i>>] = Factor(ts, i, g) /\ g[<<factor, i>>] \subseteq Moved(i, n)
  <2>1. Factor(ts, i, f) = Factor(ts, i, g)
    BY <1>9, FactorSame
  <2> QED
    BY <1>10, <1>11, <2>1, FactorPlaced
<1>13. g[<<expTail, i>>] = More(exp, ts, i, g) /\ g[<<termTail, i>>] = More(term, ts, i, g)
  <2>1. More(exp, ts, i, f) = More(exp, ts, i, g)
        /\ More(term, ts, i, f) = More(term, ts, i, g)
    BY <1>names, <1>2, <1>9, MoreSame
  <2> QED
    BY <1>10, <2>1
<1>14. g[<<term, i>>] = Composed(term, i, g) /\ g[<<term, i>>] \subseteq Moved(i, n)
  <2>1. /\ f3[<<Sub[term], i>>] = g[<<Sub[term], i>>]
        /\ f3[<<Sub[term], i>>] \subseteq Moved(i, n)
        /\ g[<<Sub[term], i>>] \subseteq Moved(i, n)
    BY <1>10, <1>12, <1>names
  <2>2. Composed(term, i, f3) = Composed(term, i, g)
    BY <1>names, <1>1, <1>9, <2>1, ComposedSame
  <2>3. Composed(term, i, g) \subseteq Moved(i, n)
    BY <1>names, <1>1, <1>11, <2>1, ComposedPlaced
  <2> QED
    BY <1>10, <2>2, <2>3
<1>15. g[<<exp, i>>] = Composed(exp, i, g) /\ g[<<exp, i>>] \subseteq Moved(i, n)
  <2>1. /\ f4[<<Sub[exp], i>>] = g[<<Sub[exp], i>>]
        /\ f4[<<Sub[exp], i>>] \subseteq Moved(i, n)
        /\ g[<<Sub[exp], i>>] \subseteq Moved(i, n)
    BY <1>10, <1>14, <1>names
  <2>2. Composed(exp, i, f4) = Composed(exp, i, g)
    BY <1>names, <1>1, <1>9, <2>1, ComposedSame
  <2>3. Composed(exp, i, g) \subseteq Moved(i, n)
    BY <1>names, <1>1, <1>11, <2>1, ComposedPlaced
  <2> QED
    BY <1>10, <2>2, <2>3
<1>16. g[<<arguments, i>>] = Arguments(ts, i, g)
  <2>1. f5[<<exp, i>>] = g[<<exp, i>>] /\ f5[<<exp, i>>] \subseteq Moved(i, n)
    BY <1>10, <1>15
  <2>2. Arguments(ts, i, f5) = Arguments(ts, i, g)
    BY <1>0, <1>9, <2>1, ArgumentsSame
  <2> QED
    BY <1>10, <2>2
<1>17. ASSUME NEW rule \in Rules
       PROVE  g[<<rule, i>>] = Results(rule, ts, i, g)
  BY <1>12, <1>13, <1>14, <1>15, <1>16, <1>0 DEF Results, Rules
<1>18. ASSUME NEW rule \in Rules, NEW k \in (i + 1)..n
       PROVE  g[<<rule, k>>] = Results(rule, ts, k, g)
  <2>1. k \in 1..n /\ \A m \in k..n : m \in (i + 1)..n
    BY <1>1
  <2>2. Placed(f, k, n) /\ Same(f, g, k, n)
    BY <1>2, <1>9, <2>1 DEF Placed, Same
  <2>3. Results(rule, ts, k, f) = Results(rule, ts, k, g)
    BY <2>1, <2>2, ResultsSame
  <2>4. f[<<rule, k>>] = Results(rule, ts, k, f) /\ g[<<rule, k>>] = f[<<rule, k>>]
    BY <1>9 DEF Built, Same
  <2> QED
    BY <2>3, <2>4
<1>19. Built(g, ts, i, n)
  <2>1. \A k \in i..n : k = i \/ k \in (i + 1)..n
    BY <1>1
  <2> QED
    BY <1>17, <1>18, <2>1 DEF Built
<1> QED
  BY <1>19

LEMMA ResultsExist ==
  ASSUME NEW ts \in Seq(Token), NEW n, n = Len(ts) + 1
  PROVE  \E f : Built(f, ts, 1, n)
<1>1. n \in Nat
  BY TokensFacts
<1> DEFINE P == {k \in 0..n : \E f : Built(f, ts, n + 1 - k, n)}
<1>2. 0 \in P
  <2>1. \A f : Built(f, ts, n + 1 - 0, n)
    BY <1>1 DEF Built
  <2> QED
    BY <1>1, <2>1
<1>3. ASSUME NEW k \in 1..n, k - 1 \in P
      PROVE  k \in P
  <2>1. PICK i : i = n + 1 - k
    OBVIOUS
  <2>2. i \in 1..n /\ i + 1 = n + 1 - (k - 1)
    BY <1>1, <2>1
  <2>3. PICK f : Built(f, ts, i + 1, n)
    BY <1>3, <2>2
  <2>4. \E g : Built(g, ts, i, n)
    BY <2>2, <2>3, ResultsExtended
  <2> QED
    BY <2>1, <2>4
<1>4. \A k \in 0..n : k \in P
  <2> HIDE DEF P
  <2> QED
    BY <1>1, <1>2, <1>3, UpTo
<1>5. n \in 0..n /\ n + 1 - n = 1
  BY <1>1
<1> QED
  BY <1>4, <1>5

LEMMA ParsePlaced ==
  ASSUME NEW ts \in Seq(Token), NEW n, n = Len(ts) + 1
  PROVE  Placed(Parse(ts), 1, n)
<1>1. n \in Nat
  BY TokensFacts
<1> DEFINE table(f) == [x \in Rules \X (1..n) |-> Results(x[1], ts, x[2], f)]
           p == CHOOSE f : f = table(f)
<1>2. PICK g : Built(g, ts, 1, n)
  BY ResultsExist
<1>3. PICK f : f = [x \in Rules \X (1..n) |-> g[x]]
  OBVIOUS
<1>4. f = table(f)
  <2>1. Placed(g, 1, n)
    BY <1>1, <1>2, BuiltPlaced
  <2>2. \A rule \in Rules : \A i \in 1..n : f[<<rule, i>>] = g[<<rule, i>>]
    BY <1>3
  <2>3. ASSUME NEW rule \in Rules, NEW i \in 1..n
        PROVE  f[<<rule, i>>] = Results(rule, ts, i, f)
    <3>1. \A k \in i..n : k \in 1..n
      BY <1>1
    <3>2. Placed(g, i, n) /\ Same(g, f, i, n)
      BY <2>1, <2>2, <3>1 DEF Placed, Same
    <3>3. Results(rule, ts, i, g) = Results(rule, ts, i, f)
      BY <3>2, ResultsSame
    <3>4. g[<<rule, i>>] = Results(rule, ts, i, g)
      BY <1>2 DEF Built
    <3> QED
      BY <2>2, <3>3, <3>4
  <2>4. \A x \in Rules \X (1..n) : f[x] = table(f)[x]
    BY <2>3
  <2> QED
    BY <1>3, <2>4
<1>5. p = table(p)
  <2> HIDE DEF table
  <2> QED
    BY <1>4
<1>6. Parse(ts) = p
  BY DEF Parse
<1>7. PICK h : h = p
  OBVIOUS
<1>8. h = table(h)
  BY <1>5, <1>7
<1> HIDE DEF p
<1>9. Built(h, ts, 1, n)
  BY <1>8 DEF Built
<1>10. Placed(h, 1, n)
  BY <1>1, <1>9, BuiltPlaced
<1> QED
  BY <1>6, <1>7, <1>10

\* For every list of tokens the parser of numbers ends in the list or at its
\* end, behind where it began if there was a number and not in front of it if
\* there was none, unless it read beyond the end of the list (getNumberExp and
\* rcsExpressionParser_T).
THEOREM NumberPlaced ==
  ASSUME NEW ts \in Seq(Token), NEW i \in 1..(Len(ts) + 1)
  PROVE  GetNumberExp(ts, i) \subseteq Moved(i, Len(ts) + 1)
<1>1. PICK n : n = Len(ts) + 1
  OBVIOUS
<1>2. n \in Nat /\ i \in 1..n
  BY <1>1, TokensFacts
<1>3. Placed(Parse(ts), 1, n)
  BY <1>1, ParsePlaced
<1> DEFINE p == Parse(ts)
<1>4. Placed(p, 1, n)
  BY <1>3
<1>5. GetNumberExp(ts, i) = p[<<"exp", i>>]
  BY DEF GetNumberExp
<1> HIDE DEF p
<1>6. p[<<"exp", i>>] \subseteq Moved(i, n)
  BY <1>2, <1>4 DEF Placed, Rules, Tails, ResultsAt
<1> QED
  BY <1>1, <1>5, <1>6

LEMMA LimitPlaced ==
  ASSUME NEW ts \in Seq(Token), NEW i \in 1..(Len(ts) + 1)
  PROVE  Limit(ts, i) \subseteq From(i, Len(ts) + 1)
<1>1. PICK n : n = Len(ts) + 1
  OBVIOUS
<1>2. n \in Nat /\ i \in 1..n /\ Len(ts) \in Nat
  BY <1>1, TokensFacts
<1>3. CASE i > Len(ts)
  BY <1>1, <1>2, <1>3 DEF Limit, Past, From
<1>4. CASE i \in 1..Len(ts) /\ ~IsConstraintOperator(ts, i)
  <2>1. Limit(ts, i) = {No(i)}
    BY <1>2, <1>4 DEF Limit
  <2>2. No(i) \in From(i, n)
    BY <1>2 DEF No, From
  <2> QED
    BY <1>1, <2>1, <2>2
<1>5. CASE i \in 1..Len(ts) /\ IsConstraintOperator(ts, i)
  <2>1. Limit(ts, i) = {[r EXCEPT !.text = <<ts[i].name>> \o @] : r \in GetNumberExp(ts, i + 1)}
    <3>1. ~(i > Len(ts))
      BY <1>2, <1>5
    <3> QED
      BY <1>5, <3>1, Zenon DEF Limit
  <2>2. GetNumberExp(ts, i + 1) \subseteq Moved(i + 1, n)
    BY <1>1, <1>2, <1>5, NumberPlaced
  <2>3. <<ts[i].name>> \in Seq(Texts)
    BY <1>5, TokensFacts
  <2>4. ASSUME NEW r \in Moved(i + 1, n)
        PROVE  [r EXCEPT !.text = <<ts[i].name>> \o @] \in From(i, n)
    <3>1. r.text \in Seq(Texts)
      BY <2>4 DEF Moved, From
    <3>2. PICK text \in Seq(Texts) : text = <<ts[i].name>> \o r.text
      BY <2>3, <3>1, ConcatProperties
    <3>3. [r EXCEPT !.text = text] \in From(i, n)
      BY <1>2, <2>4 DEF Moved, From
    <3> QED
      BY <3>2, <3>3
  <2> QED
    BY <1>1, <2>1, <2>2, <2>4
<1> QED
  BY <1>2, <1>3, <1>4, <1>5

LEMMA ConstraintPlaced ==
  ASSUME NEW ts \in Seq(Token), NEW i \in 1..(Len(ts) + 1), NEW r \in GetConstraint(ts, i)
  PROVE  r.at \in 1..(Len(ts) + 1)
<1>1. PICK n : n = Len(ts) + 1
  OBVIOUS
<1>2. PICK one \in Limit(ts, i) :
        \/ r = one
        \/ /\ one.is = "got"
           /\ \E two \in Limit(ts, one.at) : r = [two EXCEPT !.text = one.text \o @]
  BY DEF GetConstraint, Then
<1>3. one \in From(i, n) /\ one.at \in 1..n
  BY <1>1, LimitPlaced DEF From
<1>4. CASE r = one
  BY <1>1, <1>3, <1>4
<1>5. ASSUME NEW two \in Limit(ts, one.at), r = [two EXCEPT !.text = one.text \o @]
      PROVE  r.at \in 1..n
  <2>1. two \in From(one.at, n)
    BY <1>1, <1>3, <1>5, LimitPlaced
  <2>2. PICK text : text = one.text \o two.text
    OBVIOUS
  <2>3. r = [two EXCEPT !.text = text]
    BY <1>5, <2>2
  <2> QED
    BY <2>1, <2>3 DEF From
<1> QED
  BY <1>1, <1>2, <1>4, <1>5

-----------------------------------------------------------------------------
(***************************************************************************)
(* The functions for the operations.                                       *)
(***************************************************************************)
\* An option without its layer can be done with, or goes on in the code of
\* one of the options in D.
FitsIn(options, D) ==
  \A k \in DOMAIN options :
    options[k].kind \in {"layer", "again"} =>
      options[k].otherwise \in {"keep", "reject", "again"} \cup D

\* Each step leads to a step.
StepsFit(operands) ==
  /\ "first" \in DOMAIN operands
  /\ \A step \in DOMAIN operands : \A kind \in DOMAIN operands[step] :
       operands[step][kind] \in DOMAIN operands

Fits(c) == FitsIn(c.options, DOMAIN c.options) /\ StepsFit(c.operands)

LEMMA TogetherFacts ==
  ASSUME NEW parts
  PROVE  /\ DOMAIN Together(parts) = UNION {DOMAIN f : f \in parts}
         /\ \A k \in DOMAIN Together(parts) :
              \E f \in parts : k \in DOMAIN f /\ Together(parts)[k] = f[k]
<1>1. DOMAIN Together(parts) = UNION {DOMAIN f : f \in parts}
  BY DEF Together
<1>2. ASSUME NEW k \in UNION {DOMAIN f : f \in parts}
      PROVE  \E f \in parts : k \in DOMAIN f /\ Together(parts)[k] = f[k]
  <2>1. PICK g : g = CHOOSE f \in parts : k \in DOMAIN f
    OBVIOUS
  <2>2. g \in parts /\ k \in DOMAIN g
    BY <2>1
  <2>3. Together(parts)[k] = g[k]
    BY <2>1 DEF Together
  <2> QED
    BY <2>2, <2>3
<1> QED
  BY <1>1, <1>2

LEMMA OrderedFits ==
  ASSUME NEW parts, \A f \in parts : FitsIn(f, UNION {DOMAIN g : g \in parts}),
         NEW operands, StepsFit(operands), NEW rest
  PROVE  Fits(Ordered(parts, operands, rest))
<1> DEFINE D == UNION {DOMAIN g : g \in parts}
<1>1. \A f \in parts : FitsIn(f, D)
  OBVIOUS
<1>2. DOMAIN Together(parts) = D
  BY TogetherFacts
<1> HIDE DEF D
<1>3. FitsIn(Together(parts), D)
  <2> SUFFICES ASSUME NEW k \in DOMAIN Together(parts),
                      Together(parts)[k].kind \in {"layer", "again"}
               PROVE  Together(parts)[k].otherwise \in {"keep", "reject", "again"} \cup D
    BY DEF FitsIn
  <2>1. PICK f \in parts : k \in DOMAIN f /\ Together(parts)[k] = f[k]
    BY TogetherFacts
  <2> QED
    BY <1>1, <2>1 DEF FitsIn
<1> QED
  BY <1>2, <1>3 DEF Ordered, Fits

LEMMA CommandFits ==
  ASSUME NEW parts, \A f \in parts : FitsIn(f, {}), NEW rest
  PROVE  Fits(Command(parts, rest))
<1>1. \A f \in parts : FitsIn(f, UNION {DOMAIN g : g \in parts})
  BY DEF FitsIn
<1>2. StepsFit([first |-> [layer |-> "first"]])
  BY DEF StepsFit
<1> QED
  BY <1>1, <1>2, OrderedFits DEF Command

LEMMA EachFits ==
  ASSUME NEW keys, NEW second, NEW D
  PROVE  /\ FitsIn(Flags(keys), D)
         /\ FitsIn(Omit(keys), D)
         /\ FitsIn(Pairs(keys, second), D)
         /\ FitsIn(Words(keys), D)
         /\ \A otherwise : FitsIn(Values(keys, otherwise), D)
         /\ FitsIn(Follow(keys, second), D)
         /\ FitsIn(Skip(keys), D)
         /\ FitsIn(Names(keys), D)
         /\ FitsIn(After(keys, second), D)
         /\ FitsIn(Two(keys), D)
         /\ FitsIn(Again(keys), D)
         /\ \A otherwise : FitsIn(Limits(keys, otherwise), D)
         /\ \A otherwise \in {"keep", "reject", "again"} \cup D :
              FitsIn(Layers(keys, otherwise), D)
<1> USE DEF FitsIn, Each, Option
<1>1. FitsIn(Flags(keys), D) /\ FitsIn(Omit(keys), D) /\ FitsIn(Pairs(keys, second), D)
  BY DEF Flags, Omit, Pairs
<1>2. FitsIn(Words(keys), D) /\ \A otherwise : FitsIn(Values(keys, otherwise), D)
  BY DEF Words, Values
<1>3. FitsIn(Follow(keys, second), D) /\ FitsIn(Skip(keys), D) /\ FitsIn(Names(keys), D)
  BY DEF Follow, Skip, Names
<1>4. FitsIn(After(keys, second), D) /\ FitsIn(Two(keys), D) /\ FitsIn(Again(keys), D)
  BY DEF After, Two, Again
<1>5. \A otherwise : FitsIn(Limits(keys, otherwise), D)
  BY DEF Limits
<1>6. \A otherwise \in {"keep", "reject", "again"} \cup D :
        FitsIn(Layers(keys, otherwise), D)
  BY DEF Layers
<1> QED
  BY <1>1, <1>2, <1>3, <1>4, <1>5, <1>6

LEMMA CommandsOfLayers ==
  /\ \A op : Fits(GeomBoolean(op))
  /\ Fits(EdgeMerge)
  /\ \A op : Fits(GeomTopo(op))
  /\ Fits(Attach) /\ Fits(Connect) /\ Fits(Sconnect)
  /\ Fits(GeomAttr) /\ Fits(EdgeSelectByAttr) /\ Fits(CheckWidth)
  /\ Fits(GeomSelectByCoinEdge) /\ Fits(GeomCopyLayer) /\ Fits(GeomGetLayerBBox)
  /\ Fits(GeomFlattenLayer) /\ Fits(GeomSelectHoles) /\ Fits(GeomSelectRectangle)
  /\ Fits(EdgeTopo) /\ Fits(GeomGetBBox)
<1> USE CommandFits, EachFits
<1>1. \A op : Fits(GeomBoolean(op))
  BY DEF GeomBoolean
<1>2. ASSUME NEW op
      PROVE  Fits(GeomTopo(op))
  <2>1. PICK keys : GeomTopo(op) = Command({Flags(keys)}, "echo")
    BY DEF GeomTopo
  <2> QED
    BY <2>1
<1>3. Fits(Attach) /\ Fits(Connect) /\ Fits(Sconnect)
  BY DEF Attach, Connect, Sconnect
<1>4. /\ Fits(EdgeMerge)
      /\ Fits(GeomAttr) /\ Fits(EdgeSelectByAttr) /\ Fits(CheckWidth)
      /\ Fits(GeomSelectByCoinEdge) /\ Fits(GeomCopyLayer) /\ Fits(GeomGetLayerBBox)
      /\ Fits(GeomFlattenLayer)
  BY DEF EdgeMerge, GeomAttr, EdgeSelectByAttr, CheckWidth, GeomSelectByCoinEdge,
         GeomCopyLayer, GeomGetLayerBBox, GeomFlattenLayer
<1>5. Fits(GeomSelectHoles)
  BY DEF GeomSelectHoles
<1>6. Fits(GeomSelectRectangle)
  <2>1. /\ FitsIn(Limits({"BY", "ASPECT"}, "keep"), {})
        /\ FitsIn(Pairs({"ORTHOGONAL"}, {"ONLY"}), {})
        /\ FitsIn(Flags({"FIXED_SECOND", "MEASURE_EXTENTS"}), {})
    OBVIOUS
  <2> QED
    BY <2>1 DEF GeomSelectRectangle
<1>7. Fits(EdgeTopo)
  BY DEF EdgeTopo
<1>8. Fits(GeomGetBBox)
  BY DEF GeomGetBBox
<1> QED
  BY <1>1, <1>2, <1>3, <1>4, <1>5, <1>6, <1>7, <1>8

LEMMA CommandsOfOptions ==
  /\ Fits(EdgeExpandToRect) /\ Fits(GeomMergeLayer) /\ Fits(GeomMergeNet)
  /\ Fits(GeomPushLayer) /\ Fits(GeomStampLayer) /\ Fits(GeomSelectByNeighbor)
  /\ Fits(GeomSelectTexted) /\ Fits(AttachOrder) /\ Fits(GeomGetNetByArea)
  /\ Fits(DfmStamp) /\ Fits(ExecProc) /\ Fits(DfmOrEdge) /\ Fits(Size_XY)
  /\ \A op : Fits(GeomTransform(op))
<1> USE CommandFits, EachFits
<1>1. Fits(EdgeExpandToRect)
  <2>1. /\ FitsIn(Values({"INSIDE_BY", "INSIDE_BY_FACTOR", "OUTSIDE_BY",
                          "OUTSIDE_BY_FACTOR", "BY", "BY_FACTOR", "EXTEND_BY",
                          "EXTEND_BY_FACTOR"}, "drop"), {})
        /\ FitsIn(Flags({"CORNER_FILL"}), {})
    OBVIOUS
  <2> QED
    BY <2>1 DEF EdgeExpandToRect
<1>2. Fits(GeomMergeLayer) /\ Fits(GeomMergeNet) /\ Fits(AttachOrder) /\ Fits(DfmStamp)
  BY DEF GeomMergeLayer, GeomMergeNet, AttachOrder, DfmStamp
<1>3. Fits(GeomPushLayer) /\ Fits(GeomStampLayer)
  BY DEF GeomPushLayer, GeomStampLayer
<1>4. Fits(GeomSelectByNeighbor)
  <2>1. /\ FitsIn(Pairs({"ORTHOGONAL", "OCTAGONAL"}, {"ONLY"}), {})
        /\ FitsIn(Limits({"SPACE"}, "drop"), {})
        /\ FitsIn(Flags({"SQUARE", "CENTERS", "CONNECTED", "NOT_CONNECTED"}), {})
        /\ FitsIn(Layers({"INSIDE_OF_LAYER"}, "again"), {})
    OBVIOUS
  <2> QED
    BY <2>1 DEF GeomSelectByNeighbor
<1>5. Fits(GeomSelectTexted)
  BY DEF GeomSelectTexted
<1>6. Fits(GeomGetNetByArea) /\ Fits(ExecProc) /\ Fits(DfmOrEdge) /\ Fits(Size_XY)
  BY DEF GeomGetNetByArea, ExecProc, DfmOrEdge, Size_XY
<1>7. ASSUME NEW op
      PROVE  Fits(GeomTransform(op))
  <2>1. PICK f, g : /\ GeomTransform(op) =
                         Command({After({"RIGHT", "LEFT", "BOTTOM", "TOP"}, {"BY"}), f, g},
                                 "reject")
                    /\ f = Two({"BY"}) \/ f = Values({"BY"}, "drop")
                    /\ \E keys : g = Flags(keys)
    BY Zenon DEF GeomTransform
  <2>2. FitsIn(f, {}) /\ FitsIn(g, {})
        /\ FitsIn(After({"RIGHT", "LEFT", "BOTTOM", "TOP"}, {"BY"}), {})
    BY <2>1
  <2> QED
    BY <2>1, <2>2
<1> QED
  BY <1>1, <1>2, <1>3, <1>4, <1>5, <1>6, <1>7

\* The functions that take other operands than layers.
LEMMA CommandsOfSteps ==
  /\ Fits(GeomGetNetByName) /\ Fits(GeomSelectInCell) /\ Fits(GeomGetCellBBox)
  /\ Fits(GeomGetTextBBox) /\ Fits(GeomVerticeSnapToGrid)
  /\ Fits(EdgeAngledToRegular) /\ Fits(CheckFittingRectangle)
<1>1. Fits(GeomGetNetByName)
  <2>1. StepsFit([first |-> [layer |-> "then"], then |-> [name |-> "then"]])
    BY DEF StepsFit
  <2> QED
    BY <2>1, OrderedFits DEF GeomGetNetByName
<1>2. Fits(GeomSelectInCell)
  <2>1. StepsFit(GeomGetNetByName.operands)
    BY <1>1 DEF Fits
  <2>2. \A D : /\ FitsIn(Pairs({"PRIMARY"}, {"ONLY"}), D)
               /\ FitsIn(Again({"WITH_LAYER"}), D)
               /\ FitsIn(Follow({"WITH_MATCH"}, {"GOLDEN"}), D)
               /\ FitsIn(Omit({"GOLDEN"}), D)
               /\ FitsIn(Skip({"RULE", "WITH_PROPERTY", "NOT_WITH_PROPERTY"}), D)
    BY EachFits
  <2> QED
    BY <2>1, <2>2, OrderedFits DEF GeomSelectInCell
<1>3. Fits(GeomGetCellBBox)
  <2>1. StepsFit([first |-> [name |-> "first"]])
    BY DEF StepsFit
  <2>2. \A D : /\ FitsIn(Flags({"ORIGINAL", "MAPPED", "OCCUPIED"}), D)
               /\ FitsIn(Follow({"WITH_MATCH"}, {"GOLDEN"}), D)
    BY EachFits
  <2> QED
    BY <2>1, <2>2, OrderedFits DEF GeomGetCellBBox
<1>4. Fits(GeomGetTextBBox)
  <2>1. StepsFit([first |-> [name |-> "then"], then |-> [layer |-> "done"],
                  done |-> Nothing])
    BY DEF StepsFit, Nothing
  <2>2. \A D : /\ FitsIn(Pairs({"PRIMARY"}, {"ONLY"}), D)
               /\ FitsIn(Pairs({"CASE"}, {"SENSITIVE"}), D)
               /\ FitsIn(Values({"BY"}, "drop"), D)
    BY EachFits
  <2> QED
    BY <2>1, <2>2, OrderedFits DEF GeomGetTextBBox
<1>5. Fits(GeomVerticeSnapToGrid)
  <2>1. StepsFit([first |-> [layer |-> "then", number |-> "first"],
                  then  |-> [number |-> "then"]])
    BY DEF StepsFit
  <2> QED
    BY <2>1, OrderedFits DEF GeomVerticeSnapToGrid
<1>6. Fits(EdgeAngledToRegular)
  <2>1. StepsFit([first  |-> [layer |-> "number", number |-> "layer"],
                  number |-> [number |-> "done"], layer |-> [layer |-> "done"],
                  done   |-> Nothing])
    BY DEF StepsFit, Nothing
  <2>2. \A D : /\ FitsIn(Pairs({"ORTHOGONAL"}, {"ONLY"}), D)
               /\ FitsIn(Flags({"SKEW", "ALL"}), D)
    BY EachFits
  <2> QED
    BY <2>1, <2>2, OrderedFits DEF EdgeAngledToRegular
<1>7. Fits(CheckFittingRectangle)
  <2>1. StepsFit([first  |-> [layer |-> "width"], width |-> [number |-> "length"],
                  length |-> [number |-> "done"], done  |-> Nothing])
    BY DEF StepsFit, Nothing
  <2>2. \A D : /\ FitsIn(Pairs({"ORTHOGONAL"}, {"ONLY"}), D)
               /\ FitsIn(Flags({"FIXED_SECOND"}), D)
    BY EachFits
  <2> QED
    BY <2>1, <2>2, OrderedFits DEF CheckFittingRectangle
<1> QED
  BY <1>1, <1>2, <1>3, <1>4, <1>5, <1>6, <1>7

\* convSizeCmd(): INSIDE_OF goes on in the code of OUTSIDE_OF, and that in the
\* code of STEP.
LEMMA SizeFits == Fits(Size)
<1> DEFINE values == Values({"BY", "STEP", "TRUNCATE", "BEVEL"}, "drop")
           inside == Layers({"INSIDE_OF"}, "OUTSIDE_OF")
           outside == Layers({"OUTSIDE_OF"}, "STEP")
           flags == Flags({"OVERLAP_ONLY", "UNDEROVER", "OVERUNDER"})
           D == UNION {DOMAIN f : f \in {values, inside, outside, flags}}
<1>1. "STEP" \in DOMAIN values /\ "OUTSIDE_OF" \in DOMAIN outside
  BY DEF Values, Layers, Each
<1>2. "STEP" \in D /\ "OUTSIDE_OF" \in D
  <2> HIDE DEF values, outside, inside, flags
  <2> QED
    BY <1>1
<1>3. /\ FitsIn(values, D) /\ FitsIn(flags, D)
      /\ FitsIn(inside, D) /\ FitsIn(outside, D)
  <2> HIDE DEF D
  <2> QED
    BY <1>2, EachFits
<1>4. StepsFit([first |-> [layer |-> "first"]])
  BY DEF StepsFit
<1>5. Size = Ordered({values, inside, outside, flags}, [first |-> [layer |-> "first"]],
                     "reject")
  BY DEF Size, Command
<1> HIDE DEF values, inside, outside, flags
<1> QED
  BY <1>3, <1>4, <1>5, OrderedFits

LEMMA CommandsFit == \A op \in DOMAIN Commands : Fits(Commands[op])
<1>1. ASSUME NEW f \in Cases, NEW k \in DOMAIN f
      PROVE  Fits(f[k])
  BY CommandsOfLayers, CommandsOfOptions, CommandsOfSteps, SizeFits DEF Cases
<1> QED
  BY <1>1, TogetherFacts DEF Commands

-----------------------------------------------------------------------------
(***************************************************************************)
(* The types of the writer's variables.                                    *)
(***************************************************************************)
\* A call reads a list of the tree, within its bounds, and its option and its
\* step are ones of the function for the operation.
Knows(operation, option, step) ==
  /\ option \in {""} \cup DOMAIN Commands[operation].options
  /\ step \in DOMAIN Commands[operation].operands

PlacedIn(call, list) ==
  /\ call \in Call
  /\ call.node \in DOMAIN list
  /\ call.pos \in 1..(Len(list[call.node].tokens) + 1)
  /\ Knows(list[call.node].operation, call.option, call.step)

AllPlaced(c, list) == c \in Seq(Call) /\ \A i \in DOMAIN c : PlacedIn(c[i], list)

\* Tokens are replaced, but the lists keep their lengths.
SameShape(list1, list2) ==
  /\ DOMAIN list1 = DOMAIN list2 /\ Len(list1) = Len(list2)
  /\ \A v \in DOMAIN list1 :
       /\ list2[v].operation = list1[v].operation
       /\ Len(list2[v].tokens) = Len(list1[v].tokens)

TypeInv ==
  /\ WriterInv
  /\ collecting \in BOOLEAN
  /\ at \in 1..(Len(nodes) + 1)
  /\ AllPlaced(calls, nodes)
  /\ calls # <<>> => ~collecting /\ calls[1].node = at
  /\ status \in Statuses

LEMMA ShapeKept ==
  ASSUME NEW list1, NEW list2, SameShape(list1, list2), NEW call, PlacedIn(call, list1)
  PROVE  PlacedIn(call, list2)
BY DEF SameShape, PlacedIn

\* The innermost call goes on somewhere else.
Going(c, pos, option, step) ==
  [c EXCEPT ![Len(c)].pos = pos, ![Len(c)].option = option, ![Len(c)].step = step]

MayGo(c, list, pos, option, step) ==
  /\ c # <<>>
  /\ pos \in 1..(Len(list[c[Len(c)].node].tokens) + 1)
  /\ Knows(list[c[Len(c)].node].operation, option, step)

LEMMA GoesOn ==
  ASSUME NEW list, list \in Seq(Node), NEW c, AllPlaced(c, list),
         NEW pos, NEW option, NEW step, MayGo(c, list, pos, option, step),
         NEW d, d = Going(c, pos, option, step)
  PROVE  AllPlaced(d, list) /\ d # <<>> /\ d[1].node = c[1].node
<1>1. PICK n : n = Len(c)
  OBVIOUS
<1>2. c \in Seq(Call) /\ n \in Nat \ {0} /\ DOMAIN c = 1..n
  BY <1>1, EmptySeq, LenProperties DEF AllPlaced, MayGo
<1>3. PlacedIn(c[n], list)
  BY <1>2 DEF AllPlaced
<1> DEFINE new == [c[n] EXCEPT !.pos = pos, !.option = option, !.step = step]
<1>4. /\ d = [c EXCEPT ![n] = new]
      /\ new.node = c[n].node
  BY <1>1, <1>2, <1>3 DEF PlacedIn, Call, Going
<1>5. PlacedIn(new, list)
  <2>1. list[c[n].node] \in Node
    BY <1>3, ElementOfSeq, LenProperties DEF PlacedIn
  <2>2. list[c[n].node].operation \in DOMAIN Commands
    BY <2>1 DEF Node
  <2>3. option \in {""} \cup OptionNames /\ step \in Steps
    BY <1>1, <2>2 DEF Knows, OptionNames, Steps, MayGo
  <2>4. pos \in Nat
    BY <1>1, <2>1, LenProperties DEF Node, MayGo
  <2>5. new \in Call /\ new.pos = pos /\ new.option = option /\ new.step = step
    BY <1>3, <2>3, <2>4 DEF PlacedIn, Call
  <2> HIDE DEF new
  <2> QED
    BY <1>1, <1>3, <1>4, <2>5 DEF PlacedIn, MayGo
<1> HIDE DEF new
<1>6. d \in Seq(Call) /\ Len(d) = n /\ DOMAIN d = DOMAIN c
      /\ \A i \in DOMAIN c : d[i] = IF i = n THEN new ELSE c[i]
  <2>1. new \in Call
    BY <1>5 DEF PlacedIn
  <2>2. n \in 1..Len(c)
    BY <1>1, <1>2
  <2>3. c \in Seq(Call)
    BY <1>2
  <2>4. /\ [c EXCEPT ![n] = new] \in Seq(Call)
        /\ Len([c EXCEPT ![n] = new]) = Len(c)
    BY <2>1, <2>2, <2>3, ExceptSeq
  <2>5. \A i \in 1..Len(c) : [c EXCEPT ![n] = new][i] = IF i = n THEN new ELSE c[i]
    BY <2>1, <2>2, <2>3, ExceptSeq
  <2> QED
    BY <1>1, <1>2, <1>4, <2>4, <2>5, LenProperties
<1>7. \A i \in DOMAIN d : PlacedIn(d[i], list)
  BY <1>5, <1>6 DEF AllPlaced
<1>8. d # <<>>
  BY <1>2, <1>6, EmptySeq
<1>9. d[1].node = c[1].node
  BY <1>2, <1>4, <1>6
<1> QED
  BY <1>6, <1>7, <1>8, <1>9 DEF AllPlaced

\* A call begins, and a call ends.
LEMMA CallBegins ==
  ASSUME NEW list, NEW c, AllPlaced(c, list), NEW new, PlacedIn(new, list)
  PROVE  /\ AllPlaced(Append(c, new), list)
         /\ Append(c, new) # <<>>
         /\ Append(c, new)[1] = IF c = <<>> THEN new ELSE c[1]
<1>1. c \in Seq(Call) /\ new \in Call /\ Len(c) \in Nat /\ DOMAIN c = 1..Len(c)
  BY LenProperties DEF AllPlaced, PlacedIn
<1>2. PICK d : d = Append(c, new)
  OBVIOUS
<1>3. d \in Seq(Call) /\ Len(d) = Len(c) + 1 /\ DOMAIN d = 1..(Len(c) + 1)
  BY <1>1, <1>2, AppendProperties, LenProperties
<1>4. (\A i \in 1..Len(c) : d[i] = c[i]) /\ d[Len(c) + 1] = new
  BY <1>1, <1>2, AppendProperties
<1>5. ASSUME NEW i \in DOMAIN d
      PROVE  PlacedIn(d[i], list)
  <2>1. i \in 1..Len(c) \/ i = Len(c) + 1
    BY <1>1, <1>3
  <2> QED
    BY <1>1, <1>4, <2>1 DEF AllPlaced
<1>6. d # <<>>
  BY <1>1, <1>3, EmptySeq
<1>7. CASE c = <<>>
  <2>1. Len(c) = 0
    BY <1>7, EmptySeq
  <2> QED
    BY <1>2, <1>3, <1>4, <1>5, <1>6, <1>7, <2>1 DEF AllPlaced
<1>8. CASE c # <<>>
  <2>1. Len(c) # 0
    BY <1>1, <1>8, EmptySeq
  <2>2. 1 \in 1..Len(c)
    BY <1>1, <2>1
  <2> QED
    BY <1>2, <1>3, <1>4, <1>5, <1>6, <1>8, <2>2 DEF AllPlaced
<1> QED
  BY <1>7, <1>8

LEMMA CallEnds ==
  ASSUME NEW list, NEW c, AllPlaced(c, list), c # <<>>
  PROVE  /\ AllPlaced(Front(c), list)
         /\ Len(c) \in Nat \ {0}
         /\ Len(c) = 1 => Front(c) = <<>>
         /\ Len(c) # 1 => Front(c)[1] = c[1]
<1>1. c \in Seq(Call) /\ Len(c) \in Nat \ {0} /\ DOMAIN c = 1..Len(c)
  BY EmptySeq, LenProperties DEF AllPlaced
<1>2. PICK d : d = Front(c)
  OBVIOUS
<1>3. /\ d \in Seq(Call) /\ Len(d) = Len(c) - 1
      /\ \A i \in 1..(Len(c) - 1) : d[i] = c[i]
  <2>1. \A i \in 1..(Len(c) - 1) : c[i] \in Call
    BY <1>1, ElementOfSeq
  <2> QED
    BY <1>1, <1>2, <2>1, SubSeqProperties DEF Front
<1>4. DOMAIN d = 1..(Len(c) - 1)
  BY <1>3, LenProperties
<1>5. \A i \in DOMAIN d : PlacedIn(d[i], list)
  BY <1>1, <1>3, <1>4 DEF AllPlaced
<1>6. Len(c) = 1 => d = <<>>
  BY <1>3, EmptySeq
<1>7. Len(c) # 1 => d[1] = c[1]
  BY <1>1, <1>3
<1> QED
  BY <1>1, <1>2, <1>3, <1>5, <1>6, <1>7 DEF AllPlaced

\* What the innermost call reads, and the function for its operation.
LEMMA NowFacts ==
  ASSUME TypeInv, calls # <<>>
  PROVE  /\ PlacedIn(calls[Len(calls)], nodes)
         /\ Tokens = nodes[calls[Len(calls)].node].tokens
         /\ Now = Commands[nodes[calls[Len(calls)].node].operation]
         /\ Tokens \in Seq(Token)
         /\ Len(Tokens) \in Nat /\ DOMAIN Tokens = 1..Len(Tokens)
         /\ Pos \in 1..(Len(Tokens) + 1)
         /\ Fits(Now)
         /\ Innermost.step \in DOMAIN Now.operands
<1>1. /\ Innermost = calls[Len(calls)]
      /\ Tokens = nodes[calls[Len(calls)].node].tokens
      /\ Now = Commands[nodes[calls[Len(calls)].node].operation]
      /\ Pos = calls[Len(calls)].pos
  BY DEF Innermost, Tokens, Here, Now, Pos
<1>2. PICK call : call = calls[Len(calls)]
  OBVIOUS
<1>3. PlacedIn(call, nodes)
  BY <1>2, HereFacts DEF TypeInv, AllPlaced
<1>4. nodes[call.node] \in Node /\ nodes[call.node].tokens \in Seq(Token)
  BY <1>3, NodeFacts DEF TypeInv, WriterInv, PlacedIn
<1>5. nodes[call.node].operation \in DOMAIN Commands
  BY <1>4 DEF Node
<1>6. Fits(Commands[nodes[call.node].operation])
  BY <1>5, CommandsFit
<1>7. /\ call.step \in DOMAIN Commands[nodes[call.node].operation].operands
      /\ call.pos \in 1..(Len(nodes[call.node].tokens) + 1)
  BY <1>3 DEF PlacedIn, Knows
<1>8. /\ Len(nodes[call.node].tokens) \in Nat
      /\ DOMAIN nodes[call.node].tokens = 1..Len(nodes[call.node].tokens)
  BY <1>4, LenProperties
<1> QED
  BY <1>1, <1>2, <1>3, <1>4, <1>6, <1>7, <1>8

LEMMA StopKeeps ==
  ASSUME TypeInv, WriterInv', NEW how \in Statuses, Stop(how)
  PROVE  TypeInv'
BY DEF TypeInv, Stop

LEMMA MayGoOn ==
  ASSUME TypeInv, calls # <<>>, NEW pos \in 1..(Len(Tokens) + 1),
         NEW option, option = "" \/ option \in DOMAIN Now.options,
         NEW step, step \in DOMAIN Now.operands
  PROVE  MayGo(calls, nodes, pos, option, step)
<1>1. PICK c : c = calls
  OBVIOUS
<1>2. /\ Tokens = nodes[c[Len(c)].node].tokens
      /\ Now = Commands[nodes[c[Len(c)].node].operation]
  BY <1>1, NowFacts
<1>3. Knows(nodes[c[Len(c)].node].operation, option, step)
  BY <1>2 DEF Knows
<1> QED
  BY <1>1, <1>2, <1>3 DEF MayGo

\* The call goes on somewhere in its list.
LEMMA CallKeeps ==
  ASSUME TypeInv, WriterInv', NEW pos, NEW option, NEW step,
         MayGo(calls, nodes, pos, option, step),
         calls' = [MovedTo(pos, option) EXCEPT ![Len(calls)].step = step],
         SameShape(nodes, nodes'), UNCHANGED <<collecting, at, status>>
  PROVE  TypeInv'
<1>1. PICK d : d = calls'
  OBVIOUS
<1>2. AllPlaced(d, nodes) /\ d # <<>> /\ d[1].node = calls[1].node
  <2>1. PICK list, c : list = nodes /\ c = calls
    OBVIOUS
  <2>2. d = Going(c, pos, option, step)
    BY <1>1, <2>1 DEF MovedTo, Going
  <2>3. AllPlaced(c, list) /\ list \in Seq(Node) /\ MayGo(c, list, pos, option, step)
    BY <2>1 DEF TypeInv, WriterInv
  <2>4. AllPlaced(d, list) /\ d # <<>> /\ d[1].node = c[1].node
    BY ONLY <2>2, <2>3, GoesOn
  <2> QED
    BY <2>1, <2>4
<1>3. AllPlaced(d, nodes')
  BY <1>2, ShapeKept DEF AllPlaced
<1>4. at' \in 1..(Len(nodes') + 1)
  BY DEF TypeInv, SameShape
<1>5. ~collecting /\ calls[1].node = at
  BY DEF TypeInv, MayGo
<1> QED
  BY <1>1, <1>2, <1>3, <1>4, <1>5 DEF TypeInv

\* The same without another step.
LEMMA MovedPlaced ==
  ASSUME TypeInv, calls # <<>>, NEW pos, NEW option,
         MayGo(calls, nodes, pos, option, Innermost.step),
         NEW d, d = MovedTo(pos, option)
  PROVE  /\ AllPlaced(d, nodes) /\ d # <<>> /\ d[1].node = calls[1].node
         /\ d = [MovedTo(pos, option) EXCEPT ![Len(calls)].step = Innermost.step]
<1>1. PICK c, n, step : c = calls /\ n = Len(c) /\ step = c[n].step
  OBVIOUS
<1>2. c \in Seq(Call) /\ n \in DOMAIN c /\ c[n] \in Call
  <2>1. c \in Seq(Call)
    BY <1>1 DEF TypeInv, AllPlaced
  <2>2. n \in DOMAIN c
    BY <1>1, HereFacts DEF TypeInv
  <2>3. c[n] \in Call
    BY <1>1, NowFacts DEF PlacedIn
  <2> QED
    BY <2>1, <2>2, <2>3
<1>3. d = [c EXCEPT ![n].pos = pos, ![n].option = option]
  BY <1>1 DEF MovedTo
<1>4. d = [c EXCEPT ![n].pos = pos, ![n].option = option, ![n].step = step]
  <2>1. PICK e : e = [c[n] EXCEPT !.pos = pos, !.option = option]
    OBVIOUS
  <2>2. [e EXCEPT !.step = step] = e
    BY <1>1, <1>2, <2>1 DEF Call
  <2>3. d = [c EXCEPT ![n] = e]
    BY <1>2, <1>3, <2>1
  <2>4. [c EXCEPT ![n].pos = pos, ![n].option = option, ![n].step = step]
          = [c EXCEPT ![n] = [e EXCEPT !.step = step]]
    BY <1>2, <2>1
  <2> QED
    BY <2>2, <2>3, <2>4
<1>5. step = Innermost.step
  BY <1>1 DEF Innermost
<1>6. AllPlaced(c, nodes) /\ nodes \in Seq(Node) /\ MayGo(c, nodes, pos, option, step)
  BY <1>1, <1>5 DEF TypeInv, WriterInv
<1>7. d = Going(c, pos, option, step)
  BY <1>1, <1>4 DEF Going
<1>8. AllPlaced(d, nodes) /\ d # <<>> /\ d[1].node = c[1].node
  BY ONLY <1>6, <1>7, GoesOn
<1> QED
  BY <1>1, <1>4, <1>5, <1>8 DEF MovedTo

LEMMA WriteStepKeeps ==
  ASSUME TypeInv, WriterInv', calls # <<>>, NEW p, NEW pos \in 1..(Len(Tokens) + 1),
         NEW step, step \in DOMAIN Now.operands, WriteStep(p, pos, step)
  PROVE  TypeInv'
<1>1. SameShape(nodes, nodes')
  BY DEF WriteStep, SameShape
<1>2. MayGo(calls, nodes, pos, "", step)
  BY MayGoOn
<1> QED
  BY <1>1, <1>2, CallKeeps DEF WriteStep

LEMMA WriteKeeps ==
  ASSUME TypeInv, WriterInv', calls # <<>>, NEW p, NEW pos \in 1..(Len(Tokens) + 1),
         Write(p, pos)
  PROVE  TypeInv'
<1>1. Innermost.step \in DOMAIN Now.operands
  BY NowFacts
<1> QED
  BY <1>1, WriteStepKeeps DEF Write

\* A layer is read within the list, and is written where it has been read.
LEMMA LayerRefAt ==
  ASSUME TypeInv, calls # <<>>, NEW i, LayerRef(i).is = "layer"
  PROVE  LayerRef(i).at \in 2..(Len(Tokens) + 1)
<1>1. i \in 1..Len(Tokens) /\ Len(Tokens) \in Nat
  BY NowFacts DEF LayerRef
<1>2. \/ LayerRef(i).at = i + 1
      \/ i < Len(Tokens) /\ LayerRef(i).at = i + 2
  BY <1>1, NowFacts DEF LayerRef
<1> QED
  BY <1>1, <1>2

LEMMA WriteLayerKeeps ==
  ASSUME TypeInv, WriterInv', calls # <<>>, NEW p, NEW i, LayerRef(i).is = "layer",
         NEW step, step \in DOMAIN Now.operands, WriteLayer(p, LayerRef(i), step)
  PROVE  TypeInv'
<1>1. PICK n : n = Innermost.node
  OBVIOUS
<1>2. PICK token : token = LayerRef(i).token
  OBVIOUS
<1>3. PICK pos : pos = LayerRef(i).at
  OBVIOUS
<1>4. PICK j : j = pos - 1
  OBVIOUS
<1>5. /\ nodes' = [nodes EXCEPT ![n].tokens[j] = token]
      /\ calls' = [MovedTo(pos, "") EXCEPT ![Len(calls)].step = step]
      /\ UNCHANGED <<collecting, at, status>>
  BY <1>1, <1>2, <1>3, <1>4 DEF WriteLayer
<1>6. pos \in 1..(Len(Tokens) + 1) /\ j \in 1..Len(Tokens)
  <2>1. pos \in 2..(Len(Tokens) + 1) /\ Len(Tokens) \in Nat
    BY <1>3, LayerRefAt, NowFacts
  <2> QED
    BY <1>4, <2>1
<1>7. token \in Token
  BY <1>2, LayerRefFacts DEF TypeInv
<1>8. /\ nodes \in Seq(Node) /\ n \in 1..Len(nodes) /\ DOMAIN nodes = 1..Len(nodes)
      /\ nodes[n] \in Node /\ nodes[n].tokens \in Seq(Token)
      /\ j \in 1..Len(nodes[n].tokens)
  BY <1>1, <1>6, HereFacts, NodeFacts DEF TypeInv, WriterInv, Tokens, Here
<1>9. PICK tokens : tokens = [nodes[n].tokens EXCEPT ![j] = token]
  OBVIOUS
<1>10. tokens \in Seq(Token) /\ Len(tokens) = Len(nodes[n].tokens)
  BY <1>7, <1>8, <1>9, ExceptSeq
<1>11. PICK node : node = [nodes[n] EXCEPT !.tokens = tokens]
  OBVIOUS
<1>12. node \in Node /\ node.tokens = tokens /\ node.operation = nodes[n].operation
  BY <1>8, <1>10, <1>11 DEF Node
<1>13. nodes' = [nodes EXCEPT ![n] = node]
  BY <1>5, <1>9, <1>11
<1>14. Len(nodes') = Len(nodes)
  BY <1>8, <1>12, <1>13, ExceptSeq
<1>15. SameShape(nodes, nodes')
  BY <1>8, <1>10, <1>12, <1>13, <1>14 DEF SameShape
<1>16. MayGo(calls, nodes, pos, "", step)
  BY <1>6, MayGoOn
<1> QED
  BY <1>5, <1>15, <1>16, CallKeeps

\* An operation begins at the beginning of its list, and a call of a macro
\* behind its name.
LEMMA BegunPlaced ==
  ASSUME TypeInv, NEW v \in DOMAIN nodes, ~WithoutName(v)
  PROVE  PlacedIn(Begun(v), nodes) /\ Begun(v).node = v
<1>1. nodes[v] \in Node /\ Len(nodes[v].tokens) \in Nat /\ v \in Nat
  BY NodeFacts DEF TypeInv, WriterInv
<1>2. nodes[v].operation \in DOMAIN Commands
  BY <1>1 DEF Node
<1>3. "first" \in DOMAIN Commands[nodes[v].operation].operands
  BY <1>2, CommandsFit DEF Fits, StepsFit
<1>4. "first" \in Steps
  BY <1>2, <1>3 DEF Steps
<1>5. PICK pos : pos = IF nodes[v].operation = "CMACRO" THEN 3 ELSE 1
  OBVIOUS
<1>6. pos \in 1..(Len(nodes[v].tokens) + 1) /\ pos \in Nat
  BY <1>1, <1>5 DEF WithoutName
<1>7. PICK first, none : first = "first" /\ none = ""
  OBVIOUS
<1>8. Begun(v) = [node |-> v, pos |-> pos, option |-> none, step |-> first]
  BY <1>5, <1>7 DEF Begun
<1>9. none \in {""} \cup OptionNames /\ first \in Steps
  BY <1>4, <1>7
<1>10. Begun(v) \in Call /\ Begun(v).node = v /\ Begun(v).pos = pos
  <2>1. v \in Nat /\ pos \in Nat
    BY <1>1, <1>6
  <2> DEFINE options == {""} \cup OptionNames
  <2>2. none \in options
    BY <1>9
  <2>3. Call = [node : Nat, pos : Nat, option : options, step : Steps]
    BY DEF Call
  <2> HIDE DEF options
  <2>4. [node |-> v, pos |-> pos, option |-> none, step |-> first] \in Call
    BY <1>9, <2>1, <2>2, <2>3
  <2> QED
    BY <1>8, <2>4
<1>11. Knows(nodes[v].operation, none, first)
  BY <1>3, <1>7 DEF Knows
<1>12. Begun(v).option = none /\ Begun(v).step = first
  BY <1>8
<1> QED
  BY <1>6, <1>10, <1>11, <1>12 DEF PlacedIn

LEMMA ExpandKeeps ==
  ASSUME TypeInv, WriterInv', calls # <<>>, NEW p, NEW i, IsTmpName(i),
         NEW back \in 1..(Len(Tokens) + 1), Expand(p, i, back)
  PROVE  TypeInv'
<1>1. PICK v : v = deck.tmpLayers[Tokens[i].name]
  OBVIOUS
<1>2. v \in DOMAIN nodes
  BY <1>1, DeckFacts, NodeFacts DEF TypeInv, WriterInv, IsTmpName, IsTmpLayer
<1>3. \/ Write(p, back)
      \/ Stop("undefined") \/ Stop("thrown")
      \/ /\ ~WithoutName(v)
         /\ calls' = Append(MovedTo(back, ""), Begun(v))
         /\ UNCHANGED <<nodes, collecting, at, status>>
  BY <1>1 DEF Expand, Throw
<1>4. CASE Stop("undefined") \/ Stop("thrown")
  BY <1>4, StopKeeps DEF Statuses
<1>5. CASE /\ ~WithoutName(v)
           /\ calls' = Append(MovedTo(back, ""), Begun(v))
           /\ UNCHANGED <<nodes, collecting, at, status>>
  <2>1. PICK new : new = Begun(v)
    OBVIOUS
  <2>2. PlacedIn(new, nodes)
    BY <1>2, <1>5, <2>1, BegunPlaced
  <2>3. PICK c : c = MovedTo(back, "")
    OBVIOUS
  <2>4. AllPlaced(c, nodes) /\ c # <<>> /\ c[1].node = calls[1].node
    <3>1. MayGo(calls, nodes, back, "", Innermost.step)
      BY MayGoOn, NowFacts
    <3> QED
      BY <2>3, <3>1, MovedPlaced
  <2>5. PICK d : d = Append(c, new)
    OBVIOUS
  <2>6. AllPlaced(d, nodes) /\ d # <<>> /\ d[1] = c[1]
    BY <2>2, <2>4, <2>5, CallBegins
  <2>7. calls' = d /\ UNCHANGED <<nodes, collecting, at, status>>
    BY <1>5, <2>1, <2>3, <2>5
  <2>8. ~collecting /\ calls[1].node = at
    BY DEF TypeInv
  <2> QED
    BY <2>4, <2>6, <2>7, <2>8 DEF TypeInv
<1> QED
  BY <1>3, <1>4, <1>5, WriteKeeps

LEMMA NumberAt ==
  ASSUME TypeInv, calls # <<>>, NEW i \in 1..(Len(Tokens) + 1),
         NEW r \in GetNumberExp(Tokens, i)
  PROVE  r.at \in 1..(Len(Tokens) + 1)
<1>1. PICK ts, n : ts = Tokens /\ n = Len(Tokens) + 1
  OBVIOUS
<1>2. ts \in Seq(Token) /\ n = Len(ts) + 1
  BY <1>1, NowFacts
<1>3. GetNumberExp(ts, i) \subseteq Moved(i, n)
  BY <1>1, <1>2, NumberPlaced
<1> QED
  BY <1>1, <1>3 DEF Moved, From

LEMMA ConstraintAt ==
  ASSUME TypeInv, calls # <<>>, NEW i \in 1..(Len(Tokens) + 1),
         NEW r \in GetConstraint(Tokens, i)
  PROVE  r.at \in 1..(Len(Tokens) + 1)
<1>1. PICK ts : ts = Tokens
  OBVIOUS
<1>2. ts \in Seq(Token) /\ r \in GetConstraint(ts, i) /\ i \in 1..(Len(ts) + 1)
  BY <1>1, NowFacts
<1>3. r.at \in 1..(Len(ts) + 1)
  BY ONLY <1>2, ConstraintPlaced
<1> QED
  BY <1>1, <1>3

\* The step after an operand.
LEMMA StepFacts ==
  ASSUME TypeInv, calls # <<>>, NEW kind, Accepts(kind)
  PROVE  StepAfter(kind) \in DOMAIN Now.operands
BY NowFacts DEF Accepts, StepAfter, Step, Fits, StepsFit

LEMMA StatusNames ==
  /\ "thrown" \in Statuses /\ "undefined" \in Statuses
  /\ "endless" \in Statuses /\ "done" \in Statuses
BY DEF Statuses

LEMMA StoppedKeeps ==
  ASSUME TypeInv, WriterInv',
         Throw \/ Endless \/ Stop("undefined") \/ Stop("done") \/ \E i : StopAt(i)
  PROVE  TypeInv'
<1>1. PICK how : how \in Statuses /\ Stop(how)
  BY StatusNames DEF Throw, Endless, StopAt
<1> QED
  BY <1>1, StopKeeps

LEMMA OperandsKeep ==
  ASSUME TypeInv, Operands
  PROVE  TypeInv'
<1>1. WriterInv'
  BY OperandsInv DEF TypeInv
<1>2. calls # <<>> /\ Pos \in DOMAIN Tokens
  <2>1. AtOperand
    BY Zenon DEF Operands, OperationKeyword, TmpOperand, LayerOperand, BadOperand,
         NameOperand, NumberOperand, RejectOperand, ConstraintOperand,
         ConstraintPast, RejectConstraint, EchoConstraint, IgnoreConstraint,
         RejectOperator, OperatorAgain, EchoSeparator, SeparatorAgain, RejectSeparator,
         AtTmp, AtOwnName, AtRest, AtOperator, AtSeparator
  <2> QED
    BY <2>1, Zenon DEF AtOperand, Reading, Busy
<1>3. /\ Pos \in 1..Len(Tokens) /\ Len(Tokens) \in Nat
      /\ Pos \in 1..(Len(Tokens) + 1) /\ Pos + 1 \in 1..(Len(Tokens) + 1)
      /\ Innermost.step \in DOMAIN Now.operands
  <2>1. Pos \in 1..Len(Tokens) /\ Len(Tokens) \in Nat
    BY <1>2, NowFacts
  <2> QED
    BY <1>2, <2>1, NowFacts
<1>4. CASE OperationKeyword
  <2>1. Write(<<>>, Pos + 1)
    BY <1>4, Zenon DEF OperationKeyword
  <2> QED
    BY <1>1, <1>2, <1>3, <2>1, WriteKeeps
<1>5. CASE TmpOperand
  <2>1. IsTmpName(Pos) /\ Expand(<<>>, Pos, Pos + 1)
    BY <1>5, Zenon DEF TmpOperand, AtTmp
  <2> QED
    BY <1>1, <1>2, <1>3, <2>1, ExpandKeeps
<1>6. CASE LayerOperand
  <2>1. Accepts("layer") /\ LayerRef(Pos).is = "layer"
        /\ WriteLayer(Echo, LayerRef(Pos), StepAfter("layer"))
    BY <1>6, Zenon DEF LayerOperand
  <2>2. StepAfter("layer") \in DOMAIN Now.operands
    BY <1>2, <2>1, StepFacts
  <2> QED
    BY <1>1, <1>2, <2>1, <2>2, WriteLayerKeeps
<1>7. CASE NameOperand
  <2>1. Accepts("name")
        /\ (Throw \/ WriteStep(<<Text(Tokens[Pos].name)>>, Pos + 1, StepAfter("name")))
    BY <1>7, Zenon DEF NameOperand
  <2>2. StepAfter("name") \in DOMAIN Now.operands
    BY <1>2, <2>1, StepFacts
  <2> QED
    BY <1>1, <1>2, <1>3, <2>1, <2>2, WriteStepKeeps, StoppedKeeps
<1>8. CASE NumberOperand
  <2>1. Accepts("number")
    BY <1>8, Zenon DEF NumberOperand
  <2>2. PICK r \in GetNumberExp(Tokens, Pos) :
          \/ \E p : WriteStep(p, r.at, StepAfter("number"))
          \/ Stop("undefined") \/ StopAt(r.at) \/ Endless
          \/ Write(<<>>, r.at)
    BY <1>8, Zenon DEF NumberOperand
  <2>3. StepAfter("number") \in DOMAIN Now.operands
    BY <1>2, <2>1, StepFacts
  <2>4. r.at \in 1..(Len(Tokens) + 1)
    BY <1>2, <1>3, NumberAt
  <2> QED
    BY <1>1, <1>2, <2>2, <2>3, <2>4, WriteStepKeeps, WriteKeeps, StoppedKeeps
<1>9. CASE BadOperand \/ RejectOperand \/ RejectOperator
  <2>1. Throw
    BY <1>9, Zenon DEF BadOperand, RejectOperand, RejectOperator
  <2> QED
    BY <1>1, <2>1, StoppedKeeps
<1>10. CASE OperatorAgain \/ SeparatorAgain \/ RejectSeparator
  <2>1. Endless \/ Throw
    BY <1>10, Zenon DEF OperatorAgain, SeparatorAgain, RejectSeparator
  <2> QED
    BY <1>1, <2>1, StoppedKeeps
<1>11. CASE ConstraintPast \/ RejectConstraint
  <2>1. Stop("undefined") \/ \E i : StopAt(i)
    BY <1>11, Zenon DEF ConstraintPast, RejectConstraint
  <2> QED
    BY <1>1, <2>1, StoppedKeeps
<1>12. CASE ConstraintOperand \/ EchoConstraint \/ IgnoreConstraint
  <2>1. PICK r \in GetConstraint(Tokens, Pos) :
          \/ \E p : Write(p, r.at)
          \/ ~(r.at > Len(Tokens)) /\ \E p : Write(p, r.at + 1)
          \/ Stop("undefined") \/ Endless
    BY <1>12, Zenon DEF ConstraintOperand, EchoConstraint, IgnoreConstraint, Found
  <2>2. r.at \in 1..(Len(Tokens) + 1)
    BY <1>2, <1>3, ConstraintAt
  <2>3. ~(r.at > Len(Tokens)) => r.at + 1 \in 1..(Len(Tokens) + 1)
    BY <1>3, <2>2
  <2> QED
    BY <1>1, <1>2, <2>1, <2>2, <2>3, WriteKeeps, StoppedKeeps
<1>13. CASE EchoSeparator
  <2>1. \E p : Write(p, Pos + 1)
    BY <1>13, Zenon DEF EchoSeparator
  <2> QED
    BY <1>1, <1>2, <1>3, <2>1, WriteKeeps
<1> QED
  BY <1>4, <1>5, <1>6, <1>7, <1>8, <1>9, <1>10, <1>11, <1>12, <1>13 DEF Operands

LEMMA OptionsKeep ==
  ASSUME TypeInv, Options
  PROVE  TypeInv'
<1>1. WriterInv'
  BY OptionsInv DEF TypeInv
<1>2. calls # <<>> /\ Pos \in DOMAIN Tokens
  <2>1. \E kind : AtOption(kind)
    BY Zenon DEF Options, FlagOption, OmitOption, SkipOption, PairOption, RejectPair,
         FollowOption, WordOption, NameOption, ValueOption, AfterOption,
         KeyOperand, TwoOption, LimitOption, TmpOption, TmpOptionAgain,
         LayerOption, BadLayerOption, WithoutLayer, AtLayerOption
  <2> QED
    BY <2>1, Zenon DEF AtOption, Reading, Busy
<1>3. /\ Pos \in 1..Len(Tokens) /\ Len(Tokens) \in Nat
      /\ Pos + 1 \in 1..(Len(Tokens) + 1)
      /\ Pos # Len(Tokens) => Pos + 2 \in 1..(Len(Tokens) + 1)
      /\ Pos + 1 \in DOMAIN Tokens => Pos + 2 \in 1..(Len(Tokens) + 1)
      /\ Innermost.step \in DOMAIN Now.operands
  <2>1. Pos \in 1..Len(Tokens) /\ Len(Tokens) \in Nat /\ DOMAIN Tokens = 1..Len(Tokens)
    BY <1>2, NowFacts
  <2> QED
    BY <1>2, <2>1, NowFacts
<1>4. SecondWord => Pos + 2 \in 1..(Len(Tokens) + 1)
  BY <1>3 DEF SecondWord, Is
<1>5. CASE FlagOption \/ OmitOption \/ SkipOption
  <2>1. \/ \E p : Write(p, Pos + 1)
        \/ Pos # Len(Tokens) /\ \E p : Write(p, Pos + 2)
    BY <1>5 DEF FlagOption, OmitOption, SkipOption
  <2> QED
    BY <1>1, <1>2, <1>3, <2>1, WriteKeeps
<1>6. CASE PairOption \/ RejectPair \/ FollowOption
  <2>1. \/ \E p : Write(p, Pos + 1)
        \/ SecondWord /\ \E p : Write(p, Pos + 2)
        \/ Throw
    BY <1>6 DEF PairOption, RejectPair, FollowOption
  <2> QED
    BY <1>1, <1>2, <1>3, <1>4, <2>1, WriteKeeps, StoppedKeeps
<1>7. CASE WordOption \/ NameOption
  <2>1. \/ Pos # Len(Tokens) /\ \E p : Write(p, Pos + 2)
        \/ Throw \/ Stop("undefined")
    BY <1>3, <1>7 DEF WordOption, NameOption
  <2> QED
    BY <1>1, <1>2, <1>3, <2>1, WriteKeeps, StoppedKeeps
<1>8. CASE ValueOption
  <2>1. PICK r \in GetNumberExp(Tokens, Pos + 1) :
          \/ \E p : Write(p, r.at)
          \/ Stop("undefined")
          \/ OperandInstead(r.at)
    BY <1>8 DEF ValueOption
  <2>2. r.at \in 1..(Len(Tokens) + 1)
    BY <1>2, <1>3, NumberAt
  <2>3. CASE OperandInstead(r.at)
    BY <1>1, <1>2, <1>3, <2>3, WriteLayerKeeps, StoppedKeeps DEF OperandInstead
  <2> QED
    BY <1>1, <1>2, <2>1, <2>2, <2>3, WriteKeeps, StoppedKeeps
<1>9. CASE AfterOption
  <2>1. SecondWord /\ \E r \in GetNumberExp(Tokens, Pos + 2) :
          (\E p : Write(p, r.at)) \/ Stop("undefined")
    BY <1>9 DEF AfterOption
  <2>2. PICK r \in GetNumberExp(Tokens, Pos + 2) :
          (\E p : Write(p, r.at)) \/ Stop("undefined")
    BY <2>1
  <2>3. r.at \in 1..(Len(Tokens) + 1)
    BY <1>2, <1>4, <2>1, NumberAt
  <2> QED
    BY <1>1, <1>2, <2>2, <2>3, WriteKeeps, StoppedKeeps
<1>10. CASE KeyOperand
  BY <1>1, <1>2, <1>3, <1>10, WriteLayerKeeps, StoppedKeeps DEF KeyOperand
<1>11. CASE TwoOption
  <2>1. PICK r1 \in GetNumberExp(Tokens, Pos + 1) :
          \/ Stop("undefined") \/ Throw
          \/ \E r2 \in GetNumberExp(Tokens, r1.at) :
               (\E p : Write(p, r2.at)) \/ Stop("undefined")
    BY <1>11 DEF TwoOption
  <2>2. r1.at \in 1..(Len(Tokens) + 1)
    BY <1>2, <1>3, NumberAt
  <2>3. ASSUME NEW r2 \in GetNumberExp(Tokens, r1.at)
        PROVE  r2.at \in 1..(Len(Tokens) + 1)
    BY <1>2, <2>2, NumberAt
  <2> QED
    BY <1>1, <1>2, <2>1, <2>3, WriteKeeps, StoppedKeeps
<1>12. CASE LimitOption
  <2>1. PICK r \in GetConstraint(Tokens, Pos + 1) :
          (\E p : Write(p, r.at)) \/ Stop("undefined")
    BY <1>12 DEF LimitOption
  <2>2. r.at \in 1..(Len(Tokens) + 1)
    BY <1>2, <1>3, ConstraintAt
  <2> QED
    BY <1>1, <1>2, <2>1, <2>2, WriteKeeps, StoppedKeeps
<1>13. CASE TmpOption \/ TmpOptionAgain
  <2>1. /\ IsTmpName(Pos + 1)
        /\ \E p : Expand(p, Pos + 1, Pos + 1) \/ Expand(p, Pos + 1, Pos + 2)
    <3>1. CASE TmpOption
      BY <3>1, Zenon DEF TmpOption
    <3>2. CASE TmpOptionAgain
      BY <3>2, Zenon DEF TmpOptionAgain
    <3> QED
      BY <1>13, <3>1, <3>2
  <2>2. Pos + 2 \in 1..(Len(Tokens) + 1)
    BY <1>3, <2>1 DEF IsTmpName
  <2> QED
    BY <1>1, <1>2, <1>3, <2>1, <2>2, ExpandKeeps
<1>14. CASE LayerOption
  BY <1>1, <1>2, <1>3, <1>14, WriteLayerKeeps DEF LayerOption
<1>15. CASE BadLayerOption
  BY <1>1, <1>15, StoppedKeeps DEF BadLayerOption, Throw
<1>16. CASE WithoutLayer
  <2>1. \/ Write(<<Text(AtKey)>>, Pos + 1)
        \/ Throw
        \/ Endless
        \/ /\ Otherwise \notin {"keep", "reject", "again"}
           /\ calls' = MovedTo(Pos + 1, Otherwise)
           /\ UNCHANGED <<nodes, collecting, at, status>>
    BY <1>16 DEF WithoutLayer
  <2>2. CASE /\ Otherwise \notin {"keep", "reject", "again"}
             /\ calls' = MovedTo(Pos + 1, Otherwise)
             /\ UNCHANGED <<nodes, collecting, at, status>>
    <3>1. AtKey \in DOMAIN Now.options /\ Now.options[AtKey].kind \in {"layer", "again"}
      BY <1>16, Zenon DEF WithoutLayer, AtLayerOption, AtOption
    <3>2. Otherwise \in DOMAIN Now.options
      BY <1>2, <2>2, <3>1, NowFacts DEF Otherwise, Fits, FitsIn
    <3>3. PICK option, pos : option = Otherwise /\ pos = Pos + 1
      OBVIOUS
    <3>4. MayGo(calls, nodes, pos, option, Innermost.step)
      <4>1. pos \in 1..(Len(Tokens) + 1)
        BY <1>3, <3>3
      <4>2. option = "" \/ option \in DOMAIN Now.options
        BY <3>2, <3>3, Zenon
      <4>3. Innermost.step \in DOMAIN Now.operands
        BY <1>3
      <4> QED
        BY <1>2, <4>1, <4>2, <4>3, MayGoOn, Zenon
    <3>5. calls' = MovedTo(pos, option) /\ UNCHANGED <<nodes, collecting, at, status>>
      BY <2>2, <3>3
    <3>6. calls' = [MovedTo(pos, option) EXCEPT ![Len(calls)].step = Innermost.step]
      BY <1>2, <3>4, <3>5, MovedPlaced
    <3>7. SameShape(nodes, nodes')
      BY <3>5 DEF SameShape
    <3> QED
      BY <1>1, <3>4, <3>5, <3>6, <3>7, CallKeeps
  <2> QED
    BY <1>1, <1>2, <1>3, <2>1, <2>2, WriteKeeps, StoppedKeeps
<1> QED
  BY <1>5, <1>6, <1>7, <1>8, <1>9, <1>10, <1>11, <1>12, <1>13, <1>14, <1>15, <1>16
  DEF Options

LEMMA WrittenKeep ==
  ASSUME TypeInv, Written
  PROVE  TypeInv'
<1>1. WriterInv'
  BY WrittenAsIsInv DEF TypeInv
<1>2. calls # <<>> /\ Pos \in DOMAIN Tokens
  BY DEF Written, OwnKeyword, TmpArgument, Argument, Arguing, Busy
<1>3. Pos + 1 \in 1..(Len(Tokens) + 1)
  <2>1. Pos \in 1..Len(Tokens) /\ Len(Tokens) \in Nat
    BY <1>2, NowFacts
  <2> QED
    BY <2>1
<1>4. CASE OwnKeyword
  BY <1>1, <1>2, <1>3, <1>4, WriteKeeps DEF OwnKeyword
<1>5. CASE TmpArgument
  BY <1>1, <1>2, <1>3, <1>5, ExpandKeeps DEF TmpArgument
<1>6. CASE Argument
  BY <1>1, <1>2, <1>3, <1>6, WriteKeeps, StoppedKeeps DEF Argument
<1> QED
  BY <1>4, <1>5, <1>6 DEF Written

LEMMA ReturnKeeps ==
  ASSUME TypeInv, Return
  PROVE  TypeInv'
<1>1. WriterInv'
  BY ReturnInv DEF TypeInv
<1>2. PICK c, d : c = calls /\ d = Front(c)
  OBVIOUS
<1>3. /\ c # <<>> /\ AllPlaced(c, nodes)
      /\ calls' = d
      /\ at' = IF Len(c) = 1 THEN at + 1 ELSE at
      /\ UNCHANGED <<nodes, collecting, status>>
  BY <1>2 DEF TypeInv, Return, Busy
<1>4. /\ AllPlaced(d, nodes)
      /\ Len(c) \in Nat \ {0}
      /\ Len(c) = 1 => d = <<>>
      /\ Len(c) # 1 => d[1] = c[1]
  BY <1>2, <1>3, CallEnds
<1>5. ~collecting /\ c[1].node = at
  BY <1>2, <1>3 DEF TypeInv
<1>6. at \in 1..Len(nodes)
  <2>1. 1 \in DOMAIN c
    BY <1>2, <1>3, HereFacts DEF TypeInv
  <2>2. PlacedIn(c[1], nodes)
    BY <1>3, <2>1 DEF AllPlaced
  <2>3. c[1].node \in DOMAIN nodes
    BY <2>2 DEF PlacedIn
  <2> QED
    BY <1>5, <2>3, NodeFacts DEF TypeInv, WriterInv
<1>7. at' \in 1..(Len(nodes) + 1)
  <2>1. Len(nodes) \in Nat
    BY NodeFacts DEF TypeInv, WriterInv
  <2> QED
    BY <1>3, <1>6, <2>1
<1>8. collecting \in BOOLEAN /\ status \in Statuses
  BY DEF TypeInv
<1>9. d # <<>> => ~collecting /\ d[1].node = at'
  BY <1>3, <1>4, <1>5
<1> QED
  BY <1>1, <1>3, <1>4, <1>7, <1>8, <1>9 DEF TypeInv

\* The next node is visited, or the operation of this one begins.
LEMMA VisitKeeps ==
  ASSUME TypeInv, WriterInv', at <= Len(nodes), calls = <<>>, SameShape(nodes, nodes'),
         NEW p, NextNode(p) \/ (~collecting /\ BeginOperation(p))
  PROVE  TypeInv'
<1>1. at \in 1..Len(nodes) /\ Len(nodes) \in Nat /\ at \in DOMAIN nodes
  <2>1. at \in 1..(Len(nodes) + 1) /\ Len(nodes) \in Nat /\ DOMAIN nodes = 1..Len(nodes)
    BY NodeFacts DEF TypeInv, WriterInv
  <2> QED
    BY <2>1
<1>2. Len(nodes') = Len(nodes)
  BY DEF SameShape
<1>3. /\ collecting \in BOOLEAN /\ status \in Statuses
      /\ AllPlaced(calls, nodes)
  BY DEF TypeInv
<1>4. CASE NextNode(p)
  <2>1. at' = at + 1 /\ UNCHANGED <<collecting, calls, status>>
    BY <1>4 DEF NextNode
  <2>2. at' \in 1..(Len(nodes') + 1)
    BY <1>1, <1>2, <2>1
  <2>3. AllPlaced(calls, nodes')
    BY <1>3, ShapeKept DEF AllPlaced
  <2> QED
    BY <1>3, <2>1, <2>2, <2>3 DEF TypeInv
<1>5. CASE ~collecting /\ BeginOperation(p) /\ ~NextNode(p)
  <2>1. \/ /\ status' \in Statuses
           /\ UNCHANGED <<collecting, at, calls>>
        \/ /\ ~WithoutName(at) /\ calls' = <<Begun(at)>>
           /\ UNCHANGED <<collecting, at, status>>
    BY <1>5, StatusNames DEF BeginOperation
  <2>2. at \in 1..(Len(nodes') + 1)
    BY <1>1, <1>2
  <2>3. CASE status' \in Statuses /\ UNCHANGED <<collecting, at, calls>>
    <3>1. AllPlaced(calls, nodes')
      BY <1>3, ShapeKept DEF AllPlaced
    <3> QED
      BY <1>3, <2>2, <2>3, <3>1 DEF TypeInv
  <2>4. CASE /\ ~WithoutName(at) /\ calls' = <<Begun(at)>>
             /\ UNCHANGED <<collecting, at, status>>
    <3>1. PICK new : new = Begun(at)
      OBVIOUS
    <3>2. PlacedIn(new, nodes) /\ new.node = at
      BY <1>1, <2>4, <3>1, BegunPlaced
    <3>3. PICK d : d = Append(calls, new)
      OBVIOUS
    <3>4. AllPlaced(d, nodes) /\ d # <<>> /\ d[1] = new
      BY <1>3, <3>2, <3>3, CallBegins
    <3>5. calls' = d
      BY <2>4, <3>1, <3>3
    <3>6. AllPlaced(d, nodes')
      BY <3>4, ShapeKept DEF AllPlaced
    <3> QED
      BY <1>3, <1>5, <2>2, <2>4, <3>2, <3>4, <3>5, <3>6 DEF TypeInv
  <2> QED
    BY <2>1, <2>3, <2>4
<1> QED
  BY <1>4, <1>5

LEMMA VisitsKeep ==
  ASSUME TypeInv, Visits
  PROVE  TypeInv'
<1>1. WriterInv'
  BY VisitsInv DEF TypeInv
<1>2. UNCHANGED nodes => SameShape(nodes, nodes')
  BY DEF SameShape
<1>3. CASE VisitLayerDefinition
  <2>1. at <= Len(nodes) /\ calls = <<>>
    BY <1>3 DEF VisitLayerDefinition, Visiting
  <2>2. PICK head : head = AllName(nodes[at].head)
    OBVIOUS
  <2>3. \/ Throw
        \/ /\ nodes' = [nodes EXCEPT ![at].head = head]
           /\ \E p : NextNode(p) \/ (~collecting /\ BeginOperation(p))
    BY <1>3, <2>2 DEF VisitLayerDefinition
  <2>4. ASSUME nodes' = [nodes EXCEPT ![at].head = head]
        PROVE  SameShape(nodes, nodes')
    <3>1. /\ nodes \in Seq(Node) /\ at \in 1..Len(nodes) /\ DOMAIN nodes = 1..Len(nodes)
          /\ nodes[at] \in Node /\ head \in Token
      <4>1. WriterInv /\ at \in 1..(Len(nodes) + 1) /\ nodes \in Seq(Node)
        BY DEF TypeInv, WriterInv
      <4>2. Len(nodes) \in Nat /\ DOMAIN nodes = 1..Len(nodes)
        BY <4>1, NodeFacts
      <4>3. nodes[at] \in Node /\ head \in Token
        BY <2>1, <2>2, <4>1, HeadFacts
      <4> QED
        BY <2>1, <4>1, <4>2, <4>3
    <3>2. PICK node : node = [nodes[at] EXCEPT !.head = head]
      OBVIOUS
    <3>3. /\ node \in Node /\ node.tokens = nodes[at].tokens
          /\ node.operation = nodes[at].operation
      BY <3>1, <3>2 DEF Node
    <3>4. nodes' = [nodes EXCEPT ![at] = node]
      BY <2>4, <3>2
    <3>5. Len(nodes') = Len(nodes)
      BY <3>1, <3>3, <3>4, ExceptSeq
    <3> QED
      BY <3>1, <3>3, <3>4, <3>5 DEF SameShape
  <2> QED
    BY <1>1, <2>1, <2>3, <2>4, VisitKeeps, StoppedKeeps
<1>4. CASE VisitTmpLayer
  BY <1>1, <1>2, <1>4, VisitKeeps DEF VisitTmpLayer, Visiting
<1>5. CASE VisitLayerOperation
  <2>1. /\ at <= Len(nodes) /\ calls = <<>> /\ UNCHANGED nodes
        /\ NextNode(<<>>) \/ (~collecting /\ BeginOperation(<<>>))
    BY <1>5 DEF VisitLayerOperation, Visiting
  <2> QED
    BY <1>1, <1>2, <2>1, VisitKeeps
<1>6. CASE VisitRuleCheck
  <2>1. /\ at <= Len(nodes) /\ calls = <<>>
        /\ Throw \/ (UNCHANGED nodes /\ \E p : NextNode(p))
    BY <1>6 DEF VisitRuleCheck, Visiting
  <2> QED
    BY <1>1, <1>2, <2>1, VisitKeeps, StoppedKeeps
<1>7. CASE VisitText \/ VisitUnknow
  <2>1. /\ at <= Len(nodes) /\ calls = <<>>
        /\ UNCHANGED nodes /\ \E p : NextNode(p)
    BY <1>7 DEF VisitText, VisitUnknow, Visiting
  <2> QED
    BY <1>1, <1>2, <2>1, VisitKeeps
<1>8. CASE SecondRound
  <2>1. collecting /\ collecting' = FALSE /\ at' = 1 /\ UNCHANGED <<nodes, calls, status>>
    BY <1>8 DEF SecondRound
  <2>2. calls = <<>>
    BY <2>1 DEF TypeInv
  <2>3. at' \in 1..(Len(nodes) + 1)
    BY <2>1, NodeFacts DEF TypeInv, WriterInv
  <2> QED
    BY <1>1, <2>1, <2>2, <2>3 DEF TypeInv
<1>9. CASE Finish
  BY <1>1, <1>9, StoppedKeeps DEF Finish
<1> QED
  BY <1>3, <1>4, <1>5, <1>6, <1>7, <1>8, <1>9 DEF Visits

\* Whatever is in the tree, the iterators of all operations that are being
\* written stay in their lists or at the end of them, also where the parser of
\* numbers moves them; each operation goes on in the code of an option, and with
\* operands, of its own function; and the outermost one is that of the visited
\* node (rcsSynPvrsConvertor, beginVisitLayerOperationNode and conv...Cmd()).
THEOREM WriterTypes == Spec => []WriterTypeOK
<1>1. Init => TypeInv
  <2> SUFFICES ASSUME Init PROVE TypeInv
    OBVIOUS
  <2>1. WriterInv
    BY InitWriterInv
  <2>2. at = 1 /\ calls = <<>> /\ collecting \in BOOLEAN /\ status \in Statuses
    BY DeckFacts DEF Init, Statuses, WriterInv
  <2>3. at \in 1..(Len(nodes) + 1)
    BY <2>1, <2>2, NodeFacts DEF WriterInv
  <2>4. PICK c : c = calls
    OBVIOUS
  <2>5. c \in Seq(Call) /\ Len(c) = 0
    BY <2>2, <2>4, EmptySeq
  <2>6. DOMAIN c = {}
    BY <2>5, LenProperties
  <2>7. AllPlaced(calls, nodes)
    BY <2>4, <2>5, <2>6 DEF AllPlaced
  <2> QED
    BY <2>1, <2>2, <2>3, <2>7 DEF TypeInv
<1>2. TypeInv /\ [Next]_vars => TypeInv'
  <2>1. CASE Next /\ TypeInv
    BY <2>1, OperandsKeep, OptionsKeep, WrittenKeep, ReturnKeeps, VisitsKeep DEF Next
  <2>2. CASE UNCHANGED vars /\ TypeInv
    BY <2>2 DEF TypeInv, WriterInv, vars
  <2> QED
    BY <2>1, <2>2
<1>3. TypeInv => WriterTypeOK
  <2> SUFFICES ASSUME TypeInv PROVE WriterTypeOK
    OBVIOUS
  <2>1. /\ nodes \in Seq(Node) /\ Len(nodes) = Len(deck.nodes)
        /\ collecting \in BOOLEAN /\ at \in 1..(Len(nodes) + 1) /\ calls \in Seq(Call)
        /\ calls # <<>> => ~collecting /\ calls[1].node = at
        /\ status \in Statuses
    BY DEF TypeInv, WriterInv, AllPlaced
  <2>2. ASSUME NEW c \in DOMAIN calls
        PROVE  PlacedIn(calls[c], nodes)
    BY DEF TypeInv, AllPlaced
  <2> QED
    BY <2>1, <2>2, Zenon DEF WriterTypeOK, PlacedIn, Knows
<1> QED
  BY <1>1, <1>2, <1>3, PTL DEF Spec
=============================================================================
