----------------------------- MODULE SyntaxProofs -----------------------------
(***************************************************************************)
(* Theorems about the syntax convertor, for every list of tokens: the      *)
(* positions of the first two passes stay in the list, no temporary name   *)
(* is given twice, and every node takes the third pass on.                 *)
(***************************************************************************)
EXTENDS SyntaxProperties, ListLemmas

-----------------------------------------------------------------------------
(***************************************************************************)
(* The inductive invariant of the first two passes.                        *)
(***************************************************************************)
NamesBounded ==
  \A i \in DOMAIN stream : stream[i].name \in Nat => Temporary(stream[i].name)

HasSign(list, i) == i < Len(list) /\ list[i + 1].type = "EQUAL"

\* A temporary name is there once as a definition and once as an operand.
SoleOccurrence ==
  \A i, j \in DOMAIN stream :
    /\ stream[i].name = stream[j].name /\ stream[i].name \in Nat
    /\ HasSign(stream, i) <=> HasSign(stream, j)
    => i = j

Signs == {"EQUAL", "OPEN"}

SignsNamed ==
  phase \in {"layers", "layered"} =>
    \A i \in DOMAIN stream :
      stream[i].type \in Signs =>
        i > 1 /\ stream[i - 1].type \in {"NAME", "STRING", "COMMENT"}

\* An insertion does not come between a name and its sign.
InsertPlace ==
  insertAt \in DOMAIN stream => stream[insertAt].type \notin Signs

OpensNested ==
  \A i \in DOMAIN opens :
    /\ stream[opens[i].begin].type = "LPAREN"
    /\ \A j \in DOMAIN opens : i < j => opens[i].begin < opens[j].begin

IInv ==
  /\ TypeOK
  /\ NamesBounded
  /\ SoleOccurrence
  /\ SignsNamed
  /\ InsertPlace
  /\ OpensNested

-----------------------------------------------------------------------------
(***************************************************************************)
(* Where the tokens of a list of length l are when the operation between   *)
(* the parentheses at b and p got a name and its definition went to q.     *)
(***************************************************************************)
\* The position that token i had before the parentheses were replaced.
AtOf(i, first, last) == IF i < first THEN i ELSE i + (last - first)

\* The position that it had before the definition was inserted.
OriginOf(j, b, q, d) ==
  IF j < q THEN j ELSE IF j < q + d THEN b + (j - q) - 1 ELSE j - d

\* It is the name, the sign of the definition or the name of the operand.
FreshOf(i, first, last, q) ==
  i = first \/ AtOf(i, first, last) \in {q, q + 1}

\* n is the length of the list, with the name in place of the parentheses.
Spliced(l, b, p, q, d, first, last, n) ==
  /\ l \in Nat /\ b \in 1..l /\ p \in 1..l /\ q \in 1..(l + 1)
  /\ b < p
  /\ d = p - b + 1
  /\ first = IF b >= q THEN b + d ELSE b
  /\ last = IF p >= q THEN p + d ELSE p
  /\ n = l + d - (last - first)

LEMMA Ranges ==
  ASSUME NEW l, NEW b, NEW p, NEW q, NEW d, NEW first, NEW last, NEW n,
         Spliced(l, b, p, q, d, first, last, n)
  PROVE  /\ d \in Nat /\ n \in Nat /\ first \in 1..n /\ last \in 1..(l + d)
         /\ first < last
         /\ \A i \in 1..n : AtOf(i, first, last) \in 1..(l + d)
         /\ \A i \in 1..n : ~FreshOf(i, first, last, q) =>
              OriginOf(AtOf(i, first, last), b, q, d) \in (1..l) \ {b, p}
BY DEF Spliced, AtOf, OriginOf, FreshOf

LEMMA Injective ==
  ASSUME NEW l, NEW b, NEW p, NEW q, NEW d, NEW first, NEW last, NEW n,
         Spliced(l, b, p, q, d, first, last, n),
         NEW i \in 1..n, NEW j \in 1..n,
         ~FreshOf(i, first, last, q), ~FreshOf(j, first, last, q),
         OriginOf(AtOf(i, first, last), b, q, d)
           = OriginOf(AtOf(j, first, last), b, q, d)
  PROVE  i = j
BY DEF Spliced, AtOf, OriginOf, FreshOf

\* What is behind a token was behind it before, or is a name, or the token
\* that the definition was inserted in front of.
LEMMA Successor ==
  ASSUME NEW l, NEW b, NEW p, NEW q, NEW d, NEW first, NEW last, NEW n,
         Spliced(l, b, p, q, d, first, last, n),
         NEW i \in 1..n, ~FreshOf(i, first, last, q),
         NEW o, o = OriginOf(AtOf(i, first, last), b, q, d)
  PROVE  \/ /\ i < n /\ ~FreshOf(i + 1, first, last, q)
            /\ OriginOf(AtOf(i + 1, first, last), b, q, d) = o + 1
         \/ /\ o + 1 \in {b, p, q, l + 1}
            /\ \/ i = n
               \/ i + 1 = first
               \/ AtOf(i + 1, first, last) = q
               \/ /\ ~FreshOf(i + 1, first, last, q)
                  /\ OriginOf(AtOf(i + 1, first, last), b, q, d) = q
BY DEF Spliced, AtOf, OriginOf, FreshOf

LEMMA Predecessor ==
  ASSUME NEW l, NEW b, NEW p, NEW q, NEW d, NEW first, NEW last, NEW n,
         Spliced(l, b, p, q, d, first, last, n),
         NEW i \in 1..n, ~FreshOf(i, first, last, q),
         NEW o, o = OriginOf(AtOf(i, first, last), b, q, d),
         o \notin {1, q, b + 1}
  PROVE  /\ i > 1
         /\ \/ i - 1 = first
            \/ /\ ~FreshOf(i - 1, first, last, q)
               /\ OriginOf(AtOf(i - 1, first, last), b, q, d) = o - 1
BY DEF Spliced, AtOf, OriginOf, FreshOf

\* The two added tokens stay together, and behind the name of the operand is
\* what was behind the ")".
LEMMA Added ==
  ASSUME NEW l, NEW b, NEW p, NEW q, NEW d, NEW first, NEW last, NEW n,
         Spliced(l, b, p, q, d, first, last, n)
  PROVE  /\ \A i \in 1..n : i # first /\ AtOf(i, first, last) = q + 1 =>
              i > 1 /\ i - 1 # first /\ AtOf(i - 1, first, last) = q
         /\ \A i \in 1..n : i # first /\ AtOf(i, first, last) = q =>
              i < n /\ i + 1 # first /\ AtOf(i + 1, first, last) = q + 1
         /\ \A i, j \in 1..n :
              AtOf(i, first, last) = q /\ AtOf(j, first, last) = q
              /\ i # first /\ j # first => i = j
         /\ first < n => \/ AtOf(first + 1, first, last) = q
                         \/ /\ ~FreshOf(first + 1, first, last, q)
                            /\ OriginOf(AtOf(first + 1, first, last), b, q, d)
                                 = p + 1
BY DEF Spliced, AtOf, OriginOf, FreshOf

\* The place for insertions is in front of the same token as before.
LEMMA PlaceKept ==
  ASSUME NEW l, NEW b, NEW p, NEW q, NEW d, NEW first, NEW last, NEW n,
         Spliced(l, b, p, q, d, first, last, n),
         NEW r, r = Kept(q + d, first, last)
  PROVE  /\ r \in 0..(n + 1)
         /\ r \in 1..n => /\ ~FreshOf(r, first, last, q)
                          /\ OriginOf(AtOf(r, first, last), b, q, d) = q
<1>1. CASE q + d < first
  <2>1. r = q + d
    BY <1>1 DEF Kept
  <2> QED
    BY <1>1, <2>1 DEF Spliced, AtOf, OriginOf, FreshOf
<1>2. CASE ~(q + d < first) /\ q + d <= last
  <2>1. r = 0
    BY <1>2 DEF Kept, Dangling
  <2>2. n \in Nat
    BY Ranges
  <2> QED
    BY <2>1, <2>2
<1>3. CASE ~(q + d < first) /\ ~(q + d <= last)
  <2>1. r = q + d - (last - first)
    BY <1>3 DEF Kept, Spliced
  <2>2. q > p /\ first = b /\ last = p /\ r = q + 1
    BY <1>3, <2>1 DEF Spliced
  <2> QED
    BY <2>2 DEF Spliced, AtOf, OriginOf, FreshOf
<1> QED
  BY <1>1, <1>2, <1>3

\* So is every position in front of the parentheses.
LEMMA FrontKept ==
  ASSUME NEW l, NEW b, NEW p, NEW q, NEW d, NEW first, NEW last, NEW n,
         Spliced(l, b, p, q, d, first, last, n),
         NEW x \in 1..l, x < b,
         NEW r, r = IF x >= q THEN x + d ELSE x
  PROVE  /\ r \in 1..n /\ r < first
         /\ ~FreshOf(r, first, last, q)
         /\ OriginOf(AtOf(r, first, last), b, q, d) = x
BY DEF Spliced, AtOf, OriginOf, FreshOf

-----------------------------------------------------------------------------
(***************************************************************************)
(* The list.                                                               *)
(***************************************************************************)
LEMMA FirstPosition ==
  ASSUME stream \in Seq(Token), NEW i \in Nat, i >= 1, NEW types,
         NEW f, f = First(i, types)
  PROVE  /\ f \in Nat /\ f <= Len(stream) + 1
         /\ f = Len(stream) + 1 \/ (i <= f /\ stream[f].type \in types)
<1> DEFINE found == {j \in i..Len(stream) : stream[j].type \in types}
<1>1. Len(stream) \in Nat
  BY LenProperties
<1>2. CASE found = {}
  <2>1. f = Len(stream) + 1
    BY <1>2 DEF First
  <2> QED
    BY <1>1, <2>1
<1>3. CASE found # {}
  <2>1. found \in SUBSET Nat
    BY <1>1
  <2>2. f = CHOOSE j \in found : \A k \in found : j <= k
    BY <1>3 DEF First
  <2>3. f = Min(found)
    BY <2>2 DEF Min
  <2>4. f \in found
    <3> HIDE DEF found
    <3> QED
      BY <1>3, <2>1, <2>3, MinIn
  <2> QED
    BY <1>1, <2>4
<1> QED
  BY <1>2, <1>3

LEMMA StreamFacts ==
  ASSUME TypeOK
  PROVE  /\ Len(stream) \in Nat
         /\ DOMAIN stream = 1..Len(stream)
         /\ \A i \in 1..Len(stream) : stream[i] \in Token
         /\ Len(opens) \in Nat
         /\ DOMAIN opens = 1..Len(opens)
         /\ \A i \in 1..Len(opens) :
              opens[i] \in Open /\ opens[i].begin \in 1..(pos - 1)
<1>1. stream \in Seq(Token) /\ opens \in Seq(Open)
  BY DEF TypeOK
<1>2. /\ Len(stream) \in Nat /\ DOMAIN stream = 1..Len(stream)
      /\ \A i \in 1..Len(stream) : stream[i] \in Token
  BY <1>1, LenProperties, ElementOfSeq
<1>3. /\ Len(opens) \in Nat /\ DOMAIN opens = 1..Len(opens)
      /\ \A i \in 1..Len(opens) : opens[i] \in Open
  BY <1>1, LenProperties, ElementOfSeq
<1>4. \A i \in 1..Len(opens) : opens[i].begin < pos
  BY <1>3 DEF TypeOK
<1>5. pos \in Nat
  BY <1>2 DEF TypeOK
<1> QED
  BY <1>2, <1>3, <1>4, <1>5 DEF Open

\* What parseImplicitLayerDefinition() makes of the list.
NewFirst == Moved(Innermost.begin)
NewLast  == Moved(pos)
NewList  == Renamed(Inserted, NewFirst, NewLast)

LEMMA DefinitionElements ==
  ASSUME TypeOK, opens # <<>>, ~AtEnd
  PROVE  /\ Innermost.begin \in 1..Len(stream)
         /\ pos \in 1..Len(stream)
         /\ Innermost.begin < pos
         /\ Definition \in Seq(Token)
         /\ Len(Definition) = pos - Innermost.begin + 1
         /\ Definition[1] = NameToken(stream[Innermost.begin].line)
         /\ Definition[1] \in Token
         /\ Definition[2].type = "EQUAL" /\ Definition[2].name = NoName
         /\ \A t \in 3..Len(Definition) :
              Definition[t] = stream[Innermost.begin + t - 2]
<1> DEFINE b    == Innermost.begin
           line == stream[b].line
           head == <<NameToken(line),
                     [type |-> "EQUAL", name |-> NoName, line |-> line]>>
           body == SubSeq(stream, b + 1, pos - 1)
<1>1. /\ Len(stream) \in Nat /\ pos \in 1..Len(stream)
      /\ \A i \in 1..Len(stream) : stream[i] \in Token
  BY StreamFacts DEF TypeOK, AtEnd
<1>2. b \in 1..(pos - 1)
  BY StreamFacts, EmptySeq DEF Innermost, TypeOK
<1>3. line \in Nat /\ TmpNo \in Nat
  BY <1>1, <1>2 DEF Token, TmpNo, TypeOK
<1>4. head \in Seq(Token) /\ Len(head) = 2
      /\ head[1] = NameToken(line)
      /\ head[2] = [type |-> "EQUAL", name |-> NoName, line |-> line]
  <2>1. NameToken(line) \in Token
    BY <1>3 DEF NameToken, Token, TokenTypes
  <2>2. [type |-> "EQUAL", name |-> NoName, line |-> line] \in Token
    BY <1>3 DEF Token, TokenTypes
  <2> QED
    BY <2>1, <2>2
<1>5. /\ body \in Seq(Token)
      /\ Len(body) = pos - 1 - b
      /\ \A i \in 1..(pos - 1 - b) : body[i] = stream[b + i]
  <2>1. \A i \in (b + 1)..(pos - 1) : stream[i] \in Token
    BY <1>1, <1>2
  <2>2. /\ body \in Seq(Token)
        /\ Len(body) = IF b + 1 <= pos - 1 THEN (pos - 1) - (b + 1) + 1 ELSE 0
        /\ \A i \in 1..((pos - 1) - (b + 1) + 1) :
              body[i] = stream[(b + 1) + i - 1]
    BY SMTT(30), <1>1, <1>2, <2>1, SubSeqProperties
  <2> HIDE DEF body
  <2>3. /\ b \in Nat /\ pos \in Nat
        /\ (pos - 1) - (b + 1) + 1 = pos - 1 - b
        /\ (IF b + 1 <= pos - 1 THEN (pos - 1) - (b + 1) + 1 ELSE 0)
             = pos - 1 - b
        /\ \A i \in 1..(pos - 1 - b) : (b + 1) + i - 1 = b + i
    BY <1>1, <1>2
  <2>4. Len(body) = pos - 1 - b
    BY <2>2, <2>3
  <2>5. ASSUME NEW i \in 1..(pos - 1 - b)
        PROVE  body[i] = stream[b + i]
    BY <2>2, <2>3
  <2> QED
    BY <2>2, <2>4, <2>5
<1>6. Definition = head \o body
  BY DEF Definition
<1> HIDE DEF head, body
<1>7. /\ Definition \in Seq(Token) /\ Len(Definition) = Len(head) + Len(body)
      /\ \A t \in 1..(Len(head) + Len(body)) :
            Definition[t] = IF t <= Len(head) THEN head[t]
                            ELSE body[t - Len(head)]
  BY <1>4, <1>5, <1>6, ConcatProperties
<1>8. Len(head) = 2 /\ Len(body) = pos - 1 - b
  BY <1>4, <1>5
<1>9. Len(Definition) = pos - b + 1
  BY <1>1, <1>2, <1>7, <1>8
<1>10. /\ Definition[1] = NameToken(line)
       /\ Definition[2] = [type |-> "EQUAL", name |-> NoName, line |-> line]
  BY <1>1, <1>2, <1>4, <1>7, <1>8
<1>11. ASSUME NEW t \in 3..Len(Definition)
       PROVE  Definition[t] = stream[b + t - 2]
  <2>1. t \in 1..(Len(head) + Len(body)) /\ ~(t <= Len(head))
        /\ t - Len(head) = t - 2 /\ t - 2 \in 1..(pos - 1 - b)
        /\ b + (t - 2) = b + t - 2
    BY <1>1, <1>2, <1>8, <1>9
  <2> QED
    BY <1>5, <1>7, <2>1
<1>12. Definition[1] \in Token
  BY <1>1, <1>2, <1>7, <1>9, ElementOfSeq
<1> QED
  BY <1>1, <1>2, <1>7, <1>9, <1>10, <1>11, <1>12

\* A position in the new list: where it was, if it is of no new token.
Now(i)   == AtOf(i, NewFirst, NewLast)
Was(i)   == OriginOf(Now(i), Innermost.begin, insertAt, Len(Definition))
IsNew(i) == FreshOf(i, NewFirst, NewLast, insertAt)
Size     == Len(NewList)

NamingOK == TypeOK /\ opens # <<>> /\ ~AtEnd /\ insertAt # Dangling

LEMMA NewListElements ==
  ASSUME NamingOK
  PROVE  /\ NewList \in Seq(Token)
         /\ Spliced(Len(stream), Innermost.begin, pos, insertAt,
                    Len(Definition), NewFirst, NewLast, Size)
         /\ NewList[NewFirst].type = "NAME" /\ NewList[NewFirst].name = TmpNo
         /\ \A i \in 1..Size : i # NewFirst =>
              /\ Now(i) = insertAt =>
                   NewList[i].type = "NAME" /\ NewList[i].name = TmpNo
              /\ Now(i) = insertAt + 1 =>
                   NewList[i].type = "EQUAL" /\ NewList[i].name = NoName
              /\ ~IsNew(i) => NewList[i] = stream[Was(i)]
<1> USE DEF NamingOK
<1> DEFINE q == insertAt
           e == NameToken(stream[Innermost.begin].line)
           l == Len(stream)
           b == Innermost.begin
           d == Len(Definition)
           first == NewFirst
           last == NewLast
           n == Size
<1>1. /\ l \in Nat /\ b \in 1..l /\ pos \in 1..l /\ b < pos
      /\ d = pos - b + 1
  BY DefinitionElements, StreamFacts
<1>2. q \in 1..(l + 1)
  BY <1>1 DEF TypeOK, Dangling
<1>3. /\ Definition \in Seq(Token) /\ Definition[1] = e /\ e \in Token
      /\ Definition[2].type = "EQUAL" /\ Definition[2].name = NoName
      /\ \A t \in 3..d : Definition[t] = stream[b + t - 2]
      /\ stream \in Seq(Token)
  BY DefinitionElements DEF TypeOK
<1>4. /\ Inserted \in Seq(Token) /\ Len(Inserted) = l + d
      /\ \A i \in 1..(l + d) :
           Inserted[i] = IF i < q THEN stream[i]
                         ELSE IF i < q + d THEN Definition[i - q + 1]
                         ELSE stream[i - d]
  <2>1. q \in Nat /\ 1 <= q /\ q <= Len(stream) + 1
    BY <1>1, <1>2
  <2>2. Inserted = InsertedIn(stream, q, Definition)
    BY DEF Inserted, InsertedIn
  <2>3. stream \in Seq(Token) /\ Definition \in Seq(Token)
    BY <1>3
  <2> HIDE DEF q
  <2>4. /\ InsertedIn(stream, q, Definition) \in Seq(Token)
        /\ Len(InsertedIn(stream, q, Definition))
             = Len(stream) + Len(Definition)
        /\ \A i \in 1..(Len(stream) + Len(Definition)) :
             InsertedIn(stream, q, Definition)[i]
               = IF i < q THEN stream[i]
                 ELSE IF i < q + Len(Definition) THEN Definition[i - q + 1]
                 ELSE stream[i - Len(Definition)]
    BY <2>1, <2>3, InsertionElements
  <2> QED
    BY <2>2, <2>4
<1>5. Spliced(l, b, pos, q, d, first, last, l + d - (last - first))
  BY <1>1, <1>2 DEF Spliced, NewFirst, NewLast, Moved
<1>6. /\ first \in Nat /\ last \in Nat /\ d \in Nat
      /\ 1 <= first /\ first < last /\ last <= l + d
      /\ first \in 1..(l + d - (last - first))
  <2>1. /\ d \in Nat /\ last \in 1..(l + d) /\ first < last
        /\ l + d - (last - first) \in Nat
        /\ first \in 1..(l + d - (last - first))
    BY <1>5, Ranges
  <2> QED
    BY <1>1, <2>1
<1>7. /\ NewList \in Seq(Token) /\ n = l + d - (last - first)
      /\ \A i \in 1..n :
           NewList[i] = IF i < first THEN Inserted[i]
                        ELSE IF i = first THEN e
                        ELSE Inserted[i + (last - first)]
  <2>1. /\ first \in Nat /\ last \in Nat /\ 1 <= first
        /\ first <= last /\ last <= Len(Inserted)
    BY <1>4, <1>6
  <2>2. Inserted \in Seq(Token) /\ e \in Token
    BY <1>3, <1>4
  <2>3. NewList = ReplacedIn(Inserted, first, last, e)
    BY DEF NewList, Renamed, ReplacedIn
  <2>4. l + d - (last - first) = Len(Inserted) - (last - first)
    BY <1>1, <1>4, <1>6
  <2> HIDE DEF e, q, l, b, d, first, last
  <2>5. ReplacedIn(Inserted, first, last, e) \in Seq(Token)
    BY <2>1, <2>2, Replacement
  <2>6. Len(ReplacedIn(Inserted, first, last, e))
          = Len(Inserted) - (last - first)
    BY <2>1, <2>2, Replacement
  <2>7. \A i \in 1..(Len(Inserted) - (last - first)) :
          ReplacedIn(Inserted, first, last, e)[i]
            = IF i < first THEN Inserted[i]
              ELSE IF i = first THEN e
              ELSE Inserted[i + (last - first)]
    BY <2>1, <2>2, Replacement
  <2> QED
    BY <2>3, <2>4, <2>5, <2>6, <2>7 DEF Size
<1>8. e.type = "NAME" /\ e.name = TmpNo
  BY DEF NameToken
<1>9. NewList[first] = e
  BY <1>6, <1>7
<1>10. ASSUME NEW i \in 1..n, i # first, NEW j, j = Now(i)
       PROVE  /\ j = q => NewList[i].type = "NAME" /\ NewList[i].name = TmpNo
              /\ j = q + 1 => NewList[i].type = "EQUAL" /\ NewList[i].name = NoName
              /\ ~IsNew(i) =>
                   NewList[i] = stream[OriginOf(j, b, q, d)]
  <2>1. j \in 1..(l + d)
    BY <1>5, <1>7, <1>10, Ranges DEF Now
  <2>2. NewList[i] = Inserted[j]
    BY <1>7, <1>10 DEF Now, AtOf
  <2>3. Inserted[j] = IF j < q THEN stream[j]
                      ELSE IF j < q + d THEN Definition[j - q + 1]
                      ELSE stream[j - d]
    BY <1>4, <2>1
  <2>4. d >= 2
    BY <1>1
  <2>5. ASSUME j = q PROVE NewList[i].type = "NAME" /\ NewList[i].name = TmpNo
    <3>1. ~(j < q) /\ j < q + d /\ j - q + 1 = 1
      BY <1>1, <1>2, <2>4, <2>5
    <3> QED
      BY <1>3, <1>8, <2>2, <2>3, <3>1
  <2>6. ASSUME j = q + 1
        PROVE  NewList[i].type = "EQUAL" /\ NewList[i].name = NoName
    <3>1. ~(j < q) /\ j < q + d /\ j - q + 1 = 2
      BY <1>1, <1>2, <2>4, <2>6
    <3> QED
      BY <1>3, <2>2, <2>3, <3>1
  <2>7. ASSUME ~IsNew(i)
        PROVE  NewList[i] = stream[OriginOf(j, b, q, d)]
    <3>1. j # q /\ j # q + 1
      BY <1>10, <2>7 DEF IsNew, FreshOf, Now
    <3>2. CASE j < q
      BY <2>2, <2>3, <3>2 DEF OriginOf
    <3>3. CASE ~(j < q) /\ j < q + d
      <4>1. j - q + 1 \in 3..d /\ b + (j - q + 1) - 2 = b + (j - q) - 1
        <5>1. q \in Int /\ d \in Int /\ b \in Int /\ j \in Int
          BY <1>1, <1>2, <1>6, <2>1
        <5> HIDE DEF q, d, b
        <5> QED
          BY <3>1, <3>3, <5>1
      <4>2. Definition[j - q + 1] = stream[b + (j - q + 1) - 2]
        BY <1>3, <4>1
      <4> QED
        BY <2>2, <2>3, <3>3, <4>1, <4>2 DEF OriginOf
    <3>4. CASE ~(j < q) /\ ~(j < q + d)
      BY <2>2, <2>3, <3>4 DEF OriginOf
    <3> QED
      BY <3>2, <3>3, <3>4
  <2> QED
    BY <2>5, <2>6, <2>7
<1> QED
  BY <1>5, <1>7, <1>8, <1>9, <1>10 DEF Was

LEMMA NewTokens ==
  ASSUME NamingOK
  PROVE  /\ NewFirst \in 1..Size
         /\ NewList[NewFirst].type = "NAME" /\ NewList[NewFirst].name = TmpNo
         /\ \A i \in 1..Size : i # NewFirst /\ Now(i) = insertAt =>
              /\ NewList[i].type = "NAME" /\ NewList[i].name = TmpNo
              /\ i < Size /\ i + 1 # NewFirst /\ Now(i + 1) = insertAt + 1
         /\ \A i \in 1..Size : i # NewFirst /\ Now(i) = insertAt + 1 =>
              /\ NewList[i].type = "EQUAL" /\ NewList[i].name = NoName
              /\ i > 1 /\ i - 1 # NewFirst /\ Now(i - 1) = insertAt
         /\ \A i, j \in 1..Size :
              Now(i) = insertAt /\ Now(j) = insertAt
              /\ i # NewFirst /\ j # NewFirst => i = j
         /\ NewFirst < Size => \/ Now(NewFirst + 1) = insertAt
                               \/ /\ ~IsNew(NewFirst + 1)
                                  /\ Was(NewFirst + 1) = pos + 1
<1>1. Spliced(Len(stream), Innermost.begin, pos, insertAt,
              Len(Definition), NewFirst, NewLast, Size)
  BY NewListElements
<1>2. NewFirst \in 1..Size
  BY <1>1, Ranges
<1>3. /\ NewList[NewFirst].type = "NAME" /\ NewList[NewFirst].name = TmpNo
      /\ \A i \in 1..Size : i # NewFirst =>
           /\ Now(i) = insertAt =>
                NewList[i].type = "NAME" /\ NewList[i].name = TmpNo
           /\ Now(i) = insertAt + 1 =>
                NewList[i].type = "EQUAL" /\ NewList[i].name = NoName
  BY NewListElements
<1>4. /\ \A i \in 1..Size : i # NewFirst /\ Now(i) = insertAt + 1 =>
           i > 1 /\ i - 1 # NewFirst /\ Now(i - 1) = insertAt
      /\ \A i \in 1..Size : i # NewFirst /\ Now(i) = insertAt =>
           i < Size /\ i + 1 # NewFirst /\ Now(i + 1) = insertAt + 1
      /\ \A i, j \in 1..Size :
           Now(i) = insertAt /\ Now(j) = insertAt
           /\ i # NewFirst /\ j # NewFirst => i = j
  BY <1>1, Added DEF Now
<1>5. NewFirst < Size => \/ Now(NewFirst + 1) = insertAt
                         \/ /\ ~IsNew(NewFirst + 1)
                            /\ Was(NewFirst + 1) = pos + 1
  BY <1>1, Added DEF Now, IsNew, Was
<1> QED
  BY <1>2, <1>3, <1>4, <1>5

LEMMA OldTokens ==
  ASSUME NamingOK
  PROVE  /\ \A i \in 1..Size : ~IsNew(i) =>
              /\ Was(i) \in (1..Len(stream)) \ {Innermost.begin, pos}
              /\ NewList[i] = stream[Was(i)]
         /\ \A i, j \in 1..Size :
              ~IsNew(i) /\ ~IsNew(j) /\ Was(i) = Was(j) => i = j
<1>1. Spliced(Len(stream), Innermost.begin, pos, insertAt,
              Len(Definition), NewFirst, NewLast, Size)
  BY NewListElements
<1>2. \A i \in 1..Size : ~IsNew(i) =>
        Was(i) \in (1..Len(stream)) \ {Innermost.begin, pos}
  BY <1>1, Ranges DEF IsNew, Was, Now
<1>3. \A i \in 1..Size : ~IsNew(i) => NewList[i] = stream[Was(i)]
  <2>1. \A i \in 1..Size : ~IsNew(i) => i # NewFirst
    BY DEF IsNew, FreshOf
  <2> QED
    BY <2>1, NewListElements
<1>4. \A i, j \in 1..Size :
        ~IsNew(i) /\ ~IsNew(j) /\ Was(i) = Was(j) => i = j
  BY <1>1, Injective DEF IsNew, Was, Now
<1> QED
  BY <1>2, <1>3, <1>4

LEMMA OldNeighbours ==
  ASSUME NamingOK, NEW i \in 1..Size, ~IsNew(i)
  PROVE  /\ \/ /\ i < Size /\ ~IsNew(i + 1)
               /\ Was(i + 1) = Was(i) + 1
            \/ /\ Was(i) + 1 \in {Innermost.begin, pos, insertAt,
                                  Len(stream) + 1}
               /\ \/ i = Size
                  \/ i + 1 = NewFirst
                  \/ Now(i + 1) = insertAt
                  \/ ~IsNew(i + 1) /\ Was(i + 1) = insertAt
         /\ Was(i) \notin {1, insertAt, Innermost.begin + 1} =>
              /\ i > 1
              /\ \/ i - 1 = NewFirst
                 \/ ~IsNew(i - 1) /\ Was(i - 1) = Was(i) - 1
<1>1. Spliced(Len(stream), Innermost.begin, pos, insertAt,
              Len(Definition), NewFirst, NewLast, Size)
  BY NewListElements
<1>2. \/ /\ i < Size /\ ~IsNew(i + 1)
         /\ Was(i + 1) = Was(i) + 1
      \/ /\ Was(i) + 1 \in {Innermost.begin, pos, insertAt, Len(stream) + 1}
         /\ \/ i = Size
            \/ i + 1 = NewFirst
            \/ Now(i + 1) = insertAt
            \/ ~IsNew(i + 1) /\ Was(i + 1) = insertAt
  BY <1>1, Successor DEF IsNew, Was, Now
<1>3. Was(i) \notin {1, insertAt, Innermost.begin + 1} =>
        /\ i > 1
        /\ \/ i - 1 = NewFirst
           \/ ~IsNew(i - 1) /\ Was(i - 1) = Was(i) - 1
  BY <1>1, Predecessor DEF IsNew, Was, Now
<1> QED
  BY <1>2, <1>3

\* The place for insertions, and the outer calls, are where they were.
LEMMA KeptPositions ==
  ASSUME NamingOK
  PROVE  /\ LET r == Kept(Moved(insertAt), NewFirst, NewLast)
            IN  /\ r \in 0..(Size + 1)
                /\ r \in 1..Size => ~IsNew(r) /\ Was(r) = insertAt
         /\ \A x \in 1..(Innermost.begin - 1) :
              /\ Moved(x) \in 1..Size /\ Moved(x) < NewFirst
              /\ ~IsNew(Moved(x)) /\ Was(Moved(x)) = x
<1>1. Spliced(Len(stream), Innermost.begin, pos, insertAt,
              Len(Definition), NewFirst, NewLast, Size)
  BY NewListElements
<1>2. insertAt \in Nat /\ Innermost.begin \in 1..Len(stream)
      /\ Len(stream) \in Nat
  BY <1>1 DEF Spliced
<1>3. Moved(insertAt) = insertAt + Len(Definition)
  BY <1>2 DEF Moved
<1>4. LET r == Kept(Moved(insertAt), NewFirst, NewLast)
      IN  /\ r \in 0..(Size + 1)
          /\ r \in 1..Size => ~IsNew(r) /\ Was(r) = insertAt
  BY <1>1, <1>3, PlaceKept DEF IsNew, Was, Now
<1>5. ASSUME NEW x \in 1..(Innermost.begin - 1)
      PROVE  /\ Moved(x) \in 1..Size /\ Moved(x) < NewFirst
             /\ ~IsNew(Moved(x)) /\ Was(Moved(x)) = x
  <2>1. x \in 1..Len(stream) /\ x < Innermost.begin
    BY <1>2
  <2>2. Moved(x) = IF x >= insertAt THEN x + Len(Definition) ELSE x
    BY DEF Moved
  <2> QED
    BY <1>1, <2>1, <2>2, FrontKept DEF IsNew, Was, Now
<1> QED
  BY <1>4, <1>5

-----------------------------------------------------------------------------
(***************************************************************************)
(* Steps that leave the list as it is.                                     *)
(***************************************************************************)
PlaceOK(i) ==
  /\ i \in 0..(Len(stream) + 1)
  /\ i \in DOMAIN stream => stream[i].type \notin Signs

LEMMA ListKept ==
  ASSUME IInv, UNCHANGED <<deck, stream, nTmpNo>>,
         pos' \in 1..(Len(stream) + 1), PlaceOK(insertAt'),
         inRuleCheck' \in BOOLEAN,
         opens' \in Seq(Open),
         \A i \in DOMAIN opens' : opens'[i].begin < pos',
         OpensNested',
         phase' \in Phases, error' \in LayerErrors,
         SignsNamed'
  PROVE  IInv'
<1>1. TypeOK'
  BY DEF IInv, TypeOK, PlaceOK
<1>2. NamesBounded' /\ SoleOccurrence'
  BY DEF IInv, NamesBounded, SoleOccurrence, HasSign, Temporary
<1>3. InsertPlace'
  BY DEF PlaceOK, InsertPlace
<1> QED
  BY <1>1, <1>2, <1>3 DEF IInv

\* The same calls, the same pass.
LEMMA CallsKept ==
  ASSUME IInv, UNCHANGED <<deck, stream, nTmpNo, opens>>,
         pos' \in {pos, pos + 1}, pos' <= Len(stream) + 1,
         PlaceOK(insertAt'),
         inRuleCheck' \in BOOLEAN,
         phase' \in Phases,
         phase' \in {"layers", "layered"} => phase \in {"layers", "layered"},
         error' \in LayerErrors
  PROVE  IInv'
<1>1. /\ pos \in Nat /\ pos >= 1
      /\ opens \in Seq(Open)
      /\ Len(opens) \in Nat /\ DOMAIN opens = 1..Len(opens)
      /\ \A i \in 1..Len(opens) : opens[i].begin \in 1..(pos - 1)
  BY StreamFacts DEF IInv, TypeOK
<1>2. pos' \in 1..(Len(stream) + 1)
  BY <1>1, StreamFacts DEF IInv
<1>3. \A i \in DOMAIN opens' : opens'[i].begin < pos'
  BY <1>1
<1>4. OpensNested' /\ SignsNamed'
  BY DEF IInv, OpensNested, SignsNamed
<1> QED
  BY <1>1, <1>2, <1>3, <1>4, ListKept

LEMMA SamePlace ==
  ASSUME IInv
  PROVE  PlaceOK(insertAt)
BY StreamFacts DEF IInv, TypeOK, InsertPlace, PlaceOK

LEMMA FailInv ==
  ASSUME IInv, NEW err \in LayerErrors, Fail(err)
  PROVE  IInv'
<1>1. pos <= Len(stream) + 1 /\ inRuleCheck \in BOOLEAN
  BY StreamFacts DEF IInv, TypeOK
<1> QED
  BY <1>1, SamePlace, CallsKept DEF Fail, Phases

LEMMA UndefinedInv ==
  ASSUME IInv, Undefined
  PROVE  IInv'
<1>1. pos <= Len(stream) + 1 /\ inRuleCheck \in BOOLEAN
      /\ error \in LayerErrors
  BY StreamFacts DEF IInv, TypeOK
<1> QED
  BY <1>1, SamePlace, CallsKept DEF Undefined, Phases

\* A step over one token, in the same calls.
LEMMA AdvanceInv ==
  ASSUME IInv, Advance, ~AtEnd, UNCHANGED opens, PlaceOK(insertAt'),
         inRuleCheck' \in BOOLEAN
  PROVE  IInv'
<1>1. pos + 1 <= Len(stream) + 1
  BY StreamFacts DEF IInv, TypeOK, AtEnd
<1>2. phase \in Phases /\ error \in LayerErrors
  BY DEF IInv, TypeOK
<1> QED
  BY <1>1, <1>2, CallsKept DEF Advance

LEMMA CheckDefinedNameValidInv ==
  ASSUME IInv, CheckDefinedNameValid
  PROVE  IInv'
<1>1. CASE \A i \in DOMAIN stream :
             stream[i].type \in {"EQUAL", "OPEN"} => NameBefore(i)
  <2>1. /\ phase' = "layers"
        /\ UNCHANGED <<deck, stream, pos, insertAt, inRuleCheck, opens,
                       nTmpNo, error>>
    BY <1>1 DEF CheckDefinedNameValid
  <2>2. ASSUME NEW i \in DOMAIN stream, stream[i].type \in Signs
        PROVE  i > 1 /\ stream[i - 1].type \in {"NAME", "STRING", "COMMENT"}
    <3>1. i \in Nat
      BY StreamFacts DEF IInv
    <3>2. PICK j \in 1..(i - 1) :
             /\ stream[j].type \in {"NAME", "STRING"}
             /\ \A k \in (j + 1)..(i - 1) : stream[k].type = "COMMENT"
      BY <1>1, <2>2 DEF Signs, NameBefore
    <3>3. CASE j = i - 1
      BY <3>1, <3>2, <3>3
    <3>4. CASE j # i - 1
      <4>1. i - 1 \in (j + 1)..(i - 1) /\ i > 1
        BY <3>1, <3>4
      <4> QED
        BY <3>2, <4>1
    <3> QED
      BY <3>3, <3>4
  <2>3. SignsNamed'
    BY <2>1, <2>2 DEF SignsNamed
  <2>4. OpensNested' /\ \A i \in DOMAIN opens' : opens'[i].begin < pos'
    BY <2>1 DEF IInv, TypeOK, OpensNested
  <2>5. /\ pos' \in 1..(Len(stream) + 1) /\ inRuleCheck' \in BOOLEAN
        /\ opens' \in Seq(Open) /\ error' \in LayerErrors
        /\ phase' \in Phases
    BY <2>1 DEF IInv, TypeOK, Phases
  <2> QED
    BY <2>1, <2>3, <2>4, <2>5, SamePlace, ListKept
<1>2. CASE ~\A i \in DOMAIN stream :
              stream[i].type \in {"EQUAL", "OPEN"} => NameBefore(i)
  BY <1>2, FailInv DEF CheckDefinedNameValid, LayerErrors
<1> QED
  BY <1>1, <1>2

-----------------------------------------------------------------------------
(***************************************************************************)
(* Outside of parentheses.                                                 *)
(***************************************************************************)
\* The place in front of the name that position j has its sign for.
LEMMA NamePlace ==
  ASSUME IInv, phase = "layers", NEW j \in 1..Len(stream),
         stream[j].type \in Signs
  PROVE  PlaceOK(j - 1)
<1>1. /\ Len(stream) \in Nat /\ DOMAIN stream = 1..Len(stream)
  BY StreamFacts DEF IInv
<1>2. j > 1 /\ stream[j - 1].type \in {"NAME", "STRING", "COMMENT"}
  BY <1>1 DEF IInv, SignsNamed
<1> QED
  BY <1>1, <1>2 DEF PlaceOK, Signs

LEMMA FirstPlace ==
  ASSUME IInv, NEW i \in 1..(Len(stream) + 1), NEW types,
         types \cap Signs = {}
  PROVE  PlaceOK(First(i, types))
<1>1. /\ Len(stream) \in Nat /\ DOMAIN stream = 1..Len(stream)
  BY StreamFacts DEF IInv
<1>2. stream \in Seq(Token) /\ i \in Nat /\ i >= 1
  BY <1>1 DEF IInv, TypeOK
<1> DEFINE f == First(i, types)
<1>3. /\ f \in Nat /\ f <= Len(stream) + 1
      /\ f = Len(stream) + 1 \/ (i <= f /\ stream[f].type \in types)
  BY <1>2, FirstPosition
<1> HIDE DEF f
<1>4. PlaceOK(f)
  BY <1>1, <1>3 DEF PlaceOK
<1> QED
  BY <1>4 DEF f

LEMMA LimitPlace ==
  ASSUME IInv, phase = "layers", NEW i \in 1..(Len(stream) + 1)
  PROVE  PlaceOK(BranchLimit(i))
<1> DEFINE types == CondTypes \cup
                    (IF inRuleCheck THEN {"CLOSE"} ELSE {"OPEN", "EQUAL"})
           j == First(i, types)
<1>1. /\ Len(stream) \in Nat /\ DOMAIN stream = 1..Len(stream)
      /\ stream \in Seq(Token) /\ i \in Nat /\ i >= 1
  BY StreamFacts DEF IInv, TypeOK
<1>2. /\ j \in Nat /\ j <= Len(stream) + 1
      /\ j = Len(stream) + 1 \/ (i <= j /\ stream[j].type \in types)
  <2> HIDE DEF types
  <2> QED
    BY <1>1, FirstPosition
<1>3. BranchLimit(i) = IF j \in DOMAIN stream
                          /\ stream[j].type \in {"OPEN", "EQUAL"}
                       THEN j - 1 ELSE j
  BY DEF BranchLimit
<1> HIDE DEF j
<1>4. CASE j \in DOMAIN stream /\ stream[j].type \in {"OPEN", "EQUAL"}
  BY <1>1, <1>3, <1>4, NamePlace DEF Signs
<1>5. CASE ~(j \in DOMAIN stream /\ stream[j].type \in {"OPEN", "EQUAL"})
  BY <1>1, <1>2, <1>3, <1>5 DEF PlaceOK, Signs
<1> QED
  BY <1>4, <1>5

LEMMA OutsideInv ==
  ASSUME IInv,
         OpenBrace \/ CloseBrace \/ EqualSign \/ Directive \/ Skip
  PROVE  IInv'
<1>1. /\ Len(stream) \in Nat /\ DOMAIN stream = 1..Len(stream)
      /\ inRuleCheck \in BOOLEAN
      /\ pos \in 1..(Len(stream) + 1)
  BY StreamFacts DEF IInv, TypeOK
<1>2. CASE OpenBrace
  <2>1. PlaceOK(insertAt')
    BY <1>1, <1>2, FirstPlace DEF OpenBrace, Signs
  <2> QED
    BY <1>2, <2>1, AdvanceInv DEF OpenBrace, Outside
<1>3. CASE CloseBrace
  <2>1. PlaceOK(insertAt')
    BY <1>1, <1>3 DEF CloseBrace, PlaceOK
  <2> QED
    BY <1>3, <2>1, AdvanceInv DEF CloseBrace, Outside
<1>4. CASE EqualSign
  <2>1. PlaceOK(insertAt')
    BY <1>1, <1>4, NamePlace DEF EqualSign, Outside, AtEnd, Here, Signs
  <2> QED
    BY <1>1, <1>4, <2>1, AdvanceInv DEF EqualSign, Outside
<1>5. CASE Directive
  <2>1. pos \in 1..Len(stream) /\ pos + 1 \in 1..(Len(stream) + 1)
    BY <1>1, <1>5 DEF Directive, Outside, AtEnd
  <2>2. PlaceOK(pos)
    BY <1>1, <1>5, <2>1 DEF Directive, Here, PlaceOK, PreTypes, CondTypes, Signs
  <2>3. PlaceOK(insertAt')
    BY <1>5, <2>1, <2>2, LimitPlace DEF Directive, Outside
  <2> QED
    BY <1>1, <1>5, <2>3, AdvanceInv DEF Directive, Outside
<1>6. CASE Skip
  BY <1>1, <1>6, SamePlace, AdvanceInv DEF Skip, Outside
<1> QED
  BY <1>2, <1>3, <1>4, <1>5, <1>6

-----------------------------------------------------------------------------
(***************************************************************************)
(* Inside of parentheses.                                                  *)
(***************************************************************************)
LEMMA OpenParenInv ==
  ASSUME IInv, OpenParen
  PROVE  IInv'
<1> DEFINE call == [begin |-> pos, implicit |-> FALSE]
<1>1. /\ Len(stream) \in Nat /\ pos \in 1..Len(stream)
      /\ opens \in Seq(Open) /\ Len(opens) \in Nat
      /\ DOMAIN opens = 1..Len(opens)
      /\ \A i \in 1..Len(opens) : opens[i].begin \in 1..(pos - 1)
  BY StreamFacts DEF IInv, TypeOK, OpenParen, AtEnd
<1>2. call \in Open
  BY <1>1 DEF Open
<1>3. /\ opens' \in Seq(Open)
      /\ DOMAIN opens' = 1..(Len(opens) + 1)
      /\ \A i \in 1..Len(opens) : opens'[i] = opens[i]
      /\ opens'[Len(opens) + 1] = call
  BY <1>1, <1>2 DEF OpenParen
<1>4. \A i \in DOMAIN opens' : opens'[i].begin < pos'
  BY <1>1, <1>3 DEF OpenParen, Advance
<1>5. stream' = stream
  BY DEF OpenParen, Advance
<1>6. ASSUME NEW i \in DOMAIN opens'
      PROVE  /\ stream'[opens'[i].begin].type = "LPAREN"
             /\ \A j \in DOMAIN opens' : i < j =>
                  opens'[i].begin < opens'[j].begin
  <2>1. CASE i \in 1..Len(opens)
    <3>1. stream[opens[i].begin].type = "LPAREN"
      BY <1>1, <2>1 DEF IInv, OpensNested
    <3>2. ASSUME NEW j \in DOMAIN opens', i < j
          PROVE  opens'[i].begin < opens'[j].begin
      <4>1. CASE j \in 1..Len(opens)
        BY <1>1, <1>3, <2>1, <3>2, <4>1 DEF IInv, OpensNested
      <4>2. CASE j = Len(opens) + 1
        BY <1>1, <1>3, <2>1, <4>2
      <4> QED
        BY <1>1, <1>3, <4>1, <4>2
    <3> QED
      BY <1>3, <1>5, <2>1, <3>1, <3>2
  <2>2. CASE i = Len(opens) + 1
    <3>1. stream'[opens'[i].begin].type = "LPAREN"
      BY <1>3, <1>5, <2>2 DEF OpenParen, Here
    <3> QED
      BY <1>1, <1>3, <2>2, <3>1
  <2> QED
    BY <1>1, <1>3, <2>1, <2>2
<1>7. OpensNested' /\ SignsNamed'
  BY <1>6 DEF OpensNested, IInv, SignsNamed, OpenParen, Advance
<1>8. pos' \in 1..(Len(stream) + 1) /\ inRuleCheck' \in BOOLEAN
      /\ phase' \in Phases /\ error' \in LayerErrors
  BY <1>1 DEF OpenParen, Advance, IInv, TypeOK
<1> QED
  BY <1>3, <1>4, <1>7, <1>8, SamePlace, ListKept DEF OpenParen, Advance

LEMMA KeywordInv ==
  ASSUME IInv, Keyword
  PROVE  IInv'
<1>1. /\ Len(stream) \in Nat /\ pos \in 1..Len(stream)
      /\ opens \in Seq(Open) /\ Len(opens) \in Nat
      /\ DOMAIN opens = 1..Len(opens)
      /\ \A i \in 1..Len(opens) :
           opens[i] \in Open /\ opens[i].begin \in 1..(pos - 1)
  BY StreamFacts DEF IInv, TypeOK, Keyword, Inside, AtEnd
<1>2. CASE Innermost.implicit
  BY <1>2, FailInv DEF Keyword, LayerErrors
<1>3. CASE ~Innermost.implicit
  <2>1. /\ opens' = [opens EXCEPT ![Len(opens)].implicit = TRUE]
        /\ Advance /\ UNCHANGED <<insertAt, inRuleCheck>>
    BY <1>3 DEF Keyword
  <2>2. /\ opens' \in Seq(Open) /\ DOMAIN opens' = 1..Len(opens)
        /\ \A i \in 1..Len(opens) : opens'[i].begin = opens[i].begin
    <3>1. Len(opens) \in 1..Len(opens)
      BY <1>1, EmptySeq DEF Keyword, Inside
    <3>2. [opens[Len(opens)] EXCEPT !.implicit = TRUE] \in Open
      BY <1>1, <3>1 DEF Open
    <3>3. opens' = [opens EXCEPT ![Len(opens)] =
                      [opens[Len(opens)] EXCEPT !.implicit = TRUE]]
      BY <2>1
    <3>4. /\ opens' \in Seq(Open) /\ Len(opens') = Len(opens)
          /\ \A i \in 1..Len(opens) :
               opens'[i] = IF i = Len(opens)
                           THEN [opens[Len(opens)] EXCEPT !.implicit = TRUE]
                           ELSE opens[i]
      BY <1>1, <3>1, <3>2, <3>3, ExceptSeq
    <3>5. [opens[Len(opens)] EXCEPT !.implicit = TRUE].begin
            = opens[Len(opens)].begin
      BY <1>1, <3>1 DEF Open
    <3> QED
      BY <3>4, <3>5, LenProperties
  <2>3. \A i \in DOMAIN opens' : opens'[i].begin < pos'
    BY <1>1, <2>1, <2>2 DEF Advance
  <2>4. OpensNested' /\ SignsNamed'
    BY <1>1, <2>1, <2>2 DEF OpensNested, IInv, SignsNamed, Advance
  <2>5. pos' \in 1..(Len(stream) + 1) /\ inRuleCheck' \in BOOLEAN
        /\ phase' \in Phases /\ error' \in LayerErrors
    BY <1>1, <2>1 DEF Advance, IInv, TypeOK
  <2> QED
    BY <2>1, <2>2, <2>3, <2>4, <2>5, SamePlace, ListKept DEF Advance
<1> QED
  BY <1>2, <1>3

LEMMA PlainParenInv ==
  ASSUME IInv, PlainParen
  PROVE  IInv'
<1>1. /\ Len(stream) \in Nat /\ pos \in 1..Len(stream)
      /\ opens \in Seq(Open) /\ Len(opens) \in Nat /\ Len(opens) >= 1
      /\ DOMAIN opens = 1..Len(opens)
      /\ \A i \in 1..Len(opens) :
           opens[i] \in Open /\ opens[i].begin \in 1..(pos - 1)
  BY StreamFacts, EmptySeq DEF IInv, TypeOK, PlainParen, Closing, Inside, AtEnd
<1>2. opens' = SubSeq(opens, 1, Len(opens) - 1)
  BY DEF PlainParen, Front
<1>3. /\ opens' \in Seq(Open) /\ DOMAIN opens' = 1..(Len(opens) - 1)
      /\ \A i \in 1..(Len(opens) - 1) : opens'[i] = opens[i]
  BY <1>1, <1>2
<1>4. \A i \in DOMAIN opens' : opens'[i].begin < pos'
  BY <1>1, <1>3 DEF PlainParen, Advance
<1>5. SignsNamed'
  BY DEF IInv, SignsNamed, PlainParen, Advance
<1>6. OpensNested'
  <2>1. stream' = stream
    BY DEF PlainParen, Advance
  <2>2. \A i \in DOMAIN opens' : i \in DOMAIN opens /\ opens'[i] = opens[i]
    BY <1>1, <1>3
  <2> QED
    BY <2>1, <2>2 DEF IInv, OpensNested
<1>7. pos' \in 1..(Len(stream) + 1) /\ inRuleCheck' \in BOOLEAN
      /\ phase' \in Phases /\ error' \in LayerErrors
  BY <1>1 DEF PlainParen, Advance, IInv, TypeOK
<1> QED
  BY <1>3, <1>4, <1>5, <1>6, <1>7, SamePlace, ListKept DEF PlainParen, Advance

LEMMA InsideInv ==
  ASSUME IInv,
         \/ NotInside \/ SkipInside \/ RejectParen \/ InsertDangling
         \/ Unclosed \/ Layered
  PROVE  IInv'
<1>1. inRuleCheck \in BOOLEAN /\ pos <= Len(stream) + 1
      /\ error \in LayerErrors
  BY StreamFacts DEF IInv, TypeOK
<1>2. CASE NotInside
  BY <1>2, FailInv DEF NotInside, LayerErrors
<1>3. CASE SkipInside
  BY <1>1, <1>3, SamePlace, AdvanceInv DEF SkipInside, Inside
<1>4. CASE RejectParen
  BY <1>4, FailInv DEF RejectParen, LayerErrors
<1>5. CASE InsertDangling
  BY <1>5, UndefinedInv DEF InsertDangling
<1>6. CASE Unclosed
  BY <1>6, FailInv, UndefinedInv DEF Unclosed, LayerErrors
<1>7. CASE Layered
  BY <1>1, <1>7, SamePlace, CallsKept DEF Layered, Phases
<1> QED
  BY <1>2, <1>3, <1>4, <1>5, <1>6, <1>7

-----------------------------------------------------------------------------
(***************************************************************************)
(* An operation gets its name.                                             *)
(***************************************************************************)
LEMMA NamingFacts ==
  ASSUME IInv, NameLayer
  PROVE  /\ NamingOK
         /\ phase = "layers"
         /\ stream' = NewList
         /\ DOMAIN stream' = 1..Size /\ Size \in Nat
         /\ stream[pos].type = "RPAREN"
         /\ stream[Innermost.begin].type = "LPAREN"
         /\ Innermost.begin \in 1..Len(stream) /\ pos \in 1..Len(stream)
         /\ Len(stream) \in Nat /\ DOMAIN stream = 1..Len(stream)
         /\ insertAt \in 1..(Len(stream) + 1)
         /\ insertAt \in 1..Len(stream) =>
              stream[insertAt].type \notin {"EQUAL", "OPEN"}
         /\ nTmpNo' = nTmpNo + 1 /\ TmpNo = nTmpNo + 1 /\ nTmpNo \in Nat
<1>1. NamingOK /\ phase = "layers"
  BY DEF IInv, NameLayer, Closing, Inside, NamingOK
<1>2. stream' = NewList /\ stream[pos].type = "RPAREN"
  BY DEF NameLayer, NewList, NewFirst, NewLast, Closing, Here
<1>3. NewList \in Seq(Token) /\ Spliced(Len(stream), Innermost.begin, pos,
        insertAt, Len(Definition), NewFirst, NewLast, Size)
  BY <1>1, NewListElements
<1>4. DOMAIN stream' = 1..Size /\ Size \in Nat
  BY <1>2, <1>3, LenProperties DEF Size
<1>5. /\ Innermost.begin \in 1..Len(stream) /\ pos \in 1..Len(stream)
      /\ Len(stream) \in Nat /\ insertAt \in 1..(Len(stream) + 1)
  BY <1>3 DEF Spliced
<1>6. DOMAIN stream = 1..Len(stream) /\ DOMAIN opens = 1..Len(opens)
      /\ Len(opens) \in 1..Len(opens)
  BY <1>1, StreamFacts, EmptySeq DEF NamingOK, TypeOK
<1>7. stream[Innermost.begin].type = "LPAREN"
  BY <1>6 DEF IInv, OpensNested, Innermost
<1>8. nTmpNo' = nTmpNo + 1 /\ TmpNo = nTmpNo + 1 /\ nTmpNo \in Nat
  BY DEF NameLayer, TmpNo, IInv, TypeOK
<1>9. insertAt \in 1..Len(stream) =>
        stream[insertAt].type \notin {"EQUAL", "OPEN"}
  BY <1>6 DEF IInv, InsertPlace, Signs
<1> QED
  BY <1>1, <1>2, <1>4, <1>5, <1>6, <1>7, <1>8, <1>9

\* An old token has a sign behind it if it had one.
LEMMA OldSign ==
  ASSUME IInv, NameLayer, NEW i \in 1..Size, ~IsNew(i)
  PROVE  HasSign(NewList, i) <=> HasSign(stream, Was(i))
<1>1. /\ NamingOK /\ Size \in Nat
      /\ Was(i) \in 1..Len(stream)
      /\ NewFirst \in 1..Size /\ NewList[NewFirst].type = "NAME"
  BY NamingFacts, OldTokens, NewTokens
<1>2. CASE i < Size /\ ~IsNew(i + 1) /\ Was(i + 1) = Was(i) + 1
  <2>1. i + 1 \in 1..Size
    BY <1>1, <1>2
  <2>2. Was(i + 1) \in 1..Len(stream) /\ NewList[i + 1] = stream[Was(i) + 1]
    BY <1>1, <1>2, <2>1, OldTokens
  <2>3. Was(i) < Len(stream)
    BY <1>1, <1>2, <2>2, NamingFacts
  <2> QED
    BY <1>2, <2>2, <2>3 DEF HasSign, Size
<1>3. ASSUME Was(i) + 1 \in {Innermost.begin, pos, insertAt, Len(stream) + 1},
             \/ i = Size
             \/ i + 1 = NewFirst
             \/ Now(i + 1) = insertAt
             \/ ~IsNew(i + 1) /\ Was(i + 1) = insertAt
      PROVE  ~HasSign(NewList, i) /\ ~HasSign(stream, Was(i))
  <2>1. ~HasSign(stream, Was(i))
    <3>1. SUFFICES ASSUME Was(i) < Len(stream)
                   PROVE  stream[Was(i) + 1].type # "EQUAL"
      BY DEF HasSign
    <3>2. Was(i) + 1 \in {Innermost.begin, pos, insertAt}
          /\ Was(i) + 1 \in 1..Len(stream)
      BY <1>1, <1>3, <3>1, NamingFacts
    <3> QED
      BY <3>2, NamingFacts
  <2>2. ~HasSign(NewList, i)
    <3>1. SUFFICES ASSUME i < Size
                   PROVE  NewList[i + 1].type # "EQUAL"
      BY DEF HasSign, Size
    <3>2. i + 1 \in 1..Size /\ i # Size
      BY <1>1, <3>1
    <3>3. CASE i + 1 = NewFirst
      BY <1>1, <3>3
    <3>4. CASE i + 1 # NewFirst /\ Now(i + 1) = insertAt
      BY <1>1, <3>2, <3>4, NewTokens
    <3>5. CASE ~IsNew(i + 1) /\ Was(i + 1) = insertAt
      <4>1. Was(i + 1) \in 1..Len(stream)
            /\ NewList[i + 1] = stream[Was(i + 1)]
        BY <1>1, <3>2, <3>5, OldTokens
      <4> QED
        BY <3>5, <4>1, NamingFacts
    <3> QED
      BY <1>3, <3>2, <3>3, <3>4, <3>5
  <2> QED
    BY <2>1, <2>2
<1> QED
  BY <1>1, <1>2, <1>3, OldNeighbours

\* The name in place of the parentheses is used, the other one is defined.
LEMMA NewSigns ==
  ASSUME IInv, NameLayer
  PROVE  /\ ~HasSign(NewList, NewFirst)
         /\ \A i \in 1..Size : i # NewFirst /\ Now(i) = insertAt =>
              HasSign(NewList, i)
<1>1. NamingOK /\ Size \in Nat /\ NewFirst \in 1..Size
  BY NamingFacts, NewTokens
<1>2. ASSUME NewFirst < Size
      PROVE  NewList[NewFirst + 1].type # "EQUAL"
  <2>1. NewFirst + 1 \in 1..Size /\ NewFirst + 1 # NewFirst
    BY <1>1, <1>2
  <2>2. CASE Now(NewFirst + 1) = insertAt
    BY <1>1, <2>1, <2>2, NewTokens
  <2>3. CASE ~IsNew(NewFirst + 1) /\ Was(NewFirst + 1) = pos + 1
    <3>1. pos + 1 \in 1..Len(stream)
          /\ NewList[NewFirst + 1] = stream[pos + 1]
      BY <1>1, <2>1, <2>3, OldTokens
    <3>2. stream[pos + 1].type \in Signs =>
            stream[(pos + 1) - 1].type \in {"NAME", "STRING", "COMMENT"}
      BY <3>1, NamingFacts DEF IInv, SignsNamed
    <3>3. (pos + 1) - 1 = pos
      BY NamingFacts
    <3> QED
      BY <3>1, <3>2, <3>3, NamingFacts DEF Signs
  <2> QED
    BY <1>1, <1>2, <2>2, <2>3, NewTokens
<1>3. ASSUME NEW i \in 1..Size, i # NewFirst, Now(i) = insertAt
      PROVE  HasSign(NewList, i)
  <2>1. i < Size /\ i + 1 # NewFirst /\ Now(i + 1) = insertAt + 1
    BY <1>1, <1>3, NewTokens
  <2>2. i + 1 \in 1..Size
    BY <1>1, <2>1
  <2> QED
    BY <1>1, <2>1, <2>2, NewTokens DEF HasSign, Size
<1> QED
  BY <1>2, <1>3 DEF HasSign, Size

LEMMA NameLayerNames ==
  ASSUME IInv, NameLayer
  PROVE  NamesBounded' /\ SoleOccurrence'
<1>1. /\ NamingOK /\ stream' = NewList /\ DOMAIN stream' = 1..Size
      /\ nTmpNo' = nTmpNo + 1 /\ TmpNo = nTmpNo + 1 /\ nTmpNo \in Nat
      /\ DOMAIN stream = 1..Len(stream)
  BY NamingFacts
<1>2. nTmpNo >= Numbered /\ Numbered \in Nat
  BY NumberedAssumption DEF IInv, TypeOK
<1>3. NoName \notin Nat
  BY NamesAssumption
<1>4. ASSUME NEW i \in 1..Size, ~IsNew(i)
      PROVE  /\ Was(i) \in DOMAIN stream /\ NewList[i] = stream[Was(i)]
             /\ NewList[i].name \in Nat =>
                  NewList[i].name \in (Numbered + 1)..nTmpNo
  BY <1>1, <1>4, OldTokens DEF IInv, NamesBounded, Temporary
<1>5. ASSUME NEW i \in 1..Size, IsNew(i)
      PROVE  \/ i = NewFirst /\ NewList[i].name = TmpNo
             \/ /\ i # NewFirst /\ Now(i) = insertAt
                /\ NewList[i].name = TmpNo
             \/ NewList[i].name = NoName
  BY <1>1, <1>5, NewTokens DEF IsNew, FreshOf, Now
<1>6. NamesBounded'
  <2>1. ASSUME NEW i \in 1..Size, NewList[i].name \in Nat
        PROVE  NewList[i].name \in (Numbered + 1)..(nTmpNo + 1)
    <3>1. CASE IsNew(i)
      BY <1>1, <1>2, <1>3, <1>5, <2>1, <3>1
    <3>2. CASE ~IsNew(i)
      BY <1>1, <1>2, <1>4, <2>1, <3>2
    <3> QED
      BY <3>1, <3>2
  <2> QED
    BY <1>1, <2>1 DEF NamesBounded, Temporary
<1>7. ASSUME NEW i \in 1..Size, NEW j \in 1..Size,
             NewList[i].name = NewList[j].name, NewList[i].name \in Nat,
             HasSign(NewList, i) <=> HasSign(NewList, j)
      PROVE  i = j
  <2>1. CASE IsNew(i) /\ IsNew(j)
    BY <1>1, <1>3, <1>5, <1>7, <2>1, NewSigns, NewTokens
  <2>2. CASE ~IsNew(i) /\ ~IsNew(j)
    <3>1. HasSign(stream, Was(i)) <=> HasSign(stream, Was(j))
      BY <1>7, <2>2, OldSign
    <3>2. Was(i) = Was(j)
      BY <1>4, <1>7, <2>2, <3>1 DEF IInv, SoleOccurrence
    <3> QED
      BY <1>1, <2>2, <3>2, OldTokens
  <2>3. CASE IsNew(i) /\ ~IsNew(j)
    BY <1>1, <1>3, <1>4, <1>5, <1>7, <2>3
  <2>4. CASE ~IsNew(i) /\ IsNew(j)
    BY <1>1, <1>3, <1>4, <1>5, <1>7, <2>4
  <2> QED
    BY <2>1, <2>2, <2>3, <2>4
<1>8. SoleOccurrence'
  <2>1. \A i \in 1..Size : HasSign(stream, i)' <=> HasSign(NewList, i)
    BY <1>1 DEF HasSign
  <2> QED
    BY <1>1, <1>7, <2>1 DEF SoleOccurrence
<1> QED
  BY <1>6, <1>8

LEMMA NameLayerSigns ==
  ASSUME IInv, NameLayer
  PROVE  SignsNamed'
<1>1. /\ NamingOK /\ stream' = NewList /\ DOMAIN stream' = 1..Size
      /\ Size \in Nat /\ phase = "layers"
      /\ DOMAIN stream = 1..Len(stream)
      /\ Innermost.begin \in 1..Len(stream)
      /\ Len(stream) \in Nat
      /\ insertAt \in 1..(Len(stream) + 1)
  BY NamingFacts
<1>2. ASSUME NEW i \in 1..Size, NewList[i].type \in Signs
      PROVE  i > 1 /\ NewList[i - 1].type \in {"NAME", "STRING", "COMMENT"}
  <2>1. CASE IsNew(i)
    <3>1. i # NewFirst /\ Now(i) = insertAt + 1
      BY <1>1, <1>2, <2>1, NewTokens DEF IsNew, FreshOf, Now, Signs
    <3>2. i > 1 /\ i - 1 # NewFirst /\ Now(i - 1) = insertAt
      BY <1>1, <3>1, NewTokens
    <3>3. i - 1 \in 1..Size
      BY <1>1, <3>2
    <3> QED
      BY <1>1, <3>2, <3>3, NewTokens
  <2>2. CASE ~IsNew(i)
    <3>1. /\ Was(i) \in 1..Len(stream) /\ NewList[i] = stream[Was(i)]
      BY <1>1, <2>2, OldTokens
    <3>2. /\ Was(i) > 1
          /\ stream[Was(i) - 1].type \in {"NAME", "STRING", "COMMENT"}
      BY <1>1, <1>2, <3>1 DEF IInv, SignsNamed
    <3>3. Was(i) # insertAt
      BY <1>2, <3>1, NamingFacts DEF Signs
    <3>4. Was(i) # Innermost.begin + 1
      <4>1. (Innermost.begin + 1) - 1 = Innermost.begin
        BY <1>1
      <4> QED
        BY <3>2, <4>1, NamingFacts
    <3>5. /\ i > 1
          /\ \/ i - 1 = NewFirst
             \/ ~IsNew(i - 1) /\ Was(i - 1) = Was(i) - 1
      BY <1>1, <2>2, <3>1, <3>2, <3>3, <3>4, OldNeighbours
    <3>6. i - 1 \in 1..Size
      BY <1>1, <3>5
    <3>7. CASE i - 1 = NewFirst
      BY <1>1, <3>5, <3>7, NewTokens
    <3>8. CASE ~IsNew(i - 1) /\ Was(i - 1) = Was(i) - 1
      BY <1>1, <3>2, <3>5, <3>6, <3>8, OldTokens
    <3> QED
      BY <3>5, <3>7, <3>8
  <2> QED
    BY <2>1, <2>2
<1> QED
  BY <1>1, <1>2 DEF SignsNamed

\* The calls that are left, at their "(".
LEMMA NameLayerCalls ==
  ASSUME IInv, NameLayer
  PROVE  /\ opens' \in Seq(Open)
         /\ \A i \in DOMAIN opens' : opens'[i].begin < pos'
         /\ OpensNested'
<1>1. /\ NamingOK /\ stream' = NewList /\ Size \in Nat
      /\ Innermost.begin \in 1..Len(stream) /\ Len(stream) \in Nat
  BY NamingFacts
<1>2. /\ Len(opens) \in Nat /\ DOMAIN opens = 1..Len(opens)
      /\ \A i \in 1..Len(opens) : opens[i] \in Open
      /\ Len(opens) \in 1..Len(opens)
  BY <1>1, StreamFacts, EmptySeq DEF NamingOK, TypeOK
<1>3. pos' = NewFirst + 1 /\ NewFirst \in 1..Size
  BY <1>1, NewTokens DEF NameLayer, NewFirst
<1>4. opens' = [i \in 1..(Len(opens) - 1) |->
                  [opens[i] EXCEPT !.begin = Moved(opens[i].begin)]]
  BY DEF NameLayer
<1>5. ASSUME NEW i \in 1..(Len(opens) - 1)
      PROVE  /\ i \in DOMAIN opens
             /\ opens[i].begin \in 1..(Innermost.begin - 1)
             /\ stream[opens[i].begin].type = "LPAREN"
  <2>1. i \in DOMAIN opens /\ i < Len(opens) /\ opens[i].begin \in Nat \ {0}
    BY <1>2 DEF Open
  <2>2. opens[i].begin < Innermost.begin
    BY <1>2, <2>1 DEF IInv, OpensNested, Innermost
  <2>3. stream[opens[i].begin].type = "LPAREN"
    BY <2>1 DEF IInv, OpensNested
  <2> QED
    BY <1>1, <2>1, <2>2, <2>3
<1>6. ASSUME NEW i \in 1..(Len(opens) - 1)
      PROVE  /\ opens'[i].begin = Moved(opens[i].begin)
             /\ opens'[i].begin \in 1..Size /\ opens'[i].begin < NewFirst
             /\ NewList[opens'[i].begin].type = "LPAREN"
             /\ opens'[i] \in Open
  <2>1. opens'[i] = [opens[i] EXCEPT !.begin = Moved(opens[i].begin)]
    BY <1>4
  <2>2. opens[i] \in Open
    BY <1>2, <1>5
  <2>3. opens'[i].begin = Moved(opens[i].begin)
    BY <2>1, <2>2 DEF Open
  <2>4. /\ Moved(opens[i].begin) \in 1..Size
        /\ Moved(opens[i].begin) < NewFirst
        /\ ~IsNew(Moved(opens[i].begin))
        /\ Was(Moved(opens[i].begin)) = opens[i].begin
    BY <1>1, <1>5, KeptPositions
  <2>5. NewList[Moved(opens[i].begin)] = stream[opens[i].begin]
    BY <1>1, <2>4, OldTokens
  <2>6. opens'[i] \in Open
    BY <2>1, <2>2, <2>4 DEF Open
  <2> QED
    BY <1>5, <2>3, <2>4, <2>5, <2>6
<1>7. DOMAIN opens' = 1..(Len(opens) - 1)
  BY <1>4
<1>8. opens' \in Seq(Open)
  <2>1. opens' \in [1..(Len(opens) - 1) -> Open]
    BY <1>4, <1>6
  <2>2. Len(opens) - 1 \in Nat
    BY <1>2
  <2> QED
    BY <2>1, <2>2, SeqDef
<1>9. \A i \in DOMAIN opens' : opens'[i].begin < pos'
  BY <1>1, <1>3, <1>6, <1>7
<1>10. ASSUME NEW i \in DOMAIN opens', NEW j \in DOMAIN opens', i < j
       PROVE  opens'[i].begin < opens'[j].begin
  <2>1. opens[i].begin < opens[j].begin
    BY <1>5, <1>7, <1>10 DEF IInv, OpensNested
  <2>2. /\ opens[i].begin \in Nat /\ opens[j].begin \in Nat
        /\ insertAt \in Nat /\ Len(Definition) \in Nat
    <3>1. Spliced(Len(stream), Innermost.begin, pos, insertAt,
                  Len(Definition), NewFirst, NewLast, Size)
      BY <1>1, NewListElements
    <3>2. Len(Definition) \in Nat
      BY <3>1, Ranges
    <3>3. insertAt \in Nat
      BY <3>1 DEF Spliced
    <3> QED
      BY <1>5, <1>7, <3>2, <3>3
  <2>3. Moved(opens[i].begin) < Moved(opens[j].begin)
    BY <2>1, <2>2 DEF Moved
  <2> QED
    BY <1>6, <1>7, <2>3
<1>11. OpensNested'
  BY <1>1, <1>6, <1>7, <1>10 DEF OpensNested
<1> QED
  BY <1>8, <1>9, <1>11

LEMMA NameLayerInv ==
  ASSUME IInv, NameLayer
  PROVE  IInv'
<1>1. /\ NamingOK /\ stream' = NewList /\ DOMAIN stream' = 1..Size
      /\ Size \in Nat /\ nTmpNo' = nTmpNo + 1 /\ nTmpNo \in Nat
  BY NamingFacts
<1>2. NewList \in Seq(Token) /\ Len(stream') = Size
  BY <1>1, NewListElements DEF Size
<1>3. pos' = NewFirst + 1 /\ NewFirst \in 1..Size
  BY <1>1, NewTokens DEF NameLayer, NewFirst
<1>4. insertAt' = Kept(Moved(insertAt), NewFirst, NewLast)
  BY DEF NameLayer, NewFirst, NewLast
<1>5. /\ insertAt' \in 0..(Size + 1)
      /\ insertAt' \in 1..Size => ~IsNew(insertAt') /\ Was(insertAt') = insertAt
  BY <1>1, <1>4, KeptPositions
<1>6. TypeOK'
  <2>1. stream' \in Seq(Token) /\ pos' \in 1..(Len(stream') + 1)
        /\ insertAt' \in 0..(Len(stream') + 1)
    BY <1>1, <1>2, <1>3, <1>5
  <2>2. nTmpNo' \in Nat /\ nTmpNo' >= Numbered
    BY <1>1, NumberedAssumption DEF IInv, TypeOK
  <2>3. deck' \in Seq(DeckToken) /\ inRuleCheck' \in BOOLEAN
        /\ phase' \in Phases /\ error' \in LayerErrors
    BY DEF NameLayer, IInv, TypeOK
  <2> QED
    BY <2>1, <2>2, <2>3, NameLayerCalls DEF TypeOK
<1>7. InsertPlace'
  <2>1. ASSUME insertAt' \in 1..Size
        PROVE  NewList[insertAt'].type \notin Signs
    <3>1. /\ NewList[insertAt'] = stream[insertAt]
          /\ insertAt \in 1..Len(stream)
      BY <1>1, <1>5, <2>1, OldTokens
    <3> QED
      BY <3>1, NamingFacts DEF Signs
  <2> QED
    BY <1>1, <2>1 DEF InsertPlace
<1> QED
  BY <1>6, <1>7, NameLayerNames, NameLayerSigns, NameLayerCalls DEF IInv

-----------------------------------------------------------------------------
(***************************************************************************)
(* The specification.                                                      *)
(***************************************************************************)
LEMMA LayersNextInv ==
  ASSUME IInv, LayersNext
  PROVE  IInv'
<1>1. CASE CheckDefinedNameValid
  BY <1>1, CheckDefinedNameValidInv
<1>2. CASE OpenBrace \/ CloseBrace \/ EqualSign \/ Directive \/ Skip
  BY <1>2, OutsideInv
<1>3. CASE OpenParen
  BY <1>3, OpenParenInv
<1>4. CASE Keyword
  BY <1>4, KeywordInv
<1>5. CASE PlainParen
  BY <1>5, PlainParenInv
<1>6. CASE NameLayer
  BY <1>6, NameLayerInv
<1>7. CASE \/ NotInside \/ SkipInside \/ RejectParen \/ InsertDangling
           \/ Unclosed \/ Layered
  BY <1>7, InsideInv
<1> QED
  BY <1>1, <1>2, <1>3, <1>4, <1>5, <1>6, <1>7
     DEF LayersNext, RecognizeImplicitLayerDefinitions

LEMMA InitInv ==
  ASSUME Init
  PROVE  IInv
<1>1. deck \in Seq(DeckToken) /\ stream = deck
  BY DecksAssumption DEF Init, LayersInit
<1>2. /\ Len(stream) \in Nat /\ DOMAIN stream = 1..Len(stream)
      /\ \A i \in 1..Len(stream) : stream[i] \in DeckToken
  BY <1>1, LenProperties, ElementOfSeq
<1>3. DeckToken \subseteq Token
  BY DEF DeckToken, Token
<1>4. \A i \in DOMAIN stream : stream[i].name \notin Nat
  BY <1>2, NamesAssumption DEF DeckToken
<1>5. TypeOK
  <2>1. stream \in Seq(Token)
    BY <1>1, <1>2, <1>3, SeqDef
  <2>2. opens \in Seq(Open) /\ DOMAIN opens = {}
    BY EmptySeq DEF Init, LayersInit
  <2>3. /\ pos \in 1..(Len(stream) + 1)
        /\ insertAt \in 0..(Len(stream) + 1)
    BY <1>2 DEF Init, LayersInit
  <2>4. /\ inRuleCheck \in BOOLEAN /\ phase \in Phases
        /\ error \in LayerErrors
    BY DEF Init, LayersInit, Phases, LayerErrors
  <2>5. nTmpNo \in Nat /\ nTmpNo >= Numbered
    <3>1. nTmpNo = Numbered
      BY DEF Init, LayersInit
    <3> QED
      BY <3>1, NumberedAssumption
  <2> QED
    BY <1>1, <2>1, <2>2, <2>3, <2>4, <2>5 DEF TypeOK
<1>6. NamesBounded /\ SoleOccurrence
  BY <1>4 DEF NamesBounded, SoleOccurrence
<1>7. SignsNamed
  BY DEF Init, LayersInit, SignsNamed
<1>8. InsertPlace
  BY <1>2 DEF Init, LayersInit, InsertPlace
<1>9. OpensNested
  BY EmptySeq DEF Init, LayersInit, OpensNested
<1> QED
  BY <1>5, <1>6, <1>7, <1>8, <1>9 DEF IInv

LEMMA InvUnchanged ==
  ASSUME IInv, UNCHANGED layerVars
  PROVE  IInv'
<1>1. TypeOK'
  BY DEF IInv, TypeOK, layerVars
<1>2. NamesBounded' /\ SoleOccurrence'
  BY DEF IInv, NamesBounded, SoleOccurrence, HasSign, Temporary, layerVars
<1>3. SignsNamed' /\ InsertPlace' /\ OpensNested'
  BY DEF IInv, SignsNamed, InsertPlace, OpensNested, layerVars
<1> QED
  BY <1>1, <1>2, <1>3 DEF IInv

-----------------------------------------------------------------------------
(***************************************************************************)
(* The third pass.                                                         *)
(***************************************************************************)
LEMMA NextStatementBound ==
  ASSUME IInv, phase = "layered", NEW k \in 1..Len(stream),
         stream[k].type \in OperationTypes \cup SpecTypes,
         NEW n, n = NextStatement(k)
  PROVE  n \in Nat /\ k < n /\ n <= Len(stream) + 1
<1> DEFINE types == OperationTypes \cup SpecTypes \cup PreTypes
                    \cup {"DMACRO", "EQUAL", "OPEN", "CLOSE"}
           j == First(k + 1, types)
<1>1. /\ Len(stream) \in Nat /\ DOMAIN stream = 1..Len(stream)
      /\ stream \in Seq(Token) /\ k + 1 \in Nat /\ k + 1 >= 1
  BY StreamFacts DEF IInv, TypeOK
<1>2. /\ j \in Nat /\ j <= Len(stream) + 1
      /\ j = Len(stream) + 1 \/ k + 1 <= j
  <2> HIDE DEF types
  <2> QED
    BY <1>1, FirstPosition
<1> DEFINE Behind(i) == /\ stream[i].line = stream[j].line
                        /\ \A h \in (k + 1)..(i - 1) :
                             stream[h].line # stream[j].line
<1>3. n = IF j \notin DOMAIN stream THEN j
          ELSE IF stream[j].type \in {"EQUAL", "OPEN"} THEN j - 1
          ELSE IF stream[j].type = "OPERATION" /\ stream[j].line # stream[k].line
          THEN CHOOSE i \in (k + 1)..j : Behind(i)
          ELSE j
  BY DEF NextStatement
<1>4. j \in DOMAIN stream => \E i \in (k + 1)..j : Behind(i)
  <2> HIDE DEF j
  <2> SUFFICES ASSUME j \in DOMAIN stream
               PROVE  \E i \in (k + 1)..j : Behind(i)
    OBVIOUS
  <2> DEFINE same == {i \in (k + 1)..j : stream[i].line = stream[j].line}
  <2>1. j \in same
    BY <1>1, <1>2
  <2>2. same \in SUBSET Nat
    BY <1>1, <1>2
  <2>3. Min(same) \in same /\ \A i \in same : Min(same) <= i
    <3> HIDE DEF same
    <3> QED
      BY <2>1, <2>2, MinOfNaturals
  <2>4. Behind(Min(same))
    <3>1. ASSUME NEW h \in (k + 1)..(Min(same) - 1)
          PROVE  stream[h].line # stream[j].line
      <4>1. h \in (k + 1)..j /\ ~(Min(same) <= h)
        BY <1>1, <1>2, <2>3
      <4>2. h \notin same
        BY <2>3, <4>1
      <4> QED
        BY <4>1, <4>2
    <3> QED
      BY <2>3, <3>1
  <2> QED
    BY <2>3, <2>4
<1>5. j \in DOMAIN stream /\ stream[j].type \in {"EQUAL", "OPEN"} => j # k + 1
  BY <1>1 DEF IInv, SignsNamed, Signs, OperationTypes, SpecTypes
<1> HIDE DEF j, Behind
<1>6. CASE j \notin DOMAIN stream
  BY <1>1, <1>2, <1>3, <1>6
<1>7. CASE j \in DOMAIN stream /\ stream[j].type \in {"EQUAL", "OPEN"}
  BY <1>1, <1>2, <1>3, <1>5, <1>7
<1>8. CASE j \in DOMAIN stream /\ stream[j].type \notin {"EQUAL", "OPEN"}
  <2>1. (CHOOSE i \in (k + 1)..j : Behind(i)) \in (k + 1)..j
    BY <1>4, <1>8
  <2>2. n = j \/ n \in (k + 1)..j
    BY <1>3, <1>8, <2>1
  <2> QED
    BY <1>1, <1>2, <1>8, <2>2
<1> QED
  BY <1>6, <1>7, <1>8

\* A statement ends behind its keyword.
LEMMA StatementEndBound ==
  ASSUME IInv, phase = "layered", NEW k \in 1..Len(stream),
         stream[k].type \in OperationTypes \cup SpecTypes,
         NEW e, e = StatementEnd(k)
  PROVE  e \in Nat /\ k < e /\ e <= Len(stream) + 1
<1> DEFINE n == NextStatement(k)
           Ends(h) == /\ h = k \/ stream[h - 1].type # "COMMENT"
                      /\ \A i \in h..(n - 1) : stream[i].type = "COMMENT"
           found == {h \in k..n : h = k \/ stream[h - 1].type # "COMMENT"}
<1>1. /\ n \in Nat /\ k < n /\ k \in Nat
      /\ Len(stream) \in Nat /\ n <= Len(stream) + 1
  BY NextStatementBound, StreamFacts DEF IInv
<1> HIDE DEF n
<1>2. \E h \in k..n : Ends(h)
  <2>1. k \in found /\ found \subseteq k..n
    BY <1>1
  <2>2. PICK last \in found : \A h \in found : h <= last
    <3>1. found \in SUBSET 0..n
      BY <1>1, <2>1
    <3> HIDE DEF found
    <3> QED
      BY <1>1, <2>1, <3>1, MaxOfSegment
  <2>3. ASSUME NEW i \in last..(n - 1)
        PROVE  stream[i].type = "COMMENT"
    <3>1. i + 1 \in k..n /\ ~(i + 1 <= last) /\ (i + 1) - 1 = i
      BY <1>1, <2>2
    <3>2. i + 1 \notin found
      BY <2>2, <3>1
    <3> QED
      BY <3>1, <3>2
  <2> QED
    BY <2>2, <2>3
<1>3. e = CHOOSE h \in k..n : Ends(h)
  BY DEF StatementEnd, n
<1>4. e \in k..n /\ Ends(e)
  <2> HIDE DEF Ends
  <2> QED
    BY <1>2, <1>3
<1>5. stream[k].type # "COMMENT"
  BY DEF OperationTypes, SpecTypes
<1>6. e # k
  BY <1>1, <1>4, <1>5
<1> QED
  BY <1>1, <1>4, <1>6

LEMMA NodesStep ==
  ASSUME IInv, iter \in Nat, iter >= 1, NodesNext
  PROVE  /\ UNCHANGED layerVars
         /\ iter' \in Nat /\ iter' >= iter
         /\ nodes' # nodes \/ rule' # rule => iter' > iter \/ status' = "done"
<1> DEFINE Forwards == /\ UNCHANGED layerVars
                       /\ iter' \in Nat /\ iter' > iter
<1>1. /\ Len(stream) \in Nat /\ stream \in Seq(Token)
  BY StreamFacts DEF IInv, TypeOK
<1>2. ASSUME NEW types, AtNode(types)
      PROVE  /\ phase = "layered" /\ iter \in 1..Len(stream)
             /\ stream[iter].type \in types
  BY <1>1, <1>2 DEF AtNode
<1>3. ASSUME NEW last \in Nat, iter < last, MoveTo(last)
      PROVE  Forwards
  BY <1>3 DEF MoveTo
<1>4. ASSUME AtNode(OperationTypes) \/ AtNode(SpecTypes) \/ AtNode({"SPLIT"})
      PROVE  StatementEnd(iter) \in Nat /\ iter < StatementEnd(iter)
  <2>1. /\ phase = "layered" /\ iter \in 1..Len(stream)
        /\ stream[iter].type \in OperationTypes \cup SpecTypes
    BY <1>2, <1>4 DEF SpecTypes
  <2> QED
    BY <2>1, StatementEndBound
<1>5. CASE OperationInRoot \/ OperationInRule
  BY <1>3, <1>4, <1>5 DEF OperationInRoot, OperationInRule
<1>6. CASE SpecificationInRule \/ SpecificationInRoot
  BY <1>3, <1>4, <1>6 DEF SpecificationInRule, SpecificationInRoot
<1>7. CASE SplitGates
  <2>1. StatementEnd(iter) + 2 \in Nat /\ iter < StatementEnd(iter) + 2
    BY <1>4, <1>7 DEF SplitGates
  <2> QED
    BY <1>3, <1>7, <2>1 DEF SplitGates
<1>8. CASE LayerDefinition
  <2>1. phase = "layered" /\ iter \in 1..Len(stream)
    BY <1>2, <1>8 DEF LayerDefinition
  <2>2. /\ DefinitionStop \in Nat
        /\ DefinitionStop = Len(stream) + 1 \/ iter + 1 <= DefinitionStop
    <3> DEFINE types == OperationTypes \cup SpecTypes \cup PreTypes
                        \cup {"EQUAL", "OPEN", "CLOSE"}
    <3>1. DefinitionStop = First(iter + 1, types)
      BY DEF DefinitionStop
    <3> HIDE DEF types
    <3>2. iter + 1 \in Nat /\ iter + 1 >= 1
      OBVIOUS
    <3> QED
      BY <1>1, <3>1, <3>2, FirstPosition
  <2>3. /\ DefinitionStop \in 1..Len(stream) /\ iter < DefinitionStop
        /\ stream[DefinitionStop].type \in OperationTypes
    BY <1>1, <1>8, <2>1, <2>2 DEF LayerDefinition, HasOperation
  <2>4. /\ StatementEnd(DefinitionStop) \in Nat
        /\ DefinitionStop < StatementEnd(DefinitionStop)
    BY <2>1, <2>3, StatementEndBound
  <2>5. iter < StatementEnd(DefinitionStop)
    BY <2>2, <2>3, <2>4
  <2> QED
    BY <1>3, <1>8, <2>4, <2>5 DEF LayerDefinition
<1>9. CASE Proc
  <2> DEFINE types == {"OPEN"}
             brace == First(iter, types)
  <2>1. brace \in Nat /\ (brace = Len(stream) + 1 \/ iter <= brace)
    <3> HIDE DEF types
    <3> QED
      BY <1>1, FirstPosition
  <2>2. iter \in 1..Len(stream)
    BY <1>2, <1>9 DEF Proc
  <2>3. MoveTo(brace + 1)
    BY <1>9 DEF Proc, Enter
  <2> HIDE DEF brace
  <2>4. brace \in Nat /\ iter <= brace
    BY <1>1, <2>1, <2>2
  <2>5. brace + 1 \in Nat /\ iter < brace + 1
    BY <2>4
  <2> QED
    BY <1>3, <2>3, <2>5
<1>10. CASE DropDefinition \/ RuleCheck \/ EndRule \/ Single
  BY <1>3, <1>10 DEF DropDefinition, RuleCheck, Enter, EndRule, Single
<1>11. CASE DeviceAuxiliaryLayer
  BY <1>3, <1>11 DEF DeviceAuxiliaryLayer
<1>12. CASE PreProcess
  BY <1>3, <1>12 DEF PreProcess, IncludeSize
<1>13. CASE NextToken
  BY <1>13 DEF NextToken
<1>14. CASE \/ SplitAtEnd \/ RejectDefinition \/ NameBeforeComment
            \/ ProcWithoutBrace \/ RejectRule \/ IncludeAtEnd
  BY <1>14 DEF SplitAtEnd, RejectDefinition, NameBeforeComment,
               ProcWithoutBrace, RejectRule, IncludeAtEnd, NodesUndefined,
               Unrecognized
<1>15. CASE Finish
  BY <1>15 DEF Finish
<1> QED
  BY <1>5, <1>6, <1>7, <1>8, <1>9, <1>10, <1>11, <1>12, <1>13, <1>14, <1>15
     DEF NodesNext

-----------------------------------------------------------------------------
AllInv == IInv /\ iter \in Nat /\ iter >= 1

LEMMA AllInvStep ==
  ASSUME AllInv, [Next]_vars
  PROVE  AllInv'
<1>1. CASE LayersNext /\ UNCHANGED nodeVars
  BY <1>1, LayersNextInv DEF AllInv, nodeVars
<1>2. CASE NodesNext
  BY <1>2, NodesStep, InvUnchanged DEF AllInv
<1>3. CASE UNCHANGED vars
  BY <1>3, InvUnchanged DEF AllInv, vars, nodeVars
<1> QED
  BY <1>1, <1>2, <1>3 DEF Next

LEMMA AllInvHolds == Spec => []AllInv
<1>1. Init => AllInv
  BY InitInv DEF AllInv, Init
<1>2. AllInv /\ [Next]_vars => AllInv'
  BY AllInvStep
<1> QED
  BY <1>1, <1>2, PTL DEF Spec

\* Whatever list the macro parser leaves, every position that the first two
\* passes keep stays in the list while definitions are inserted and
\* parentheses are replaced (recognizeImplicitLayerDefinitions).
THEOREM PositionsInList == Spec => []TypeOK
<1>1. AllInv => TypeOK
  BY DEF AllInv, IInv
<1> QED
  BY <1>1, AllInvHolds, PTL

\* In any list a temporary name is defined once and used once, however the
\* operations are nested (parseImplicitLayerDefinition).
THEOREM NamedOnce == Spec => []DefinedOnce
<1>1. ASSUME AllInv, NEW k \in (Numbered + 1)..nTmpNo
      PROVE  /\ Cardinality({i \in DOMAIN stream :
                               Defines(i) /\ stream[i].name = k}) <= 1
             /\ Cardinality({i \in DOMAIN stream :
                               ~Defines(i) /\ stream[i].name = k}) <= 1
  <2> DEFINE here == {i \in DOMAIN stream : stream[i].name = k}
  <2>1. k \in Nat
    BY <1>1, NumberedAssumption DEF AllInv, IInv, TypeOK
  <2>2. \A i \in here : Defines(i) <=> HasSign(stream, i)
    BY <1>1 DEF Defines, HasSign, Temporary
  <2>3. \A i, j \in here : (Defines(i) <=> Defines(j)) => i = j
    BY <1>1, <2>1, <2>2 DEF AllInv, IInv, SoleOccurrence
  <2>4. ASSUME NEW S, \A i, j \in S : i = j
        PROVE  Cardinality(S) <= 1
    <3>1. CASE S = {}
      BY <3>1, FS_EmptySet
    <3>2. CASE S # {}
      <4>1. PICK i \in S : TRUE
        BY <3>2
      <4>2. S = {i}
        BY <2>4, <4>1
      <4>3. Cardinality(S) = 1
        BY <4>2, FS_Singleton
      <4> QED
        BY <4>3
    <3> QED
      BY <3>1, <3>2
  <2>5. \A i, j \in {h \in DOMAIN stream : Defines(h) /\ stream[h].name = k} :
          i = j
    BY <2>3
  <2>6. \A i, j \in {h \in DOMAIN stream : ~Defines(h) /\ stream[h].name = k} :
          i = j
    BY <2>3
  <2> QED
    BY <2>4, <2>5, <2>6
<1>2. AllInv => DefinedOnce
  BY <1>1 DEF DefinedOnce
<1> QED
  BY <1>2, AllInvHolds, PTL

\* The third pass comes to an end for every list: each node takes it on, as
\* no statement begins at or behind the name of the next (parseLayerOperation).
THEOREM NodesForward == Spec => Forward
<1>1. AllInv /\ [Next]_vars
      => [nodes' # nodes \/ rule' # rule
          => iter' > iter \/ status' = "done"]_vars
  <2> SUFFICES ASSUME AllInv, [Next]_vars, nodes' # nodes \/ rule' # rule
               PROVE  iter' > iter \/ status' = "done"
    OBVIOUS
  <2>1. CASE LayersNext /\ UNCHANGED nodeVars
    BY <2>1 DEF nodeVars
  <2>2. CASE NodesNext
    BY <2>2, NodesStep DEF AllInv
  <2>3. CASE UNCHANGED vars
    BY <2>3 DEF vars, nodeVars
  <2> QED
    BY <2>1, <2>2, <2>3 DEF Next
<1> QED
  BY <1>1, AllInvHolds, PTL DEF Spec, Forward

-----------------------------------------------------------------------------
(***************************************************************************)
(* The types of the third pass: its position, and the nodes it builds.     *)
(***************************************************************************)
\* A node without its comments is made of the tokens between its ends.
LEMMA TokensTyped ==
  ASSUME stream \in Seq(Token), NEW i \in Nat, NEW j \in Nat, 1 <= i,
         j <= Len(stream) + 1
  PROVE  Tokens(i, j) \in Seq(Token) /\ TokensInside(i, j) \in Seq(Token)
<1> DEFINE all == Tokens(i, j)
           S == Seq(Token)
<1>1. Len(stream) \in Nat
  BY LenProperties
<1>2. all \in S
  BY <1>1, Stretch DEF Tokens
<1> HIDE DEF all
<1>3. /\ Len(all) \in Nat /\ DOMAIN all = 1..Len(all)
      /\ \A m \in 1..Len(all) : all[m] \in Token
  BY <1>2, LenProperties, ElementOfSeq
<1> DEFINE size == Len(all)
           h == [q \in (1..size) \X S |->
                   IF all[q[1]].type = "COMMENT" THEN q[2]
                   ELSE Append(q[2], all[q[1]])]
           body(g) == [n \in 0..size |->
                         IF n = 0 THEN <<>>
                         ELSE IF all[n].type = "COMMENT" THEN g[n - 1]
                         ELSE Append(g[n - 1], all[n])]
           inside == CHOOSE g : g = body(g)
<1>4. size \in Nat /\ <<>> \in S
  BY <1>3, EmptySeq
<1>5. h \in [(1..size) \X S -> S]
  <2>1. ASSUME NEW q \in (1..size) \X S
        PROVE  (IF all[q[1]].type = "COMMENT" THEN q[2]
                ELSE Append(q[2], all[q[1]])) \in S
    <3>1. q[1] \in 1..size /\ q[2] \in Seq(Token)
      BY <2>1
    <3>2. Append(q[2], all[q[1]]) \in Seq(Token)
      BY <1>3, <3>1, AppendProperties
    <3> QED
      BY <3>1, <3>2
  <2> QED
    BY <2>1
<1>6. PICK f \in [0..size -> S] : Recursion(f, <<>>, size, h)
  <2> HIDE DEF h, size, S
  <2> QED
    BY <1>4, <1>5, FunctionByRecursion
<1>7. f[0] = <<>> /\ \A n \in 1..size : f[n] = h[<<n, f[n - 1]>>]
  BY <1>6 DEF Recursion
<1>8. ASSUME NEW n \in 1..size
      PROVE  /\ n - 1 \in 0..size
             /\ f[n - 1] \in S
             /\ h[<<n, f[n - 1]>>] = IF all[n].type = "COMMENT" THEN f[n - 1]
                                     ELSE Append(f[n - 1], all[n])
  <2>1. n - 1 \in 0..size
    BY <1>4, <1>8
  <2>2. f[n - 1] \in S
    BY <1>6, <2>1
  <2>3. <<n, f[n - 1]>> \in (1..size) \X S
    BY <1>8, <2>2
  <2> QED
    BY <2>1, <2>2, <2>3
<1>9. f = body(f)
  <2>1. \A n \in 0..size :
          f[n] = IF n = 0 THEN <<>>
                 ELSE IF all[n].type = "COMMENT" THEN f[n - 1]
                 ELSE Append(f[n - 1], all[n])
    <3>1. ASSUME NEW n \in 0..size, n # 0
          PROVE  n \in 1..size
      BY <1>4, <3>1
    <3> QED
      BY <1>7, <1>8, <3>1
  <2>2. f = [n \in 0..size |-> f[n]]
    BY <1>6
  <2> QED
    BY <2>1, <2>2
<1>10. inside = body(inside)
  <2> HIDE DEF body
  <2> QED
    BY <1>9
<1>11. \A n \in 0..size : inside[n] = IF n = 0 THEN <<>>
                                     ELSE IF all[n].type = "COMMENT"
                                     THEN inside[n - 1]
                                     ELSE Append(inside[n - 1], all[n])
  <2> DEFINE k == inside
  <2> HIDE DEF k
  <2>1. k = body(k)
    BY <1>10 DEF k
  <2>2. \A n \in 0..size : k[n] = IF n = 0 THEN <<>>
                                 ELSE IF all[n].type = "COMMENT" THEN k[n - 1]
                                 ELSE Append(k[n - 1], all[n])
    BY <2>1
  <2> QED
    BY <2>2 DEF k
<1>12. TokensInside(i, j) = inside[size]
  BY DEF TokensInside, all
<1> HIDE DEF inside, h, body
<1>13. inside[size] \in S
  <2> DEFINE P == {n \in 0..size : inside[n] \in S}
  <2>1. 0 \in P
    <3>1. 0 \in 0..size
      BY <1>4
    <3>2. inside[0] = <<>>
      BY <1>11, <3>1
    <3> QED
      BY <1>4, <3>1, <3>2
  <2>2. ASSUME NEW n \in 1..size, n - 1 \in P
        PROVE  n \in P
    <3>1. n \in 0..size /\ n # 0 /\ inside[n - 1] \in Seq(Token)
      BY <1>4, <2>2
    <3>2. Append(inside[n - 1], all[n]) \in Seq(Token)
      BY <1>3, <2>2, <3>1, AppendProperties
    <3>3. inside[n] \in Seq(Token)
      BY <1>11, <3>1, <3>2
    <3> QED
      BY <3>1, <3>3
  <2>3. \A n \in 0..size : n \in P
    <3> HIDE DEF P
    <3> QED
      BY <1>4, <2>1, <2>2, UpTo
  <2> QED
    BY <1>4, <2>3
<1> QED
  BY <1>2, <1>12, <1>13 DEF all

LEMMA LeafTyped ==
  ASSUME NEW kind \in Kinds, NEW head \in Seq(Token), NEW tokens \in Seq(Token)
  PROVE  /\ Leaf(kind, head, tokens) \in Node
         /\ kind \in ChildKinds => Leaf(kind, head, tokens) \in Child
<1>1. <<>> \in Seq(Child)
  BY EmptySeq
<1> QED
  BY <1>1 DEF Leaf, Node, Child

LEMMA OneToken ==
  ASSUME NEW t \in Token
  PROVE  <<t>> \in Seq(Token)
OBVIOUS

RuleTyped ==
  \/ rule = NoRule
  \/ rule \in Node /\ rule.kind \in {"rulecheck", "proc"}

LayersTyped ==
  /\ DOMAIN tmpLayers \subseteq (Numbered + 1)..nTmpNo
  /\ \A k \in DOMAIN tmpLayers : tmpLayers[k] \in Node

\* The pass has not begun before the list is as the pass before leaves it.
NotBegun ==
  phase # "layered" => iter = 1 /\ begin = 1 /\ tmpLayers = <<>>

NodesInv == AllInv /\ NodesTypeOK /\ NotBegun

LEMMA ListFacts ==
  ASSUME NodesInv
  PROVE  /\ Len(stream) \in Nat /\ DOMAIN stream = 1..Len(stream)
         /\ stream \in Seq(Token)
         /\ \A i \in 1..Len(stream) : stream[i] \in Token
         /\ iter \in Nat /\ begin \in Nat /\ 1 <= begin /\ begin <= iter
         /\ iter <= Len(stream) + 1
         /\ nodes \in Seq(Node) /\ RuleTyped /\ LayersTyped
         /\ TypeOK /\ IInv
  BY StreamFacts DEF NodesInv, AllInv, IInv, NodesTypeOK, TypeOK, RuleTyped,
                     LayersTyped

LEMMA MoveTyped ==
  ASSUME NodesInv, phase = "layered", NEW i \in Nat, 1 <= i,
         i <= Len(stream) + 1, MoveTo(i),
         nodes' \in Seq(Node), RuleTyped', LayersTyped'
  PROVE  NodesTypeOK' /\ NotBegun'
<1>1. UNCHANGED <<stream, phase, nTmpNo, status, nodeError>>
  BY DEF MoveTo, layerVars
<1>2. iter' = i /\ begin' = i
  BY DEF MoveTo
<1>3. i \in 1..(Len(stream) + 1) /\ i \in 1..i
  BY ListFacts
<1>4. iter' \in 1..(Len(stream') + 1) /\ begin' \in 1..iter'
  BY <1>1, <1>2, <1>3
<1>5. /\ status' \in {"parsing", "done", "exited", "undefined"}
      /\ nodeError' \in {"none", "SYN1"}
  BY <1>1 DEF NodesInv, NodesTypeOK
<1> QED
  BY <1>1, <1>4, <1>5 DEF NodesTypeOK, NotBegun, RuleTyped, LayersTyped

LEMMA SameLayers ==
  ASSUME NodesInv, UNCHANGED <<layerVars, tmpLayers>>
  PROVE  LayersTyped'
BY ListFacts DEF LayersTyped, layerVars

LEMMA SameRule ==
  ASSUME NodesInv, UNCHANGED rule
  PROVE  RuleTyped'
BY ListFacts DEF RuleTyped

LEMMA PendingTyped ==
  ASSUME NodesInv, NEW i \in Nat, begin <= i, i <= Len(stream) + 1
  PROVE  nodes \o Pending(i) \in Seq(Node)
<1>1. Tokens(begin, i) \in Seq(Token)
  BY ListFacts, TokensTyped
<1>2. Leaf("unknown", <<>>, Tokens(begin, i)) \in Node
  <2>1. <<>> \in Seq(Token) /\ "unknown" \in Kinds
    BY EmptySeq DEF Kinds
  <2> QED
    BY <1>1, <2>1, LeafTyped
<1>3. Pending(i) \in Seq(Node)
  BY <1>2 DEF Pending
<1>4. nodes \in Seq(Node)
  BY ListFacts
<1> QED
  BY <1>3, <1>4

LEMMA AddToRootTyped ==
  ASSUME NodesInv, NEW i \in Nat, begin <= i, i <= Len(stream) + 1,
         NEW node \in Node, AddToRoot(node, i)
  PROVE  nodes' \in Seq(Node)
<1>1. nodes \o Pending(i) \in Seq(Node)
  BY PendingTyped
<1>2. <<node>> \in Seq(Node)
  OBVIOUS
<1>3. (nodes \o Pending(i)) \o <<node>> \in Seq(Node)
  BY <1>1, <1>2, ConcatProperties
<1> QED
  BY <1>3 DEF AddToRoot

LEMMA AddToRuleTyped ==
  ASSUME NodesInv, InRule, NEW node \in Child, AddToRule(node)
  PROVE  RuleTyped'
<1>1. rule \in Node /\ rule.kind \in {"rulecheck", "proc"}
  BY ListFacts DEF RuleTyped, InRule
<1>2. rule.children \in Seq(Child)
  BY <1>1 DEF Node
<1>3. Append(rule.children, node) \in Seq(Child)
  BY <1>2, AppendProperties
<1>4. rule' = [rule EXCEPT !.children = Append(rule.children, node)]
  BY DEF AddToRule
<1>5. rule' \in Node /\ rule'.kind = rule.kind
  BY <1>1, <1>3, <1>4 DEF Node
<1> QED
  BY <1>1, <1>5 DEF RuleTyped

LEMMA AppendTyped ==
  ASSUME NodesInv, NEW node \in Node
  PROVE  Append(nodes, node) \in Seq(Node)
BY ListFacts, AppendProperties

LEMMA StatementPlace ==
  ASSUME NodesInv, NEW types \in {OperationTypes, SpecTypes, {"SPLIT"}},
         AtNode(types)
  PROVE  /\ phase = "layered" /\ iter \in 1..Len(stream)
         /\ StatementEnd(iter) \in Nat /\ iter < StatementEnd(iter)
         /\ StatementEnd(iter) <= Len(stream) + 1
<1>1. /\ phase = "layered" /\ iter \in 1..Len(stream)
      /\ stream[iter].type \in OperationTypes \cup SpecTypes
  BY ListFacts DEF AtNode, SpecTypes, NodesInv, NodesTypeOK
<1>2. IInv
  BY ListFacts
<1> QED
  BY <1>1, <1>2, StatementEndBound

LEMMA ArgumentsEndBound ==
  ASSUME NEW call \in Seq(Token), Len(call) >= 2, NEW n
  PROVE  ArgumentsEnd(call, n) \in 3..(Len(call) + 1)
<1> DEFINE Enough(k) ==
             \/ k = Len(call) + 1
             \/ k - 3 = n + Cardinality({i \in 4..k : Signed(call, i)})
           ends == {k \in 3..(Len(call) + 1) : Enough(k)}
           Ends(e) == Enough(e) /\ \A k \in 3..(e - 1) : ~Enough(k)
<1>1. Len(call) \in Nat
  BY LenProperties
<1>2. Len(call) + 1 \in ends /\ ends \in SUBSET Nat
  BY <1>1
<1>3. Min(ends) \in ends /\ \A e \in ends : Min(ends) <= e
  <2> HIDE DEF ends
  <2> QED
    BY <1>2, MinOfNaturals
<1> DEFINE e == Min(ends)
<1> HIDE DEF e
<1>4. e \in ends /\ \A k \in ends : e <= k
  BY <1>3 DEF e
<1> HIDE DEF Enough
<1>5. ASSUME NEW k \in 3..(e - 1)
      PROVE  ~Enough(k)
  <2>1. k \in 3..(Len(call) + 1) /\ ~(e <= k)
    BY <1>1, <1>4
  <2> QED
    BY <1>4, <2>1
<1>6. \E k \in 3..(Len(call) + 1) : Ends(k)
  BY <1>4, <1>5
<1>7. ArgumentsEnd(call, n) = CHOOSE k \in 3..(Len(call) + 1) : Ends(k)
  BY DEF ArgumentsEnd, Enough
<1> QED
  <2> HIDE DEF Ends
  <2> QED
    BY <1>6, <1>7

LEMMA OwnLengthBound ==
  ASSUME NEW list \in Seq(Token), NEW n, n = OwnLength(list)
  PROVE  /\ n \in Nat /\ n <= Len(list)
         /\ nodes = <<>> => n = Len(list)
<1>1. Len(list) \in Nat
  BY LenProperties
<1>2. Len(list) >= 2 =>
        ArgumentsEnd(list, ParaSizes[list[2].name]) \in 3..(Len(list) + 1)
  BY ArgumentsEndBound
<1> QED
  BY <1>1, <1>2 DEF OwnLength

LEMMA OperationInRootTyped ==
  ASSUME NodesInv, OperationInRoot
  PROVE  NodesTypeOK' /\ NotBegun'
<1> DEFINE end  == StatementEnd(iter)
           all  == TokensInside(begin, end)
           size == OwnLength(all)
<1>1. /\ phase = "layered" /\ end \in Nat /\ iter < end
      /\ end <= Len(stream) + 1
  BY StatementPlace DEF OperationInRoot
<1>2. all \in Seq(Token)
  BY <1>1, ListFacts, TokensTyped
<1> HIDE DEF end
<1>3. size \in Nat /\ size <= Len(all) /\ (nodes = <<>> => size = Len(all))
  <2> HIDE DEF all
  <2> QED
    BY <1>2, OwnLengthBound
<1> DEFINE own  == SubSeq(all, 1, size)
           rest == SubSeq(all, size + 1, Len(all))
           node == Leaf("operation", <<>>, own)
<1>4. /\ nodes' = IF rest = <<>> THEN Append(nodes, node)
                  ELSE Append([nodes EXCEPT ![Len(nodes)].tokens = @ \o rest],
                              node)
      /\ MoveTo(end)
      /\ UNCHANGED <<rule, tmpLayers>>
  BY DEF OperationInRoot, end
<1> HIDE DEF all, size
<1>5. Len(all) \in Nat
  BY <1>2, LenProperties
<1>6. own \in Seq(Token) /\ rest \in Seq(Token)
  BY <1>2, <1>3, <1>5, Stretch
<1>7. nodes = <<>> => rest = <<>>
  BY <1>2, <1>3, <1>5
<1> HIDE DEF own, rest
<1>8. node \in Node
  <2>1. <<>> \in Seq(Token) /\ "operation" \in Kinds
    BY EmptySeq DEF Kinds
  <2> QED
    BY <1>6, <2>1, LeafTyped
<1> HIDE DEF node
<1>9. nodes' \in Seq(Node)
  <2>1. CASE rest = <<>>
    BY <1>4, <1>8, <2>1, AppendTyped
  <2>2. CASE rest # <<>>
    <3> DEFINE more == [nodes EXCEPT ![Len(nodes)].tokens = @ \o rest]
    <3>1. nodes \in Seq(Node) /\ nodes # <<>>
      BY <1>7, <2>2, ListFacts
    <3>2. Len(nodes) \in 1..Len(nodes) /\ Len(nodes) \in Nat
      BY <3>1, EmptySeq, LenProperties
    <3>3. /\ DOMAIN nodes = 1..Len(nodes)
          /\ nodes[Len(nodes)] \in Node
      BY <3>1, <3>2, LenProperties, ElementOfSeq
    <3>4. nodes[Len(nodes)].tokens \o rest \in Seq(Token)
      BY <1>6, <3>3 DEF Node
    <3>5. [nodes[Len(nodes)] EXCEPT !.tokens = @ \o rest] \in Node
      BY <3>3, <3>4 DEF Node
    <3>6. more = [nodes EXCEPT ![Len(nodes)] =
                    [nodes[Len(nodes)] EXCEPT !.tokens = @ \o rest]]
      OBVIOUS
    <3>7. more \in Seq(Node)
      BY <3>1, <3>2, <3>5, <3>6, ExceptSeq
    <3> HIDE DEF more
    <3>8. Append(more, node) \in Seq(Node)
      BY <1>8, <3>7, AppendProperties
    <3> QED
      BY <1>4, <2>2, <3>8 DEF more
  <2> QED
    BY <2>1, <2>2
<1>10. LayersTyped'
  BY <1>4, SameLayers DEF MoveTo
<1>11. RuleTyped'
  BY <1>4, SameRule
<1> QED
  <2>1. 1 <= end
    BY <1>1, ListFacts
  <2>2. MoveTo(end)
    BY <1>4
  <2> QED
    BY <1>1, <1>9, <1>10, <1>11, <2>1, <2>2, MoveTyped

\* An operation or a specification in a rule check or a macro.
LEMMA StatementInRuleTyped ==
  ASSUME NodesInv, OperationInRule \/ SpecificationInRule
  PROVE  NodesTypeOK' /\ NotBegun'
<1> DEFINE end == StatementEnd(iter)
<1>1. /\ phase = "layered" /\ end \in Nat /\ iter < end
      /\ end <= Len(stream) + 1
  BY StatementPlace DEF OperationInRule, SpecificationInRule
<1>2. TokensInside(begin, end) \in Seq(Token)
  BY <1>1, ListFacts, TokensTyped
<1>3. PICK kind \in {"operation", "specification"} :
        /\ InRule
        /\ AddToRule(Leaf(kind, <<>>, TokensInside(begin, end)))
        /\ MoveTo(end)
        /\ UNCHANGED <<nodes, tmpLayers>>
  BY DEF OperationInRule, SpecificationInRule
<1> HIDE DEF end
<1>4. Leaf(kind, <<>>, TokensInside(begin, end)) \in Child
  <2>1. <<>> \in Seq(Token) /\ kind \in Kinds /\ kind \in ChildKinds
    BY EmptySeq DEF Kinds, ChildKinds
  <2> QED
    BY <1>2, <2>1, LeafTyped
<1>5. RuleTyped'
  BY <1>3, <1>4, AddToRuleTyped
<1>6. LayersTyped'
  BY <1>3, SameLayers DEF MoveTo
<1>7. nodes' \in Seq(Node)
  BY <1>3, ListFacts
<1> QED
  BY <1>1, <1>3, <1>5, <1>6, <1>7, ListFacts, MoveTyped

LEMMA SpecificationInRootTyped ==
  ASSUME NodesInv, SpecificationInRoot
  PROVE  NodesTypeOK' /\ NotBegun'
<1> DEFINE end  == StatementEnd(iter)
           node == Leaf("specification", <<>>, TokensInside(iter, end))
<1>1. /\ phase = "layered" /\ end \in Nat /\ iter < end
      /\ end <= Len(stream) + 1
  BY StatementPlace DEF SpecificationInRoot
<1>2. AddToRoot(node, iter) /\ MoveTo(end) /\ UNCHANGED <<rule, tmpLayers>>
  BY DEF SpecificationInRoot
<1>3. TokensInside(iter, end) \in Seq(Token)
  BY <1>1, ListFacts, TokensTyped
<1>4. node \in Node
  <2>1. <<>> \in Seq(Token) /\ "specification" \in Kinds
    BY EmptySeq DEF Kinds
  <2> QED
    BY <1>3, <2>1, LeafTyped
<1> HIDE DEF end, node
<1>5. nodes' \in Seq(Node)
  BY <1>2, <1>4, ListFacts, AddToRootTyped
<1>6. RuleTyped' /\ LayersTyped'
  BY <1>2, SameRule, SameLayers DEF MoveTo
<1> QED
  BY <1>1, <1>2, <1>5, <1>6, ListFacts, MoveTyped

LEMMA SplitGatesTyped ==
  ASSUME NodesInv, SplitGates
  PROVE  NodesTypeOK' /\ NotBegun'
<1> DEFINE end  == StatementEnd(iter)
           list == TokensInside(iter, end)
<1>1. /\ phase = "layered" /\ end \in Nat /\ iter < end
      /\ end <= Len(stream) + 1
  BY StatementPlace DEF SplitGates
<1>2. list \in Seq(Token)
  BY <1>1, ListFacts, TokensTyped
<1>3. PICK part \in {<<>>, <<stream[end + 1]>>} :
        AddToRoot(Leaf("specification", <<>>, list \o part), iter)
  BY DEF SplitGates
<1>4. /\ SplitPart(end) /\ MoveTo(end + 2)
      /\ UNCHANGED <<rule, tmpLayers>>
  BY DEF SplitGates
<1> HIDE DEF end, list
<1>5. end + 1 \in 1..Len(stream) /\ end + 2 \in Nat /\ 1 <= end + 2
  BY <1>1, <1>4, ListFacts DEF SplitPart
<1>6. part \in Seq(Token)
  <2>1. stream[end + 1] \in Token
    BY <1>5, ListFacts
  <2> QED
    BY <1>3, <2>1, OneToken, EmptySeq
<1>7. Leaf("specification", <<>>, list \o part) \in Node
  <2>1. <<>> \in Seq(Token) /\ "specification" \in Kinds
    BY EmptySeq DEF Kinds
  <2>2. list \o part \in Seq(Token)
    BY <1>2, <1>6, ConcatProperties
  <2> QED
    BY <2>1, <2>2, LeafTyped
<1>8. nodes' \in Seq(Node)
  BY <1>3, <1>7, ListFacts, AddToRootTyped
<1>9. RuleTyped' /\ LayersTyped'
  BY <1>4, SameRule, SameLayers DEF MoveTo
<1>10. end + 2 <= Len(stream) + 1
  <2>1. Len(stream) \in Nat
    BY ListFacts
  <2> QED
    BY <1>1, <1>5, <2>1
<1> QED
  BY <1>1, <1>4, <1>5, <1>8, <1>9, <1>10, MoveTyped

\* Where an operation stands behind the sign of a definition.
LEMMA DefinitionStopPlace ==
  ASSUME NodesInv, AtNode({"EQUAL"}), HasOperation,
         NEW stop, stop = DefinitionStop, NEW end, end = StatementEnd(stop)
  PROVE  /\ phase = "layered" /\ iter \in 1..Len(stream)
         /\ end \in Nat /\ iter + 1 < end /\ end <= Len(stream) + 1
<1> DEFINE types == OperationTypes \cup SpecTypes \cup PreTypes
                    \cup {"EQUAL", "OPEN", "CLOSE"}
<1>1. phase = "layered" /\ iter \in 1..Len(stream)
  BY ListFacts DEF AtNode
<1>2. stop = First(iter + 1, types)
  BY DEF DefinitionStop
<1>3. /\ stop \in 1..Len(stream)
      /\ stream[stop].type \in OperationTypes \cup SpecTypes
  BY ListFacts DEF HasOperation
<1> HIDE DEF types
<1>4. iter + 1 <= stop
  <2>1. /\ iter + 1 \in Nat /\ iter + 1 >= 1 /\ Len(stream) \in Nat
        /\ stream \in Seq(Token)
    BY ListFacts
  <2>2. PICK from \in Nat : from = iter + 1
    BY <2>1
  <2>3. stop = Len(stream) + 1 \/ from <= stop
    BY <1>2, <2>1, <2>2, FirstPosition
  <2> QED
    BY <1>3, <2>1, <2>2, <2>3
<1>5. end \in Nat /\ stop < end /\ end <= Len(stream) + 1
  BY <1>1, <1>3, ListFacts, StatementEndBound
<1> QED
  BY <1>1, <1>3, <1>4, <1>5, ListFacts

LEMMA SetTmpLayerTyped ==
  ASSUME NodesInv, UNCHANGED layerVars, NEW name, NEW node \in Node,
         SetTmpLayer(name, node)
  PROVE  LayersTyped'
<1>1. nTmpNo' = nTmpNo /\ LayersTyped
  BY ListFacts DEF layerVars
<1>2. CASE name \in (Numbered + 1)..nTmpNo
  <2>1. tmpLayers' = [k \in DOMAIN tmpLayers \cup {name} |->
                        IF k = name THEN node ELSE tmpLayers[k]]
    BY <1>2 DEF SetTmpLayer
  <2> QED
    BY <1>1, <1>2, <2>1 DEF LayersTyped
<1>3. CASE name \notin (Numbered + 1)..nTmpNo
  BY <1>1, <1>3 DEF SetTmpLayer, LayersTyped
<1> QED
  BY <1>2, <1>3

LEMMA LayerDefinitionTyped ==
  ASSUME NodesInv, LayerDefinition
  PROVE  NodesTypeOK' /\ NotBegun'
<1> DEFINE stop == DefinitionStop
           end  == StatementEnd(stop)
           name == stream[iter - 1]
           node == Leaf("definition", <<name>>, TokensInside(iter + 1, end))
<1>1. /\ phase = "layered" /\ iter \in 1..Len(stream)
      /\ end \in Nat /\ iter + 1 < end /\ end <= Len(stream) + 1
  BY DefinitionStopPlace DEF LayerDefinition
<1>2. /\ begin <= iter - 1
      /\ IF InRoot THEN AddToRoot(node, iter - 1) /\ UNCHANGED rule
                   ELSE AddToRule(node) /\ UNCHANGED nodes
      /\ SetTmpLayer(name.name, node)
      /\ MoveTo(end)
  BY DEF LayerDefinition
<1>3. /\ iter - 1 \in 1..Len(stream) /\ iter - 1 \in Nat
      /\ iter - 1 <= Len(stream) + 1 /\ iter + 1 \in Nat /\ 1 <= iter + 1
      /\ 1 <= end
  BY <1>1, <1>2, ListFacts
<1> HIDE DEF stop, end
<1>4. TokensInside(iter + 1, end) \in Seq(Token)
  BY <1>1, <1>3, ListFacts, TokensTyped
<1>5. <<name>> \in Seq(Token)
  BY <1>3, ListFacts, OneToken
<1> HIDE DEF name
<1>6. node \in Node /\ node \in Child
  <2>1. "definition" \in Kinds /\ "definition" \in ChildKinds
    BY DEF Kinds, ChildKinds
  <2> QED
    BY <1>4, <1>5, <2>1, LeafTyped
<1> HIDE DEF node
<1>7. LayersTyped'
  BY <1>2, <1>6, SetTmpLayerTyped DEF MoveTo
<1>8. nodes' \in Seq(Node) /\ RuleTyped'
  <2>1. CASE InRoot
    <3>1. nodes' \in Seq(Node)
      BY <1>2, <1>3, <1>6, <2>1, AddToRootTyped
    <3> QED
      BY <1>2, <2>1, <3>1, SameRule
  <2>2. CASE ~InRoot
    <3>1. RuleTyped'
      BY <1>2, <1>6, <2>2, AddToRuleTyped DEF InRoot, InRule
    <3> QED
      BY <1>2, <2>2, <3>1, ListFacts
  <2> QED
    BY <2>1, <2>2
<1>9. MoveTo(end)
  BY <1>2
<1> QED
  BY <1>1, <1>3, <1>7, <1>8, <1>9, MoveTyped

LEMMA DropDefinitionTyped ==
  ASSUME NodesInv, DropDefinition
  PROVE  NodesTypeOK' /\ NotBegun'
<1>1. /\ phase = "layered" /\ iter \in 1..Len(stream)
      /\ begin <= iter - 1 /\ iter - 1 \in Nat /\ iter + 1 \in Nat
      /\ 1 <= iter + 1 /\ iter + 1 <= Len(stream) + 1
      /\ iter - 1 <= Len(stream) + 1
  BY ListFacts DEF DropDefinition, AtNode
<1>2. nodes' \in Seq(Node)
  <2>1. nodes \o Pending(iter - 1) \in Seq(Node)
    BY <1>1, PendingTyped
  <2> QED
    BY <2>1, ListFacts DEF DropDefinition
<1>3. RuleTyped' /\ LayersTyped'
  BY SameRule, SameLayers DEF DropDefinition, MoveTo
<1>4. MoveTo(iter + 1)
  BY DEF DropDefinition
<1> QED
  BY <1>1, <1>2, <1>3, <1>4, MoveTyped

LEMMA EnterTyped ==
  ASSUME NodesInv, phase = "layered", NEW kind \in {"rulecheck", "proc"},
         NEW head \in Seq(Token), NEW brace \in 1..Len(stream),
         Enter(kind, head, brace), nodes' \in Seq(Node)
  PROVE  NodesTypeOK' /\ NotBegun'
<1>1. RuleTyped'
  <2>1. <<>> \in Seq(Token) /\ <<>> \in Seq(Child) /\ kind \in Kinds
    BY EmptySeq DEF Kinds
  <2> QED
    BY <2>1 DEF Enter, RuleTyped, Node
<1>2. LayersTyped'
  BY SameLayers DEF Enter, MoveTo
<1>3. /\ brace + 1 \in Nat /\ 1 <= brace + 1 /\ brace + 1 <= Len(stream) + 1
      /\ MoveTo(brace + 1)
  BY ListFacts DEF Enter
<1> QED
  BY <1>1, <1>2, <1>3, MoveTyped

LEMMA RuleCheckTyped ==
  ASSUME NodesInv, RuleCheck
  PROVE  NodesTypeOK' /\ NotBegun'
<1>1. /\ phase = "layered" /\ iter \in 1..Len(stream)
      /\ begin <= iter - 1 /\ iter - 1 \in 1..Len(stream) /\ iter - 1 \in Nat
      /\ iter - 1 <= Len(stream) + 1
  BY ListFacts DEF RuleCheck, AtNode
<1>2. nodes \o Pending(iter - 1) \in Seq(Node)
  BY <1>1, PendingTyped
<1>3. <<stream[iter - 1]>> \in Seq(Token)
  BY <1>1, ListFacts, OneToken
<1>4. nodes' \in Seq(Node)
  BY <1>2 DEF RuleCheck
<1>5. Enter("rulecheck", <<stream[iter - 1]>>, iter)
  BY DEF RuleCheck
<1> QED
  BY <1>1, <1>3, <1>4, <1>5, EnterTyped

LEMMA ProcTyped ==
  ASSUME NodesInv, Proc
  PROVE  NodesTypeOK' /\ NotBegun'
<1> DEFINE types == {"OPEN"}
           brace == First(iter, types)
<1>1. phase = "layered" /\ iter \in 1..Len(stream)
  BY ListFacts DEF Proc, AtNode
<1>2. /\ brace \in DOMAIN stream
      /\ nodes' = nodes \o Pending(iter)
      /\ Enter("proc", Tokens(iter, brace), brace)
  BY DEF Proc
<1> HIDE DEF types, brace
<1>3. brace \in 1..Len(stream) /\ brace \in Nat /\ brace <= Len(stream) + 1
  BY <1>2, ListFacts
<1>4. Tokens(iter, brace) \in Seq(Token)
  BY <1>1, <1>3, ListFacts, TokensTyped
<1>5. nodes' \in Seq(Node)
  BY <1>2, ListFacts, PendingTyped
<1> QED
  BY <1>1, <1>2, <1>3, <1>4, <1>5, EnterTyped

LEMMA EndRuleTyped ==
  ASSUME NodesInv, EndRule
  PROVE  NodesTypeOK' /\ NotBegun'
<1>1. /\ phase = "layered" /\ iter + 1 \in Nat /\ 1 <= iter + 1
      /\ iter + 1 <= Len(stream) + 1
  BY ListFacts DEF EndRule, AtNode
<1>2. rule \in Node
  BY ListFacts DEF EndRule, InRule, RuleTyped
<1>3. nodes' \in Seq(Node)
  BY <1>2, AppendTyped DEF EndRule
<1>4. RuleTyped' /\ LayersTyped'
  BY SameLayers DEF EndRule, RuleTyped, MoveTo, NoRule
<1>5. MoveTo(iter + 1)
  BY DEF EndRule
<1> QED
  BY <1>1, <1>3, <1>4, <1>5, MoveTyped

LEMMA DeviceAuxiliaryLayerTyped ==
  ASSUME NodesInv, DeviceAuxiliaryLayer
  PROVE  NodesTypeOK' /\ NotBegun'
<1> DEFINE node == Leaf("dummy", <<>>, Tokens(iter, iter + 3))
<1>1. /\ phase = "layered" /\ iter + 3 \in Nat /\ 1 <= iter + 3
      /\ iter + 3 <= Len(stream) + 1
  BY ListFacts DEF DeviceAuxiliaryLayer, AtNode, Auxiliary
<1>2. Tokens(iter, iter + 3) \in Seq(Token)
  BY <1>1, ListFacts, TokensTyped
<1>3. node \in Child
  <2>1. <<>> \in Seq(Token) /\ "dummy" \in Kinds /\ "dummy" \in ChildKinds
    BY EmptySeq DEF Kinds, ChildKinds
  <2> QED
    BY <1>2, <2>1, LeafTyped
<1>4. /\ InRule /\ AddToRule(node) /\ MoveTo(iter + 3)
      /\ UNCHANGED <<nodes, tmpLayers>>
  BY DEF DeviceAuxiliaryLayer
<1> HIDE DEF node
<1>5. RuleTyped'
  BY <1>3, <1>4, AddToRuleTyped
<1>6. LayersTyped' /\ nodes' \in Seq(Node)
  BY <1>4, ListFacts, SameLayers DEF MoveTo
<1> QED
  BY <1>1, <1>4, <1>5, <1>6, MoveTyped

LEMMA SingleTyped ==
  ASSUME NodesInv, Single
  PROVE  NodesTypeOK' /\ NotBegun'
<1> DEFINE node == Leaf(NodeKind(stream[iter].type), <<>>,
                        Tokens(iter, iter + 1))
<1>1. /\ phase = "layered" /\ iter + 1 \in Nat /\ 1 <= iter + 1
      /\ iter + 1 <= Len(stream) + 1
      /\ stream[iter].type \in {"COMMENT", "BUILTIN"} \cup PreTypes
  BY ListFacts DEF Single, AtNode
<1>2. Tokens(iter, iter + 1) \in Seq(Token)
  BY <1>1, ListFacts, TokensTyped
<1>3. node \in Node /\ node \in Child
  <2>1. <<>> \in Seq(Token) /\ {"preprocess", "comment", "buildin"} \subseteq Kinds
        /\ {"preprocess", "comment", "buildin"} \subseteq ChildKinds
    BY EmptySeq DEF Kinds, ChildKinds
  <2>2. NodeKind(stream[iter].type) \in {"preprocess", "comment", "buildin"}
    BY <1>1 DEF NodeKind, PreTypes, CondTypes
  <2> QED
    BY <1>2, <2>1, <2>2, LeafTyped
<1>4. Add(node) /\ MoveTo(iter + 1) /\ UNCHANGED tmpLayers
  BY DEF Single
<1> HIDE DEF node
<1>5. nodes' \in Seq(Node) /\ RuleTyped'
  <2>1. CASE InRoot
    BY <1>3, <1>4, <2>1, AppendTyped, SameRule DEF Add
  <2>2. CASE ~InRoot
    <3>1. RuleTyped'
      BY <1>3, <1>4, <2>2, AddToRuleTyped DEF Add, InRoot, InRule
    <3> QED
      BY <1>4, <2>2, <3>1, ListFacts DEF Add
  <2> QED
    BY <2>1, <2>2
<1>6. LayersTyped'
  BY <1>4, SameLayers DEF MoveTo
<1> QED
  BY <1>1, <1>4, <1>5, <1>6, MoveTyped

LEMMA PreProcessTyped ==
  ASSUME NodesInv, PreProcess
  PROVE  NodesTypeOK' /\ NotBegun'
<1>1. PICK size \in {1, 2} : size = IncludeSize
  BY DEF IncludeSize
<1> DEFINE node == Leaf("preprocess", <<>>, Tokens(iter, iter + size))
<1>2. /\ phase = "layered" /\ iter <= Len(stream)
      /\ size = 2 => iter < Len(stream)
  BY <1>1 DEF PreProcess, AtNode, IncludeSize
<1>3. /\ iter + size \in Nat /\ 1 <= iter + size
      /\ iter + size <= Len(stream) + 1
  BY <1>2, ListFacts
<1>4. node \in Node
  <2>1. <<>> \in Seq(Token) /\ "preprocess" \in Kinds
    BY EmptySeq DEF Kinds
  <2>2. Tokens(iter, iter + size) \in Seq(Token)
    BY <1>3, ListFacts, TokensTyped
  <2> QED
    BY <2>1, <2>2, LeafTyped
<1>5. /\ AddToRoot(node, iter) /\ MoveTo(iter + size)
      /\ UNCHANGED <<rule, tmpLayers>>
  BY <1>1 DEF PreProcess
<1> HIDE DEF node
<1>6. nodes' \in Seq(Node)
  BY <1>4, <1>5, ListFacts, AddToRootTyped
<1>7. RuleTyped' /\ LayersTyped'
  BY <1>5, SameRule, SameLayers DEF MoveTo
<1> QED
  BY <1>2, <1>3, <1>5, <1>6, <1>7, MoveTyped

LEMMA NextTokenTyped ==
  ASSUME NodesInv, NextToken
  PROVE  NodesTypeOK' /\ NotBegun'
<1>1. /\ phase = "layered" /\ iter <= Len(stream) /\ iter' = iter + 1
      /\ UNCHANGED <<layerVars, begin, rule, nodes, tmpLayers, status,
                     nodeError>>
  BY DEF NextToken, AtNode
<1>2. iter + 1 \in 1..(Len(stream) + 1) /\ begin \in 1..(iter + 1)
  BY <1>1, ListFacts
<1> QED
  BY <1>1, <1>2 DEF NodesInv, NodesTypeOK, NotBegun, layerVars

LEMMA FinishTyped ==
  ASSUME NodesInv, Finish
  PROVE  NodesTypeOK' /\ NotBegun'
<1>1. nodes' \in Seq(Node)
  <2>1. CASE InRoot
    <3>1. nodes \o Pending(iter) \in Seq(Node)
      BY ListFacts, PendingTyped
    <3> QED
      BY <2>1, <3>1 DEF Finish
  <2>2. CASE ~InRoot
    <3>1. rule \in Node
      BY <2>2, ListFacts DEF InRoot, RuleTyped
    <3> QED
      BY <2>2, <3>1, AppendTyped DEF Finish
  <2> QED
    BY <2>1, <2>2
<1> QED
  BY <1>1 DEF Finish, NodesInv, NodesTypeOK, NotBegun, layerVars

\* What stops the pass adds nothing.
LEMMA StopTyped ==
  ASSUME NodesInv, NodesUndefined \/ Unrecognized
  PROVE  NodesTypeOK' /\ NotBegun'
BY DEF NodesUndefined, Unrecognized, NodesInv, NodesTypeOK, NotBegun, layerVars

LEMMA NodesNextTyped ==
  ASSUME NodesInv, NodesNext
  PROVE  NodesTypeOK' /\ NotBegun'
<1>1. CASE \/ OperationInRoot \/ OperationInRule
           \/ SpecificationInRule \/ SpecificationInRoot \/ SplitGates
  BY <1>1, OperationInRootTyped, StatementInRuleTyped,
     SpecificationInRootTyped, SplitGatesTyped
<1>2. CASE LayerDefinition \/ DropDefinition \/ RuleCheck \/ Proc \/ EndRule
  BY <1>2, LayerDefinitionTyped, DropDefinitionTyped, RuleCheckTyped,
     ProcTyped, EndRuleTyped
<1>3. CASE \/ DeviceAuxiliaryLayer \/ Single \/ PreProcess \/ NextToken
           \/ Finish
  BY <1>3, DeviceAuxiliaryLayerTyped, SingleTyped, PreProcessTyped,
     NextTokenTyped, FinishTyped
<1>4. CASE \/ SplitAtEnd \/ RejectDefinition \/ NameBeforeComment
           \/ ProcWithoutBrace \/ RejectRule \/ IncludeAtEnd
  BY <1>4, StopTyped DEF SplitAtEnd, RejectDefinition, NameBeforeComment,
                         ProcWithoutBrace, RejectRule, IncludeAtEnd
<1> QED
  BY <1>1, <1>2, <1>3, <1>4 DEF NodesNext

\* While the passes before change the list, the third has no position in it.
LEMMA LayersNextTyped ==
  ASSUME NodesInv, LayersNext, UNCHANGED nodeVars
  PROVE  NodesTypeOK' /\ NotBegun'
<1>1. phase # "layered"
  BY DEF LayersNext, CheckDefinedNameValid, RecognizeImplicitLayerDefinitions,
         OpenBrace, CloseBrace, EqualSign, Directive, Skip, OpenParen, Keyword,
         NotInside, SkipInside, RejectParen, PlainParen, NameLayer,
         InsertDangling, Unclosed, Layered, Outside, Inside, Closing
<1>2. iter' = 1 /\ begin' = 1 /\ tmpLayers' = <<>>
  BY <1>1 DEF NodesInv, NotBegun, nodeVars
<1>3. Len(stream') \in Nat
  <2>1. IInv'
    BY LayersNextInv DEF NodesInv, AllInv
  <2> QED
    BY <2>1, LenProperties DEF IInv, TypeOK
<1>4. 1 \in 1..(Len(stream') + 1) /\ 1 \in 1..1
  BY <1>3
<1>5. iter' \in 1..(Len(stream') + 1) /\ begin' \in 1..iter'
  BY <1>2, <1>4
<1>6. DOMAIN tmpLayers' = {}
  BY <1>2, EmptySeq
<1> QED
  BY <1>2, <1>5, <1>6 DEF NodesInv, NodesTypeOK, NotBegun, nodeVars

\* For every list the position of the third pass stays in the list, rule checks
\* and macros hold statements and do not nest, a node has the tokens of its own
\* stretch of the list, and temporary layers are recorded under temporary names
\* only (rcsSynConvertor::execute, parseRuleCheck, setTmpLayer).
THEOREM NodesTyped == Spec => []NodesTypeOK
<1>1. Init => NodesInv
  <2> SUFFICES ASSUME Init
               PROVE  NodesInv
    OBVIOUS
  <2>1. AllInv
    BY InitInv DEF AllInv, Init
  <2>2. Len(stream) \in Nat
    BY <2>1, LenProperties DEF AllInv, IInv, TypeOK
  <2>3. nodes \in Seq(Node) /\ DOMAIN tmpLayers = {}
    BY EmptySeq DEF Init
  <2>4. iter \in 1..(Len(stream) + 1) /\ begin \in 1..iter
    BY <2>2 DEF Init
  <2> QED
    BY <2>1, <2>3, <2>4 DEF Init, NodesInv, NodesTypeOK, NotBegun
<1>2. NodesInv /\ [Next]_vars => NodesInv'
  <2> SUFFICES ASSUME NodesInv, [Next]_vars
               PROVE  NodesInv'
    OBVIOUS
  <2>1. AllInv'
    BY AllInvStep DEF NodesInv
  <2>2. NodesTypeOK' /\ NotBegun'
    <3>1. CASE UNCHANGED vars
      BY <3>1 DEF NodesInv, NodesTypeOK, NotBegun, vars, layerVars, nodeVars
    <3> QED
      BY <3>1, NodesNextTyped, LayersNextTyped DEF Next
  <2> QED
    BY <2>1, <2>2 DEF NodesInv
<1>3. NodesInv => NodesTypeOK
  BY DEF NodesInv
<1> QED
  BY <1>1, <1>2, <1>3, PTL DEF Spec
=============================================================================
