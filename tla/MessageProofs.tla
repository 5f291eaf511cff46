---------------------------- MODULE MessageProofs ----------------------------
(***************************************************************************)
(* What the operators on texts return.  find(), splitString() and the      *)
(* loops that build texts first; then what handleRequestData reads of a    *)
(* message, or of a part of it (ParsedAsSent); then numbers and lines, and *)
(* what a client reads of a response (WireRead).                           *)
(***************************************************************************)
EXTENDS Message, Recursion, SequenceTheorems

(* Sequences of one element, and of one more than another.                   *)
LEMMA OneElement ==
    ASSUME NEW S, NEW s \in Seq(S), Len(s) = 1
    PROVE  s = <<s[1]>>
<1> DEFINE t == <<s[1]>>
<1>1. t \in Seq(S) /\ Len(s) = Len(t) /\ \A i \in 1..Len(s) : s[i] = t[i]
  OBVIOUS
<1> HIDE DEF t
<1>2. s = t
  BY <1>1, SeqEqual
<1> QED
  BY <1>2 DEF t

(* A sequence is its head and its tail.                                      *)
LEMMA HeadAndTail ==
    ASSUME NEW S, NEW s \in Seq(S), s # <<>>
    PROVE  /\ Head(s) \in S /\ Tail(s) \in Seq(S)
           /\ Len(Tail(s)) = Len(s) - 1 /\ Len(s) \in Nat \ {0}
           /\ s = <<Head(s)>> \o Tail(s)
<1> DEFINE t == <<Head(s)>> \o Tail(s)
<1>1. /\ Head(s) \in S /\ Tail(s) \in Seq(S) /\ <<Head(s)>> \in Seq(S)
      /\ Len(<<Head(s)>>) = 1 /\ Len(Tail(s)) = Len(s) - 1 /\ Len(s) \in Nat \ {0}
  OBVIOUS
<1>2. t \in Seq(S) /\ Len(s) = Len(t) /\ \A i \in 1..Len(s) : s[i] = t[i]
  BY <1>1
<1> HIDE DEF t
<1>3. s = t
  BY <1>2, SeqEqual
<1> QED
  BY <1>1, <1>3 DEF t

(* A sequence with an element put before it.                                 *)
LEMMA Prepended ==
    ASSUME NEW S, NEW a \in S, NEW s \in Seq(S)
    PROVE  /\ <<a>> \o s \in Seq(S) /\ <<a>> \o s # <<>>
           /\ Head(<<a>> \o s) = a /\ Tail(<<a>> \o s) = s
           /\ Len(<<a>> \o s) = Len(s) + 1 /\ Len(s) \in Nat
           /\ (<<a>> \o s)[1] = a /\ \A i \in 1..Len(s) : (<<a>> \o s)[i + 1] = s[i]
  OBVIOUS

(* A sequence is what comes up to a position and what comes behind it.       *)
LEMMA CutAt ==
    ASSUME NEW S, NEW s \in Seq(S), NEW e \in 0..Len(s)
    PROVE  /\ SubSeq(s, 1, e) \in Seq(S) /\ Len(SubSeq(s, 1, e)) = e
           /\ SubSeq(s, e + 1, Len(s)) \in Seq(S) /\ Len(SubSeq(s, e + 1, Len(s))) = Len(s) - e
           /\ s = SubSeq(s, 1, e) \o SubSeq(s, e + 1, Len(s))
<1> DEFINE a == SubSeq(s, 1, e)
           b == SubSeq(s, e + 1, Len(s))
           t == a \o b
<1>1. Len(s) \in Nat /\ e \in Nat /\ e <= Len(s)
  OBVIOUS
<1>2. a \in Seq(S) /\ Len(a) = e /\ \A i \in 1..e : a[i] = s[i]
  BY <1>1
<1>3. /\ b \in Seq(S) /\ Len(b) = Len(s) - e
      /\ \A i \in 1..(Len(s) - e) : b[i] = s[e + i]
  BY <1>1
<1> HIDE DEF a, b
<1>4. /\ t \in Seq(S) /\ Len(t) = Len(a) + Len(b)
      /\ \A i \in 1..Len(t) : t[i] = IF i <= Len(a) THEN a[i] ELSE b[i - Len(a)]
  BY <1>2, <1>3
<1> HIDE DEF t
<1>5. Len(t) = Len(s) /\ \A i \in 1..Len(s) : s[i] = t[i]
  BY <1>1, <1>2, <1>3, <1>4
<1>6. s = t
  BY <1>4, <1>5, SeqEqual
<1> QED
  BY <1>2, <1>3, <1>6 DEF a, b, t

(* The parts of a concatenation.                                             *)
LEMMA CutJoined ==
    ASSUME NEW S, NEW a \in Seq(S), NEW b \in Seq(S)
    PROVE  /\ a \o b \in Seq(S) /\ Len(a \o b) = Len(a) + Len(b)
           /\ SubSeq(a \o b, 1, Len(a)) = a
           /\ SubSeq(a \o b, Len(a) + 1, Len(a \o b)) = b
<1> DEFINE t == a \o b
           c == SubSeq(t, 1, Len(a))
           d == SubSeq(t, Len(a) + 1, Len(t))
<1>1. /\ t \in Seq(S) /\ Len(t) = Len(a) + Len(b)
      /\ \A i \in 1..Len(t) : t[i] = IF i <= Len(a) THEN a[i] ELSE b[i - Len(a)]
  OBVIOUS
<1>2. Len(a) \in Nat /\ Len(b) \in Nat
  OBVIOUS
<1> HIDE DEF t
<1>3. c \in Seq(S) /\ Len(c) = Len(a) /\ \A i \in 1..Len(a) : c[i] = t[i]
  BY <1>1, <1>2
<1>4. d \in Seq(S) /\ Len(d) = Len(b) /\ \A i \in 1..Len(b) : d[i] = t[Len(a) + i]
  BY <1>1, <1>2
<1> HIDE DEF c, d
<1>5. \A i \in 1..Len(a) : t[i] = a[i]
  BY <1>1, <1>2
<1>6. \A i \in 1..Len(b) : t[Len(a) + i] = b[i]
  BY <1>1, <1>2
<1>7. c = a
  BY <1>3, <1>5, SeqEqual
<1>8. d = b
  BY <1>4, <1>6, SeqEqual
<1> QED
  BY <1>1, <1>7, <1>8 DEF t, c, d

(* Concatenation is associative.                                             *)
LEMMA Associates ==
    ASSUME NEW S, NEW a \in Seq(S), NEW b \in Seq(S), NEW c \in Seq(S)
    PROVE  (a \o b) \o c = a \o (b \o c)
BY SMTT(60)

(* The same for texts.                                                       *)
LEMMA TextFacts ==
    /\ <<>> \in Text /\ \A s \in Symbols : <<s>> \in Text
    /\ \A a, b \in Text :
          /\ a \o b \in Text /\ Len(a) \in Nat /\ Len(a \o b) = Len(a) + Len(b)
          /\ SubSeq(a \o b, 1, Len(a)) = a
          /\ SubSeq(a \o b, Len(a) + 1, Len(a \o b)) = b
          /\ a \o <<>> = a /\ <<>> \o a = a
          /\ a = <<>> <=> Len(a) = 0
    /\ \A a, b, c \in Text : (a \o b) \o c = a \o (b \o c)
<1>1. <<>> \in Text /\ \A s \in Symbols : <<s>> \in Text
  BY DEF Text
<1>2. \A a, b \in Text : a \o <<>> = a /\ <<>> \o a = a /\ Len(a) \in Nat /\ (a = <<>> <=> Len(a) = 0)
  <2>1. \A a \in Text : a \o <<>> = a /\ <<>> \o a = a
    BY ConcatEmptySeq, Zenon DEF Text
  <2>2. \A a \in Text : Len(a) \in Nat /\ (a = <<>> <=> Len(a) = 0)
    BY DEF Text
  <2> QED
    BY <2>1, <2>2, Zenon
<1>3. \A a \in Text, b \in Text :
          /\ a \o b \in Text /\ Len(a \o b) = Len(a) + Len(b)
          /\ SubSeq(a \o b, 1, Len(a)) = a
          /\ SubSeq(a \o b, Len(a) + 1, Len(a \o b)) = b
  BY CutJoined, Zenon DEF Text
<1>4. ASSUME NEW a \in Text, NEW b \in Text, NEW c \in Text
      PROVE  (a \o b) \o c = a \o (b \o c)
  <2>1. a \in Seq(Symbols) /\ b \in Seq(Symbols) /\ c \in Seq(Symbols)
    BY Zenon DEF Text
  <2> QED
    BY <2>1, SMTT(60)
<1> QED
  BY <1>1, <1>2, <1>3, <1>4, Zenon

(* Associativity as a fact about three texts; the provers do not instantiate *)
(* the equation.                                                             *)
Assoc(a, b, c) == (a \o b) \o c = a \o (b \o c)

(* Concatenation of texts is associative.                                    *)
LEMMA TextAssociates == \A a, b, c \in Text : Assoc(a, b, c)
BY TextFacts, Zenon DEF Assoc

(* A text with a symbol put before it.                                       *)
LEMMA TextPrepended ==
    \A c \in Symbols, u \in Text :
        /\ <<c>> \o u \in Text /\ <<c>> \o u # <<>>
        /\ Head(<<c>> \o u) = c /\ Tail(<<c>> \o u) = u
        /\ Len(<<c>> \o u) = Len(u) + 1
BY DEF Text

(* A text is what comes up to a position and what comes behind it.           *)
LEMMA TextCut ==
    ASSUME NEW text \in Text, NEW e \in 0..Len(text)
    PROVE  /\ SubSeq(text, 1, e) \in Text /\ Len(SubSeq(text, 1, e)) = e
           /\ SubSeq(text, e + 1, Len(text)) \in Text
           /\ Len(SubSeq(text, e + 1, Len(text))) = Len(text) - e
           /\ text = SubSeq(text, 1, e) \o SubSeq(text, e + 1, Len(text))
BY CutAt, Zenon DEF Text

(* A set of naturals has a least element, and Min is it.                     *)
LEMMA MinIsLeast ==
    ASSUME NEW S, S \subseteq Nat, S # {}
    PROVE  Min(S) \in S /\ \A n \in S : Min(S) <= n
<1> DEFINE Bound == {n \in Nat : n \in S => \E m \in S : \A k \in S : m <= k}
<1>1. ASSUME NEW n \in Nat, \A m \in Nat : m < n => m \in Bound PROVE n \in Bound
  BY <1>1
<1> HIDE DEF Bound
<1>2. Nat \subseteq Bound
  BY <1>1, StrongInduction
<1>3. \E m \in S : \A k \in S : m <= k
  BY <1>2 DEF Bound
<1> QED
  BY <1>3 DEF Min

(* The string looked for stands at position i, and the positions where       *)
(* find() looks for it.                                                      *)
OccursAt(text, what, i) == SubSeq(text, i, i + Len(what) - 1) = what
Places(text, what, from) == from..(Len(text) + 1 - Len(what))

(* The first occurrence, or 0 if there is none.                              *)
LEMMA FindResult ==
    ASSUME NEW text \in Text, NEW what \in Text, NEW from \in Nat
    PROVE  \/ /\ Find(text, what, from) = 0
              /\ \A i \in Places(text, what, from) : ~ OccursAt(text, what, i)
           \/ /\ Find(text, what, from) \in Places(text, what, from)
              /\ Find(text, what, from) \in Nat
              /\ OccursAt(text, what, Find(text, what, from))
              /\ \A i \in from..(Find(text, what, from) - 1) : ~ OccursAt(text, what, i)
<1> DEFINE found == {i \in Places(text, what, from) : OccursAt(text, what, i)}
<1>1. Find(text, what, from) = IF found = {} THEN 0 ELSE Min(found)
  BY DEF Find, OccursAt, Places
<1>2. Len(text) \in Nat /\ Len(what) \in Nat
  BY DEF Text
<1>3. found \subseteq Nat /\ Places(text, what, from) \subseteq Nat
  BY <1>2 DEF Places
<1>4. CASE found = {}
  BY <1>1, <1>4
<1>5. CASE found # {}
  <2>1. Min(found) \in found /\ \A n \in found : Min(found) <= n
    BY <1>3, <1>5, MinIsLeast
  <2>2. \A i \in from..(Min(found) - 1) : i \in Places(text, what, from) /\ ~ (Min(found) <= i)
    BY <1>2, <1>3, <2>1 DEF Places
  <2>3. \A i \in from..(Min(found) - 1) : ~ OccursAt(text, what, i)
    BY <2>1, <2>2
  <2> QED
    BY <1>1, <1>3, <1>5, <2>1, <2>3
<1> QED
  BY <1>4, <1>5

(* Searching for one symbol.                                                 *)
LEMMA FindSymbol ==
    ASSUME NEW text \in Text, NEW symbol \in Symbols, NEW from \in Nat \ {0}
    PROVE  \/ /\ Find(text, <<symbol>>, from) = 0
              /\ \A i \in from..Len(text) : text[i] # symbol
           \/ /\ Find(text, <<symbol>>, from) \in from..Len(text)
              /\ text[Find(text, <<symbol>>, from)] = symbol
              /\ \A i \in from..(Find(text, <<symbol>>, from) - 1) : text[i] # symbol
<1>1. <<symbol>> \in Text /\ Len(<<symbol>>) = 1 /\ Len(text) \in Nat
  BY DEF Text
<1>2. ASSUME NEW i \in 1..Len(text)
      PROVE  OccursAt(text, <<symbol>>, i) <=> text[i] = symbol
  <2>1. SubSeq(text, i, i) \in Text /\ Len(SubSeq(text, i, i)) = 1 /\ SubSeq(text, i, i)[1] = text[i]
    BY <1>1 DEF Text
  <2>2. i + Len(<<symbol>>) - 1 = i
    BY <1>1
  <2>3. SubSeq(text, i, i) = <<symbol>> <=> SubSeq(text, i, i)[1] = symbol
    BY <2>1, OneElement DEF Text
  <2> QED
    BY <2>1, <2>2, <2>3 DEF OccursAt
<1>3. Places(text, <<symbol>>, from) = from..Len(text)
  BY <1>1 DEF Places
<1> HIDE DEF Text
<1>4. CASE Find(text, <<symbol>>, from) = 0
  BY <1>1, <1>2, <1>3, <1>4, FindResult
<1>5. CASE Find(text, <<symbol>>, from) # 0
  BY <1>1, <1>2, <1>3, <1>5, FindResult
<1> QED
  BY <1>4, <1>5

(* The rank of a text.                                                       *)
Lengths == [text \in Text |-> Len(text)]

(* Lengths of texts are naturals.                                            *)
LEMMA TextLength == \A text \in Text : Len(text) \in Nat
BY DEF Text

(* Lengths rank the texts.                                                   *)
LEMMA LengthsAreNat == Lengths \in [Text -> Nat]
BY TextLength DEF Lengths

(* What comes behind a position, and before it.                              *)
LEMMA Behind ==
    ASSUME NEW text \in Text, NEW pos \in 1..Len(text)
    PROVE  /\ SubSeq(text, pos + 1, Len(text)) \in Text
           /\ Len(SubSeq(text, pos + 1, Len(text))) = Len(text) - pos
           /\ SubSeq(text, 1, pos - 1) \in Text
           /\ Len(SubSeq(text, 1, pos - 1)) = pos - 1
  BY DEF Text

(* splitString by its defining equation.                                     *)
SplitOf(split, rest, delimiter) ==
    LET end == Find(rest, <<delimiter>>, 1) IN
    IF rest = <<>> THEN <<>>
    ELSE IF end = 0 THEN <<rest>>
    ELSE <<SubSeq(rest, 1, end - 1)>> \o split[SubSeq(rest, end + 1, Len(rest))]

(* What Split makes of a text depends on its values at shorter texts only.   *)
LEMMA SplitOfBelow ==
    ASSUME NEW delimiter \in Symbols, NEW rest \in Text, NEW g, NEW h
    PROVE  /\ (\A y \in Text : Lengths[y] < Lengths[rest] => g[y] \in Seq(Text))
              => SplitOf(g, rest, delimiter) \in Seq(Text)
           /\ (\A y \in Text : Lengths[y] < Lengths[rest] => g[y] = h[y])
              => SplitOf(g, rest, delimiter) = SplitOf(h, rest, delimiter)
<1>1. CASE rest = <<>> \/ Find(rest, <<delimiter>>, 1) = 0
  BY <1>1 DEF SplitOf
<1>2. CASE rest # <<>> /\ Find(rest, <<delimiter>>, 1) # 0
  <2> DEFINE pos == Find(rest, <<delimiter>>, 1)
             after == SubSeq(rest, pos + 1, Len(rest))
  <2>1. pos \in 1..Len(rest)
    BY <1>2, FindSymbol
  <2>2. SubSeq(rest, 1, pos - 1) \in Text /\ after \in Text /\ Lengths[after] < Lengths[rest]
    BY <2>1, Behind, TextLength DEF Lengths
  <2>3. \A f : SplitOf(f, rest, delimiter) = <<SubSeq(rest, 1, pos - 1)>> \o f[after]
    BY <1>2 DEF SplitOf
  <2> HIDE DEF pos, after
  <2>4. ASSUME \A y \in Text : Lengths[y] < Lengths[rest] => g[y] \in Seq(Text)
        PROVE  SplitOf(g, rest, delimiter) \in Seq(Text)
    <3>1. g[after] \in Seq(Text)
      BY <2>2, <2>4
    <3>2. <<SubSeq(rest, 1, pos - 1)>> \o g[after] \in Seq(Text)
      BY <2>2, <3>1, Prepended
    <3> QED
      BY <2>3, <3>2
  <2>5. ASSUME \A y \in Text : Lengths[y] < Lengths[rest] => g[y] = h[y]
        PROVE  SplitOf(g, rest, delimiter) = SplitOf(h, rest, delimiter)
    <3>1. g[after] = h[after]
      BY <2>2, <2>5
    <3> QED
      BY <2>3, <3>1
  <2> QED
    BY <2>4, <2>5
<1> QED
  BY <1>1, <1>2

(* splitString is typed, and obeys its equation.                             *)
LEMMA SplitEquation ==
    ASSUME NEW delimiter \in Symbols
    PROVE  /\ Split(delimiter) \in [Text -> Seq(Text)]
           /\ \A rest \in Text :
                 Split(delimiter)[rest] = SplitOf(Split(delimiter), rest, delimiter)
<1> DEFINE D == [g \in [Text -> Seq(Text)] |->
                   [rest \in Text |-> SplitOf(g, rest, delimiter)]]
           Typed == {rest \in Text : Split(delimiter)[rest] \in Seq(Text)}
<1>1. D \in [[Text -> Seq(Text)] -> [Text -> Seq(Text)]]
  BY SplitOfBelow
<1>2. DependsBelow(D, Lengths, Text, Seq(Text))
  BY SplitOfBelow DEF DependsBelow
<1>3. \A g \in [Text -> Seq(Text)] : D[g] = [rest \in Text |-> SplitOf(g, rest, delimiter)]
  OBVIOUS
<1> HIDE DEF D
<1>4. HasFixedPoint(D, Text, Seq(Text))
  BY <1>1, <1>2, EmptySeq, LengthsAreNat, RecursionExists
<1>5. Split(delimiter) = [rest \in Text |-> SplitOf(Split(delimiter), rest, delimiter)]
  <2>1. \E f \in [Text -> Seq(Text)] : f = [rest \in Text |-> SplitOf(f, rest, delimiter)]
    <3>1. PICK f \in [Text -> Seq(Text)] : f = D[f]
      BY <1>4 DEF HasFixedPoint
    <3>2. f = [rest \in Text |-> SplitOf(f, rest, delimiter)]
      BY <1>3, <3>1, Zenon
    <3> QED
      BY <3>2
  <2> QED
    BY <2>1 DEF Split, SplitOf
<1>6. \A rest \in Text : Split(delimiter)[rest] = SplitOf(Split(delimiter), rest, delimiter)
  BY <1>5
<1>7. \A rest \in Text : (\A y \in Text : Lengths[y] < Lengths[rest] => y \in Typed)
                        => rest \in Typed
  BY <1>6, SplitOfBelow
<1> HIDE DEF Typed
<1>8. Text \subseteq Typed
  BY <1>7, LengthsAreNat, RankInduction
<1> QED
  BY <1>5, <1>6, <1>8 DEF Typed

(* FlattenSeq by partial results.                                            *)
Flattens(partial, seqs) ==
    /\ partial[0] = <<>>
    /\ \A i \in 1..Len(seqs) : partial[i] = partial[i - 1] \o seqs[i]
    /\ FlattenSeq(seqs) = partial[Len(seqs)]

(* FlattenSeq by its defining equation.                                      *)
FlattenOf(partial, i, seqs) == IF i = 1 THEN seqs[i] ELSE partial[i - 1] \o seqs[i]

(* The partial results of FlattenSeq exist.                                  *)
LEMMA FlattenPartial ==
    ASSUME NEW S, NEW seqs \in Seq(Seq(S))
    PROVE  \E partial \in [0..Len(seqs) -> Seq(S)] : Flattens(partial, seqs)
<1> DEFINE I == 1..Len(seqs)
           D == [g \in [I -> Seq(S)] |-> [i \in I |-> FlattenOf(g, i, seqs)]]
           rank == [i \in I |-> i]
           flatten == CHOOSE f : f = [i \in I |-> FlattenOf(f, i, seqs)]
           Typed == {i \in I : flatten[i] \in Seq(S)}
<1>1. Len(seqs) \in Nat /\ I \subseteq Nat /\ rank \in [I -> Nat]
  OBVIOUS
<1>2. CASE Len(seqs) = 0
  <2>1. FlattenSeq(seqs) = <<>> /\ Flattens([i \in 0..Len(seqs) |-> <<>>], seqs)
    BY <1>2 DEF FlattenSeq, Flattens
  <2>2. [i \in 0..Len(seqs) |-> <<>>] \in [0..Len(seqs) -> Seq(S)]
    BY EmptySeq
  <2> QED
    BY <2>1, <2>2
<1>3. CASE Len(seqs) # 0
  <2>1. \A i \in I : seqs[i] \in Seq(S)
    OBVIOUS
  <2>2. \A i \in I : i # 1 => i - 1 \in I /\ rank[i - 1] < rank[i]
    BY <1>1
  <2>3. ASSUME NEW g, NEW i \in I, \A j \in I : rank[j] < rank[i] => g[j] \in Seq(S)
        PROVE  FlattenOf(g, i, seqs) \in Seq(S)
    <3>1. i # 1 => g[i - 1] \in Seq(S)
      BY <2>2, <2>3
    <3> QED
      BY <2>1, <3>1, ConcatProperties DEF FlattenOf
  <2>4. ASSUME NEW g, NEW h, NEW i \in I, \A j \in I : rank[j] < rank[i] => g[j] = h[j]
        PROVE  FlattenOf(g, i, seqs) = FlattenOf(h, i, seqs)
    <3>1. i # 1 => g[i - 1] = h[i - 1]
      BY <2>2, <2>4
    <3> QED
      BY <3>1 DEF FlattenOf
  <2> HIDE DEF rank, I
  <2>5. D \in [[I -> Seq(S)] -> [I -> Seq(S)]]
    BY <2>3
  <2>6. DependsBelow(D, rank, I, Seq(S))
    BY <2>4 DEF DependsBelow
  <2>7. \A g \in [I -> Seq(S)] : D[g] = [i \in I |-> FlattenOf(g, i, seqs)]
    OBVIOUS
  <2>8. Seq(S) # {}
    BY EmptySeq
  <2> HIDE DEF D
  <2>9. HasFixedPoint(D, I, Seq(S))
    BY <1>1, <2>5, <2>6, <2>8, RecursionExists
  <2>10. \E f : f = [i \in I |-> FlattenOf(f, i, seqs)]
    <3>1. PICK f \in [I -> Seq(S)] : f = D[f]
      BY <2>9 DEF HasFixedPoint
    <3>2. f = [i \in I |-> FlattenOf(f, i, seqs)]
      BY <2>7, <3>1
    <3> QED
      BY <3>2
  <2>11. flatten = [i \in I |-> FlattenOf(flatten, i, seqs)]
    BY <2>10
  <2>12. FlattenSeq(seqs) = flatten[Len(seqs)]
    BY <1>3 DEF FlattenSeq, FlattenOf, I
  <2> HIDE DEF flatten
  <2>13. \A i \in I : flatten[i] = FlattenOf(flatten, i, seqs)
    BY <2>11
  <2>14. \A i \in I : (\A j \in I : rank[j] < rank[i] => j \in Typed) => i \in Typed
    BY <2>3, <2>13
  <2> HIDE DEF Typed
  <2>15. I \subseteq Typed
    BY <1>1, <2>14, RankInduction
  <2> DEFINE partial == [i \in 0..Len(seqs) |-> IF i = 0 THEN <<>> ELSE flatten[i]]
  <2>16. partial \in [0..Len(seqs) -> Seq(S)]
    BY <1>1, <2>15, EmptySeq DEF Typed, I
  <2>17. Flattens(partial, seqs)
    <3>1. partial[0] = <<>> /\ FlattenSeq(seqs) = partial[Len(seqs)]
      BY <1>1, <1>3, <2>12
    <3>2. ASSUME NEW i \in 1..Len(seqs) PROVE partial[i] = partial[i - 1] \o seqs[i]
      <4>1. CASE i = 1
        <5>1. partial[1] = seqs[1] /\ partial[0] = <<>>
          BY <1>1, <1>3, <2>13, <4>1 DEF FlattenOf, I
        <5>2. seqs[1] \in Seq(S)
          BY <4>1
        <5>3. <<>> \o seqs[1] = seqs[1]
          BY <5>2, ConcatEmptySeq
        <5> HIDE DEF partial
        <5>4. partial[1] = partial[0] \o seqs[1]
          BY <5>1, <5>3
        <5>5. i - 1 = 0
          BY <4>1
        <5> QED
          BY <4>1, <5>4, <5>5
      <4>2. CASE i # 1
        <5>1. partial[i] = flatten[i] /\ partial[i - 1] = flatten[i - 1]
          BY <1>1, <4>2
        <5> QED
          BY <2>13, <4>2, <5>1 DEF FlattenOf, I
      <4> QED
        BY <4>1, <4>2
    <3> QED
      BY <3>1, <3>2 DEF Flattens
  <2> QED
    BY <2>16, <2>17
<1> QED
  BY <1>2, <1>3

(* Nothing flattens to nothing.                                              *)
LEMMA FlattenEmpty == FlattenSeq(<<>>) = <<>>
BY DEF FlattenSeq

(* Flattening takes one sequence after another.                              *)
LEMMA FlattenCons ==
    ASSUME NEW S, NEW a \in Seq(S), NEW seqs \in Seq(Seq(S))
    PROVE  /\ FlattenSeq(seqs) \in Seq(S)
           /\ FlattenSeq(<<a>> \o seqs) = a \o FlattenSeq(seqs)
<1> DEFINE more == <<a>> \o seqs
<1>1. /\ more \in Seq(Seq(S)) /\ Len(more) = Len(seqs) + 1 /\ Len(seqs) \in Nat
      /\ more[1] = a /\ \A i \in 1..Len(seqs) : more[i + 1] = seqs[i]
  BY Prepended
<1> HIDE DEF more
<1>2. PICK n \in Nat : n = Len(seqs) /\ n + 1 = Len(more)
  BY <1>1
<1>3. PICK p \in [0..n -> Seq(S)] : Flattens(p, seqs)
  BY <1>2, FlattenPartial
<1>4. PICK q \in [0..(n + 1) -> Seq(S)] : Flattens(q, more)
  BY <1>1, <1>2, FlattenPartial
<1>5. \A i \in 1..n : seqs[i] \in Seq(S) /\ more[i + 1] = seqs[i]
  BY <1>1, <1>2
<1>6. \A i \in 1..n : i - 1 \in 0..n /\ i - 1 \in Nat /\ i - 1 < i /\ (i - 1) + 1 = i
                    /\ i + 1 \in 1..(n + 1) /\ (i + 1) - 1 = i
  OBVIOUS
<1>7. p[0] = <<>> /\ q[0] = <<>> /\ q[1] = q[0] \o a
  <2>1. 1 \in 1..Len(more) /\ 1 - 1 = 0
    BY <1>2
  <2> QED
    BY <1>1, <1>3, <1>4, <2>1 DEF Flattens
<1>8. \A i \in 1..n : q[i + 1] = q[i] \o seqs[i] /\ p[i] = p[i - 1] \o seqs[i] /\ p[i - 1] \in Seq(S)
  <2>1. \A i \in 1..n : p[i] = p[i - 1] \o seqs[i]
    BY <1>2, <1>3 DEF Flattens
  <2>2. \A i \in 1..(n + 1) : q[i] = q[i - 1] \o more[i]
    BY <1>2, <1>4 DEF Flattens
  <2>3. \A i \in 1..n : q[i + 1] = q[i] \o seqs[i]
    BY <1>5, <1>6, <2>2
  <2> QED
    BY <1>3, <1>6, <2>1, <2>3
<1> DEFINE Same == {i \in Nat : i \in 0..n => q[i + 1] = a \o p[i]}
<1>9. ASSUME NEW i \in Nat, \A j \in Nat : j < i => j \in Same PROVE i \in Same
  <2>1. CASE i = 0
    <3>1. <<>> \o a = a /\ a \o <<>> = a
      BY ConcatEmptySeq
    <3>2. q[1] = a \o p[0]
      BY <1>7, <3>1
    <3> QED
      BY <2>1, <3>2
  <2>2. CASE i \in 1..n
    <3>1. i - 1 \in Same
      BY <1>6, <1>9, <2>2
    <3>2. q[i] = a \o p[i - 1]
      BY <1>6, <2>2, <3>1
    <3>3. (a \o p[i - 1]) \o seqs[i] = a \o (p[i - 1] \o seqs[i])
      <4>1. PICK u \in Seq(S), v \in Seq(S) : u = p[i - 1] /\ v = seqs[i]
        BY <1>5, <1>8, <2>2
      <4>2. (a \o u) \o v = a \o (u \o v)
        BY SMTT(60)
      <4> QED
        BY <4>1, <4>2
    <3>4. q[i + 1] = a \o p[i]
      BY <1>8, <2>2, <3>2, <3>3
    <3> QED
      BY <3>4
  <2>3. CASE i \notin 0..n
    BY <2>3
  <2>4. i = 0 \/ i \in 1..n \/ i \notin 0..n
    OBVIOUS
  <2> HIDE DEF Same
  <2> QED
    BY <2>1, <2>2, <2>3, <2>4
<1> HIDE DEF Same
<1>10. n \in Same
  BY <1>9, StrongInduction
<1>11. q[n + 1] = a \o p[n] /\ p[n] \in Seq(S)
  BY <1>3, <1>10 DEF Same
<1> QED
  BY <1>2, <1>3, <1>4, <1>11 DEF Flattens, more

-----------------------------------------------------------------------------
(* The types of what is composed and parsed                                  *)

(* Two texts make a text.                                                    *)
LEMMA Joined == \A a, b \in Text : a \o b \in Text
BY DEF Text

(* A part of a text is a text.                                               *)
LEMMA TextPart ==
    ASSUME NEW text \in Text, NEW from \in Nat \ {0}, NEW to \in Int, to <= Len(text)
    PROVE  SubSeq(text, from, to) \in Text
<1>1. CASE from <= to
  BY <1>1 DEF Text
<1>2. CASE ~ (from <= to)
  <2>1. SubSeq(text, from, to) = <<>>
    BY <1>2 DEF Text
  <2> QED
    BY <2>1, TextFacts, Zenon
<1> QED
  BY <1>1, <1>2

(* find() gives a position in the text, or 0.                                *)
LEMMA FindType ==
    ASSUME NEW text \in Text, NEW what \in Text, NEW from \in Nat
    PROVE  Find(text, what, from) \in Nat /\ Find(text, what, from) <= Len(text) + 1
<1>1. CASE Find(text, what, from) = 0
  BY <1>1, TextLength
<1>2. CASE Find(text, what, from) # 0
  <2>1. Find(text, what, from) \in Places(text, what, from) /\ Find(text, what, from) \in Nat
    BY <1>2, FindResult, Zenon
  <2>2. Len(text) \in Nat /\ Len(what) \in Nat
    BY TextLength
  <2> HIDE DEF Find
  <2> QED
    BY <2>1, <2>2 DEF Places
<1> QED
  BY <1>1, <1>2

(* What the server itself writes consists of symbols.                        *)
LEMMA WordsAreSymbols ==
    /\ Methods \subseteq Symbols
    /\ {"CR", "LF", " ", "/", "HTTP/1.1", ": ", ", ", "Content-Type", "text/plain"} \subseteq Symbols
    /\ {"Allow", "Bad Request", "Not Found", "Method not allowed"} \subseteq Symbols
BY MessageAssumption, Zenon

(* The end of a line is a text of two symbols.                               *)
LEMMA EolText ==
    /\ Eol \in Text /\ Len(Eol) = 2 /\ Eol[1] = "CR" /\ Eol[2] = "LF"
    /\ Eol \o Eol \in Text
<1>1. Eol \in Text /\ Len(Eol) = 2 /\ Eol[1] = "CR" /\ Eol[2] = "LF"
  <2>1. "CR" \in Symbols /\ "LF" \in Symbols
    BY WordsAreSymbols
  <2> QED
    BY <2>1 DEF Eol, Text
<1> QED
  BY <1>1, Joined, Zenon

(* The first line and its parts are texts.                                   *)
LEMMA LineText ==
    ASSUME NEW data \in Text
    PROVE  /\ Find(data, Eol, 1) \in Nat /\ Find(data, Eol, 1) <= Len(data) + 1
           /\ SubSeq(data, 1, Find(data, Eol, 1) - 1) \in Text
           /\ RequestLine(data) \in Seq(Text)
<1>1. 1 \in Nat /\ 1 \in Nat \ {0} /\ Len(data) \in Nat
  BY TextLength
<1>2. Find(data, Eol, 1) \in Nat /\ Find(data, Eol, 1) <= Len(data) + 1
  BY <1>1, EolText, FindType, Zenon
<1>3. Find(data, Eol, 1) - 1 \in Int /\ Find(data, Eol, 1) - 1 <= Len(data)
  BY <1>1, <1>2
<1>4. SubSeq(data, 1, Find(data, Eol, 1) - 1) \in Text
  BY <1>1, <1>3, TextPart, Zenon
<1>5. Split(" ") \in [Text -> Seq(Text)]
  BY SplitEquation, WordsAreSymbols
<1>6. RequestLine(data) = Split(" ")[SubSeq(data, 1, Find(data, Eol, 1) - 1)]
  BY Zenon DEF RequestLine, splitString
<1> QED
  BY <1>2, <1>4, <1>5, <1>6, Zenon

(* The URI is a text without its slash, too.                                 *)
LEMMA StripSlashType ==
    ASSUME NEW uri \in Text
    PROVE  StripSlash(uri) \in Text
<1>1. Len(uri) - 1 \in Int /\ Len(uri) - 1 <= Len(uri) /\ 1 \in Nat \ {0}
  BY TextLength
<1>2. SubSeq(uri, 1, Len(uri) - 1) \in Text
  BY <1>1, TextPart, Zenon
<1> QED
  BY <1>2, Zenon DEF StripSlash, Front

(* The types of the arguments of a request, and of the request.              *)
Arguments == UNION {[names -> Text] : names \in SUBSET Text}

RequestType ==
    [method : Methods \cup {"UNKNOWN", "HTTP_METHOD_MAX"}, uri : Text, args : Arguments,
     headers : Text, body : Text]

(* A request that has no arguments is typed.                                 *)
LEMMA NoArguments == <<>> \in Arguments
<1>1. <<>> \in [{} -> Text] /\ {} \in SUBSET Text
  OBVIOUS
<1> QED
  BY <1>1, Zenon DEF Arguments

(* So is the request before anything has been received.                      *)
LEMMA NoRequestType == NoRequest \in RequestType
BY NoArguments, TextFacts DEF NoRequest, RequestType

(* What Requested returns.                                                   *)
IsRequested(request, method, uri, headers, body) ==
    /\ request \in RequestType
    /\ request.method = method /\ request.uri = uri /\ request.args = <<>>
    /\ request.headers = headers /\ request.body = body

(* What is requested by typed parts is typed.                                *)
LEMMA RequestedType ==
    ASSUME NEW method \in Methods \cup {"UNKNOWN", "HTTP_METHOD_MAX"}, NEW uri \in Text,
           NEW headers \in Text, NEW body \in Text
    PROVE  IsRequested(Requested(method, uri, headers, body), method, uri, headers, body)
<1>1. Requested(method, uri, headers, body) =
         [method |-> method, uri |-> uri, args |-> <<>>, headers |-> headers, body |-> body]
  <2> DEFINE r == [method |-> "HTTP_METHOD_MAX", uri |-> <<>>, args |-> <<>>,
                   headers |-> <<>>, body |-> <<>>]
  <2>1. Requested(method, uri, headers, body) =
           [r EXCEPT !.method = method, !.uri = uri, !.headers = headers, !.body = body]
    BY Zenon DEF Requested, NoRequest
  <2> DEFINE a == [method |-> method, uri |-> <<>>, args |-> <<>>, headers |-> <<>>, body |-> <<>>]
             b == [method |-> method, uri |-> uri, args |-> <<>>, headers |-> <<>>, body |-> <<>>]
             c == [method |-> method, uri |-> uri, args |-> <<>>, headers |-> headers, body |-> <<>>]
             d == [method |-> method, uri |-> uri, args |-> <<>>, headers |-> headers, body |-> body]
  <2>2. [r EXCEPT !.method = method] = a
    OBVIOUS
  <2>3. [a EXCEPT !.uri = uri] = b
    OBVIOUS
  <2>4. [b EXCEPT !.headers = headers] = c
    OBVIOUS
  <2>5. [c EXCEPT !.body = body] = d
    OBVIOUS
  <2>6. [r EXCEPT !.method = method, !.uri = uri, !.headers = headers, !.body = body] =
           [[[[r EXCEPT !.method = method] EXCEPT !.uri = uri] EXCEPT !.headers = headers] EXCEPT !.body = body]
    OBVIOUS
  <2> HIDE DEF a, b, c, d, r
  <2>7. Requested(method, uri, headers, body) = d
    BY <2>1, <2>2, <2>3, <2>4, <2>5, <2>6, Zenon
  <2> QED
    BY <2>7, Zenon DEF d
<1> QED
  BY <1>1, NoArguments DEF RequestType, IsRequested

(* stringToHttpMethod returns a method or "UNKNOWN".                         *)
LEMMA MethodType ==
    ASSUME NEW name PROVE stringToHttpMethod(name) \in Methods \cup {"UNKNOWN", "HTTP_METHOD_MAX"}
<1>1. CASE \E m \in Methods : name = <<m>>
  <2>1. PICK m \in Methods : name = <<m>>
    BY <1>1
  <2>2. name[1] = m
    BY <2>1
  <2> QED
    BY <1>1, <2>2 DEF stringToHttpMethod
<1>2. CASE ~ \E m \in Methods : name = <<m>>
  BY <1>2, Zenon DEF stringToHttpMethod
<1> QED
  BY <1>1, <1>2

(* handleRequestData makes a typed request of all that it does not reject.   *)
LEMMA ParsedType ==
    ASSUME NEW data \in Text, Len(RequestLine(data)) >= 3
    PROVE  ParseRequest(data) \in RequestType /\ ParseRequest(data).args = <<>>
<1> DEFINE parts == RequestLine(data)
           part == SubSeq(data, Find(data, Eol, 1) + 2, Len(data))
           end == HeaderEnd(part)
           headers == IF end = 0 THEN part ELSE SubSeq(part, 1, end - 1)
           body == IF end = 0 THEN <<>> ELSE SubSeq(part, end + 4, Len(part))
<1>1. parts \in Seq(Text) /\ Find(data, Eol, 1) \in Nat
  BY LineText, Zenon
<1>2. parts[2] \in Text
  <2> HIDE DEF parts
  <2>1. parts \in Seq(Text) /\ Len(parts) >= 3
    BY <1>1 DEF parts
  <2> QED
    BY <2>1
<1>3. part \in Text
  <2>1. Find(data, Eol, 1) + 2 \in Nat \ {0} /\ Len(data) \in Int /\ Len(data) <= Len(data)
    BY <1>1, TextLength
  <2> QED
    BY <2>1, TextPart, Zenon
<1> HIDE DEF part
<1>4. end \in Nat /\ end <= Len(part) + 1
  <2>1. 1 \in Nat
    OBVIOUS
  <2> QED
    BY <1>3, <2>1, EolText, FindType, Zenon DEF HeaderEnd
<1> HIDE DEF end
<1>5. headers \in Text
  <2>1. end - 1 \in Int /\ end - 1 <= Len(part) /\ 1 \in Nat \ {0}
    BY <1>3, <1>4, TextLength
  <2>2. SubSeq(part, 1, end - 1) \in Text
    BY <1>3, <2>1, TextPart, Zenon
  <2> QED
    BY <1>3, <2>2, Zenon
<1>6. body \in Text
  <2>1. end + 4 \in Nat \ {0} /\ Len(part) \in Int /\ Len(part) <= Len(part)
    BY <1>3, <1>4, TextLength
  <2>2. SubSeq(part, end + 4, Len(part)) \in Text
    BY <1>3, <2>1, TextPart, Zenon
  <2> QED
    BY <2>2, TextFacts, Zenon
<1>7. ParseRequest(data) = Requested(stringToHttpMethod(parts[1]), StripSlash(parts[2]), headers, body)
  BY Zenon DEF ParseRequest, part, end
<1> HIDE DEF headers, body, parts
<1>8. IsRequested(Requested(stringToHttpMethod(parts[1]), StripSlash(parts[2]), headers, body),
                  stringToHttpMethod(parts[1]), StripSlash(parts[2]), headers, body)
  <2>1. StripSlash(parts[2]) \in Text
    BY <1>2, StripSlashType, Zenon
  <2>2. stringToHttpMethod(parts[1]) \in Methods \cup {"UNKNOWN", "HTTP_METHOD_MAX"}
    BY MethodType, Zenon
  <2> QED
    BY <1>5, <1>6, <2>1, <2>2, RequestedType, Zenon
<1> QED
  BY <1>7, <1>8, Zenon DEF IsRequested

(* The headers that a client sends are a text.                               *)
LEMMA HeaderTextType ==
    ASSUME NEW message, IsMessage(message)
    PROVE  HeaderText(message) \in Text
<1> DEFINE m == [i \in DOMAIN message.headers |-> message.headers[i] \o Eol]
<1>1. message.headers \in Seq(Text)
  BY Zenon DEF IsMessage
<1>2. DOMAIN message.headers = 1..Len(message.headers) /\ Len(message.headers) \in Nat
      /\ \A i \in DOMAIN message.headers : message.headers[i] \in Text
  BY <1>1
<1>3. \A i \in DOMAIN message.headers : message.headers[i] \o Eol \in Text
  BY <1>2, EolText, Joined, Zenon
<1>4. m \in Seq(Text)
  BY <1>2, <1>3
<1>5. HeaderText(message) = FlattenSeq(m)
  BY Zenon DEF HeaderText
<1> HIDE DEF m
<1>6. <<>> \in Seq(Symbols)
  OBVIOUS
<1> QED
  BY <1>4, <1>5, <1>6, FlattenCons, Zenon DEF Text

(* What a client sends is a text.                                            *)
LEMMA ComposedType ==
    ASSUME NEW message, IsMessage(message)
    PROVE  Composed(message) \in Text
<1>1. message.method \in Symbols /\ message.uri \in Text /\ message.body \in Text
  BY Zenon DEF IsMessage
<1>2. <<message.method, " ">> \in Text /\ <<" ", "HTTP/1.1">> \in Text
  <2>1. \A a, b \in Symbols : <<a, b>> \in Text
    BY DEF Text
  <2>2. " " \in Symbols /\ "HTTP/1.1" \in Symbols
    BY WordsAreSymbols
  <2> QED
    BY <1>1, <2>1, <2>2, Zenon
<1>3. HeaderText(message) \in Text /\ Eol \in Text
  BY HeaderTextType, EolText, Zenon
<1> QED
  BY <1>1, <1>2, <1>3, Joined, Zenon DEF Composed

-----------------------------------------------------------------------------
(* A message as clients write it, and what is read of a part of it           *)

(* An end of a line, or a blank line, at position i.                         *)
EolAt(text, i) == text[i] = "CR" /\ text[i + 1] = "LF"
BlankAt(text, i) == EolAt(text, i) /\ EolAt(text, i + 2)

(* Two and four symbols of a sequence.                                       *)
LEMMA TwoOf ==
    ASSUME NEW S, NEW s \in Seq(S), NEW i \in 1..(Len(s) - 1)
    PROVE  SubSeq(s, i, i + 1) = <<s[i], s[i + 1]>>
<1> DEFINE a == SubSeq(s, i, i + 1)
           b == <<s[i], s[i + 1]>>
<1>1. a \in Seq(S) /\ Len(a) = 2 /\ a[1] = s[i] /\ a[2] = s[i + 1]
  <2>1. i \in Nat \ {0} /\ Len(s) \in Nat /\ i + 1 <= Len(s) /\ (i + 1) - i + 1 = 2
    OBVIOUS
  <2>2. a \in Seq(S) /\ Len(a) = (i + 1) - i + 1
    BY <2>1
  <2>3. \A j \in 1..((i + 1) - i + 1) : a[j] = s[i + j - 1]
    BY <2>1
  <2>4. i + 1 - 1 = i /\ i + 2 - 1 = i + 1 /\ 1 \in 1..2 /\ 2 \in 1..2
    BY <2>1
  <2> HIDE DEF a
  <2> QED
    BY <2>1, <2>2, <2>3, <2>4
<1>2. b \in Seq(S) /\ Len(b) = 2 /\ b[1] = s[i] /\ b[2] = s[i + 1]
  OBVIOUS
<1> HIDE DEF a, b
<1>3. \A j \in 1..Len(a) : a[j] = b[j]
  BY <1>1, <1>2
<1>4. a = b
  BY <1>1, <1>2, <1>3, SeqEqual
<1> QED
  BY <1>4 DEF a, b

(* Four symbols of a text, as one part of it.                                *)
LEMMA FourOf ==
    ASSUME NEW S, NEW s \in Seq(S), NEW i \in 1..(Len(s) - 3)
    PROVE  SubSeq(s, i, i + 3) = <<s[i], s[i + 1], s[i + 2], s[i + 3]>>
<1> DEFINE a == SubSeq(s, i, i + 3)
           b == <<s[i], s[i + 1], s[i + 2], s[i + 3]>>
<1>1. a \in Seq(S) /\ Len(a) = 4 /\ a[1] = s[i] /\ a[2] = s[i + 1] /\ a[3] = s[i + 2] /\ a[4] = s[i + 3]
  OBVIOUS
<1>2. b \in Seq(S) /\ Len(b) = 4 /\ b[1] = s[i] /\ b[2] = s[i + 1] /\ b[3] = s[i + 2] /\ b[4] = s[i + 3]
  OBVIOUS
<1> HIDE DEF a, b
<1>3. \A j \in 1..Len(a) : a[j] = b[j]
  BY <1>1, <1>2
<1>4. a = b
  BY <1>1, <1>2, <1>3, SeqEqual
<1> QED
  BY <1>4 DEF a, b

(* Two symbols, one by one.                                                  *)
LEMMA PairJoined ==
    ASSUME NEW S, NEW a \in S, NEW b \in S
    PROVE  <<a>> \o <<b>> = <<a, b>>
<1> DEFINE u == <<a>> \o <<b>>
           v == <<a, b>>
<1>1. u \in Seq(S) /\ Len(u) = 2 /\ u[1] = a /\ u[2] = b
  OBVIOUS
<1>2. v \in Seq(S) /\ Len(v) = 2 /\ v[1] = a /\ v[2] = b
  OBVIOUS
<1> HIDE DEF u, v
<1>3. \A j \in 1..Len(u) : u[j] = v[j]
  BY <1>1, <1>2
<1>4. u = v
  BY <1>1, <1>2, <1>3, SeqEqual
<1> QED
  BY <1>4 DEF u, v

(* Three symbols, one by one.                                                *)
LEMMA TripleJoined ==
    ASSUME NEW S, NEW a \in S, NEW b \in S, NEW c \in S
    PROVE  <<a>> \o (<<b>> \o <<c>>) = <<a, b, c>>
<1> DEFINE u == <<a>> \o (<<b>> \o <<c>>)
           v == <<a, b, c>>
<1>1. u \in Seq(S) /\ Len(u) = 3 /\ u[1] = a /\ u[2] = b /\ u[3] = c
  OBVIOUS
<1>2. v \in Seq(S) /\ Len(v) = 3 /\ v[1] = a /\ v[2] = b /\ v[3] = c
  OBVIOUS
<1> HIDE DEF u, v
<1>3. \A j \in 1..Len(u) : u[j] = v[j]
  BY <1>1, <1>2
<1>4. u = v
  BY <1>1, <1>2, <1>3, SeqEqual
<1> QED
  BY <1>4 DEF u, v

(* A pair of symbols written twice: two ends of lines.                       *)
LEMMA Twice ==
    ASSUME NEW S, NEW a \in S, NEW b \in S
    PROVE  <<a, b>> \o <<a, b>> = <<a, b, a, b>>
<1> DEFINE u == <<a, b>> \o <<a, b>>
           v == <<a, b, a, b>>
<1>1. u \in Seq(S) /\ Len(u) = 4 /\ u[1] = a /\ u[2] = b /\ u[3] = a /\ u[4] = b
  OBVIOUS
<1>2. v \in Seq(S) /\ Len(v) = 4 /\ v[1] = a /\ v[2] = b /\ v[3] = a /\ v[4] = b
  OBVIOUS
<1> HIDE DEF u, v
<1>3. \A j \in 1..Len(u) : u[j] = v[j]
  BY <1>1, <1>2
<1>4. u = v
  BY <1>1, <1>2, <1>3, SeqEqual
<1> QED
  BY <1>4 DEF u, v

(* The symbols of a text are those of its set.                               *)
LEMMA InToSet == \A text \in Text : \A i \in 1..Len(text) : text[i] \in ToSet(text)
<1>1. ASSUME NEW S, NEW s \in Seq(S), NEW i \in 1..Len(s) PROVE s[i] \in ToSet(s)
  BY DEF ToSet
<1> QED
  BY <1>1 DEF Text

(* What a text made of two has where.                                        *)
IsJoined(a, b, text) ==
    /\ Len(text) = Len(a) + Len(b) /\ Len(a) \in Nat /\ Len(b) \in Nat
    /\ \A i \in 1..Len(a) : text[i] = a[i]
    /\ \A i \in 1..Len(b) : text[Len(a) + i] = b[i]

(* Every concatenation is joined position by position.                       *)
LEMMA JoinedAt == \A a, b \in Text : IsJoined(a, b, a \o b)
<1>1. ASSUME NEW S, NEW a \in Seq(S), NEW b \in Seq(S) PROVE IsJoined(a, b, a \o b)
  BY DEF IsJoined
<1> QED
  BY <1>1 DEF Text

(* A symbol that a text does not contain.                                    *)
Lacks(text, symbol) == \A i \in 1..Len(text) : text[i] # symbol

(* What both parts lack, the whole lacks.                                    *)
LEMMA LacksJoined ==
    ASSUME NEW symbol, NEW a \in Text, NEW b \in Text, Lacks(a, symbol), Lacks(b, symbol)
    PROVE  Lacks(a \o b, symbol)
<1> DEFINE text == a \o b
<1>1. IsJoined(a, b, text)
  BY JoinedAt, Zenon
<1> HIDE DEF text
<1>2. \A i \in 1..Len(text) : i \in 1..Len(a) \/ i - Len(a) \in 1..Len(b)
  BY <1>1 DEF IsJoined
<1>3. \A i \in 1..Len(text) : i - Len(a) \in 1..Len(b) => text[Len(a) + (i - Len(a))] = b[i - Len(a)]
  BY <1>1 DEF IsJoined
<1>4. \A i \in 1..Len(text) : Len(a) + (i - Len(a)) = i
  BY <1>1 DEF IsJoined
<1>5. Lacks(text, symbol)
  BY <1>1, <1>2, <1>3, <1>4 DEF IsJoined, Lacks
<1> QED
  BY <1>5 DEF text

(* A text of one symbol lacks all the others.                                *)
LEMMA LacksWord ==
    ASSUME NEW symbol, NEW word, word # symbol
    PROVE  Lacks(<<word>>, symbol)
BY DEF Lacks

(* Searching for an end of line.                                             *)
LEMMA FindEol ==
    ASSUME NEW text \in Text
    PROVE  \/ /\ Find(text, Eol, 1) = 0
              /\ \A i \in 1..(Len(text) - 1) : ~ EolAt(text, i)
           \/ /\ Find(text, Eol, 1) \in 1..(Len(text) - 1)
              /\ EolAt(text, Find(text, Eol, 1))
              /\ \A i \in 1..(Find(text, Eol, 1) - 1) : ~ EolAt(text, i)
<1>1. Places(text, Eol, 1) = 1..(Len(text) - 1) /\ Len(text) \in Nat
  BY EolText, TextLength DEF Places
<1>2. \A i \in 1..(Len(text) - 1) : OccursAt(text, Eol, i) <=> EolAt(text, i)
  <2> SUFFICES ASSUME NEW i \in 1..(Len(text) - 1)
               PROVE  OccursAt(text, Eol, i) <=> EolAt(text, i)
    OBVIOUS
  <2>1. OccursAt(text, Eol, i) <=> SubSeq(text, i, i + 1) = <<"CR", "LF">>
    BY EolText DEF OccursAt, Eol
  <2>2. SubSeq(text, i, i + 1) = <<text[i], text[i + 1]>>
    BY TwoOf DEF Text
  <2>3. <<text[i], text[i + 1]>> = <<"CR", "LF">> <=> text[i] = "CR" /\ text[i + 1] = "LF"
    OBVIOUS
  <2> QED
    BY <2>1, <2>2, <2>3, Zenon DEF EolAt
<1>3. Eol \in Text /\ 1 \in Nat
  BY EolText
<1> QED
  BY <1>1, <1>2, <1>3, FindResult

(* Searching for a blank line.                                               *)
LEMMA FindBlank ==
    ASSUME NEW text \in Text
    PROVE  \/ /\ HeaderEnd(text) = 0
              /\ \A i \in 1..(Len(text) - 3) : ~ BlankAt(text, i)
           \/ /\ HeaderEnd(text) \in 1..(Len(text) - 3)
              /\ BlankAt(text, HeaderEnd(text))
              /\ \A i \in 1..(HeaderEnd(text) - 1) : ~ BlankAt(text, i)
<1> DEFINE two == Eol \o Eol
<1>1. two = <<"CR", "LF", "CR", "LF">> /\ Len(two) = 4
  <2>1. two = <<"CR", "LF", "CR", "LF">>
    <3>1. "CR" \in Symbols /\ "LF" \in Symbols
      BY WordsAreSymbols
    <3>2. <<"CR", "LF">> \o <<"CR", "LF">> = <<"CR", "LF", "CR", "LF">>
      BY <3>1, Twice
    <3> QED
      BY <3>2, Zenon DEF Eol
  <2> QED
    BY <2>1
<1>2. Places(text, two, 1) = 1..(Len(text) - 3) /\ Len(text) \in Nat
  BY <1>1, TextLength DEF Places
<1>3. \A i \in 1..(Len(text) - 3) : OccursAt(text, two, i) <=> BlankAt(text, i)
  <2> SUFFICES ASSUME NEW i \in 1..(Len(text) - 3)
               PROVE  OccursAt(text, two, i) <=> BlankAt(text, i)
    OBVIOUS
  <2>1. OccursAt(text, two, i) <=> SubSeq(text, i, i + 3) = <<"CR", "LF", "CR", "LF">>
    BY <1>1 DEF OccursAt
  <2>2. SubSeq(text, i, i + 3) = <<text[i], text[i + 1], text[i + 2], text[i + 3]>>
    BY FourOf DEF Text
  <2>3. <<text[i], text[i + 1], text[i + 2], text[i + 3]>> = <<"CR", "LF", "CR", "LF">>
        <=> text[i] = "CR" /\ text[i + 1] = "LF" /\ text[i + 2] = "CR" /\ text[i + 3] = "LF"
    OBVIOUS
  <2>4. i + 2 + 1 = i + 3
    OBVIOUS
  <2> QED
    BY <2>1, <2>2, <2>3, <2>4, Zenon DEF EolAt, BlankAt
<1>4. two \in Text /\ 1 \in Nat
  BY EolText
<1>5. HeaderEnd(text) = Find(text, two, 1)
  BY Zenon DEF HeaderEnd
<1> HIDE DEF two
<1> QED
  BY <1>2, <1>3, <1>4, <1>5, FindResult

(* The parts of the first and of the second of two texts.                    *)
LEMMA PartOfFirst ==
    ASSUME NEW S, NEW a \in Seq(S), NEW b \in Seq(S), NEW i \in Nat \ {0}, NEW j \in Nat, j <= Len(a)
    PROVE  SubSeq(a \o b, i, j) = SubSeq(a, i, j)
<1> DEFINE t == a \o b
           u == SubSeq(t, i, j)
           v == SubSeq(a, i, j)
<1>1. /\ t \in Seq(S) /\ Len(t) = Len(a) + Len(b)
      /\ \A k \in 1..Len(a) : t[k] = a[k]
      /\ Len(a) \in Nat /\ Len(b) \in Nat
  OBVIOUS
<1> HIDE DEF t
<1>2. CASE i <= j
  <2>1. u \in Seq(S) /\ Len(u) = j - i + 1 /\ \A k \in 1..(j - i + 1) : u[k] = t[i + k - 1]
    BY <1>1, <1>2
  <2>2. v \in Seq(S) /\ Len(v) = j - i + 1 /\ \A k \in 1..(j - i + 1) : v[k] = a[i + k - 1]
    BY <1>1, <1>2
  <2>3. \A k \in 1..(j - i + 1) : t[i + k - 1] = a[i + k - 1]
    <3>1. \A k \in 1..(j - i + 1) : i + k - 1 \in 1..Len(a)
      BY <1>1, <1>2
    <3> QED
      BY <1>1, <3>1, Zenon
  <2> HIDE DEF u, v
  <2>4. u = v
    BY <2>1, <2>2, <2>3, SeqEqual
  <2> QED
    BY <2>4 DEF u, v, t
<1>3. CASE ~ (i <= j)
  <2>1. u = <<>>
    BY <1>1, <1>3
  <2>2. v = <<>>
    BY <1>1, <1>3
  <2> QED
    BY <2>1, <2>2 DEF t
<1> QED
  BY <1>2, <1>3

(* A part of what was appended.                                              *)
LEMMA PartOfSecond ==
    ASSUME NEW S, NEW a \in Seq(S), NEW b \in Seq(S), NEW i \in Nat \ {0}, NEW j \in Nat, j <= Len(b)
    PROVE  SubSeq(a \o b, Len(a) + i, Len(a) + j) = SubSeq(b, i, j)
<1> DEFINE t == a \o b
           u == SubSeq(t, Len(a) + i, Len(a) + j)
           v == SubSeq(b, i, j)
<1>1. /\ t \in Seq(S) /\ Len(t) = Len(a) + Len(b)
      /\ \A k \in 1..Len(b) : t[Len(a) + k] = b[k]
      /\ Len(a) \in Nat /\ Len(b) \in Nat
  OBVIOUS
<1> HIDE DEF t
<1>2. CASE i <= j
  <2>1. u \in Seq(S) /\ Len(u) = j - i + 1 /\ \A k \in 1..(j - i + 1) : u[k] = t[Len(a) + i + k - 1]
    BY <1>1, <1>2
  <2>2. v \in Seq(S) /\ Len(v) = j - i + 1 /\ \A k \in 1..(j - i + 1) : v[k] = b[i + k - 1]
    BY <1>1, <1>2
  <2>3. \A k \in 1..(j - i + 1) : t[Len(a) + i + k - 1] = b[i + k - 1]
    <3>1. \A k \in 1..(j - i + 1) : i + k - 1 \in 1..Len(b) /\ Len(a) + (i + k - 1) = Len(a) + i + k - 1
      BY <1>1, <1>2
    <3> QED
      BY <1>1, <3>1, Zenon
  <2> HIDE DEF u, v
  <2>4. u = v
    BY <2>1, <2>2, <2>3, SeqEqual
  <2> QED
    BY <2>4 DEF u, v, t
<1>3. CASE ~ (i <= j)
  <2>1. u = <<>>
    BY <1>1, <1>3
  <2>2. v = <<>>
    BY <1>1, <1>3
  <2> QED
    BY <2>1, <2>2 DEF t
<1> QED
  BY <1>2, <1>3

(* A part of the beginning of a sequence is a part of the sequence.          *)
LEMMA PartOfPart ==
    ASSUME NEW S, NEW s \in Seq(S), NEW n \in 0..Len(s), NEW i \in Nat \ {0}, NEW j \in Nat, j <= n
    PROVE  SubSeq(SubSeq(s, 1, n), i, j) = SubSeq(s, i, j)
<1> DEFINE a == SubSeq(s, 1, n)
           b == SubSeq(s, n + 1, Len(s))
<1>1. a \in Seq(S) /\ Len(a) = n /\ b \in Seq(S) /\ s = a \o b
  BY CutAt, Zenon
<1> HIDE DEF a, b
<1>2. SubSeq(a \o b, i, j) = SubSeq(a, i, j)
  BY <1>1, PartOfFirst
<1> QED
  BY <1>1, <1>2 DEF a

(* The same for texts.                                                       *)
LEMMA TextParts ==
    /\ \A a, b \in Text, i \in Nat \ {0}, j \in Nat :
          /\ j <= Len(a) => SubSeq(a \o b, i, j) = SubSeq(a, i, j)
          /\ j <= Len(b) => SubSeq(a \o b, Len(a) + i, Len(a) + j) = SubSeq(b, i, j)
    /\ \A s \in Text, n \in Nat, i \in Nat \ {0}, j \in Nat :
          n <= Len(s) /\ j <= n => SubSeq(SubSeq(s, 1, n), i, j) = SubSeq(s, i, j)
<1>1. ASSUME NEW a \in Text, NEW b \in Text, NEW i \in Nat \ {0}, NEW j \in Nat
      PROVE  /\ j <= Len(a) => SubSeq(a \o b, i, j) = SubSeq(a, i, j)
             /\ j <= Len(b) => SubSeq(a \o b, Len(a) + i, Len(a) + j) = SubSeq(b, i, j)
  <2>1. j <= Len(a) => SubSeq(a \o b, i, j) = SubSeq(a, i, j)
    BY PartOfFirst DEF Text
  <2>2. j <= Len(b) => SubSeq(a \o b, Len(a) + i, Len(a) + j) = SubSeq(b, i, j)
    BY PartOfSecond DEF Text
  <2> QED
    BY <2>1, <2>2
<1>2. ASSUME NEW s \in Text, NEW n \in Nat, NEW i \in Nat \ {0}, NEW j \in Nat, n <= Len(s), j <= n
      PROVE  SubSeq(SubSeq(s, 1, n), i, j) = SubSeq(s, i, j)
  <2>1. n \in 0..Len(s)
    BY <1>2, TextLength
  <2> QED
    BY <1>2, <2>1, PartOfPart DEF Text
<1> QED
  BY <1>1, <1>2

(* Splitting takes what comes up to the first delimiter.                     *)
LEMMA SplitFirst ==
    ASSUME NEW delimiter \in Symbols, NEW item \in Text, Lacks(item, delimiter),
           NEW others \in Text
    PROVE  splitString(item \o (<<delimiter>> \o others), delimiter)
               = <<item>> \o splitString(others, delimiter)
<1> DEFINE more == <<delimiter>> \o others
           text == item \o more
           pos == Find(text, <<delimiter>>, 1)
<1>1. more \in Text /\ more[1] = delimiter /\ Len(more) = Len(others) + 1 /\ Len(others) \in Nat
      /\ SubSeq(more, 2, Len(more)) = others
  <2>1. more \in Text /\ Len(more) = Len(others) + 1 /\ Len(others) \in Nat /\ more[1] = delimiter
    BY Prepended DEF Text
  <2>2. SubSeq(more, Len(<<delimiter>>) + 1, Len(more)) = others
    BY TextFacts, Zenon
  <2> QED
    BY <2>1, <2>2
<1> HIDE DEF more
<1>2. text \in Text /\ IsJoined(item, more, text)
  BY <1>1, TextFacts, JoinedAt, Zenon
<1>3. SubSeq(text, 1, Len(item)) = item
  BY <1>1, TextFacts, Zenon
<1>4. SubSeq(text, Len(item) + 2, Len(text)) = others
  <2>1. SubSeq(text, Len(item) + 2, Len(item) + Len(more)) = SubSeq(more, 2, Len(more))
    <3>1. Len(more) \in Nat /\ 2 \in Nat \ {0} /\ Len(more) <= Len(more)
      BY <1>1
    <3> QED
      BY <1>1, <3>1, TextParts
  <2>2. Len(text) = Len(item) + Len(more)
    BY <1>1, TextFacts
  <2> QED
    BY <1>1, <2>1, <2>2, Zenon
<1> HIDE DEF text
<1>5. /\ Len(item) \in Nat /\ Len(text) \in Nat /\ Len(item) + 1 <= Len(text) /\ text # <<>>
      /\ text[Len(item) + 1] = delimiter /\ \A i \in 1..Len(item) : text[i] # delimiter
  BY <1>1, <1>2 DEF IsJoined, Lacks
<1>6. \/ pos = 0 /\ \A i \in 1..Len(text) : text[i] # delimiter
      \/ pos \in 1..Len(text) /\ text[pos] = delimiter /\ \A i \in 1..(pos - 1) : text[i] # delimiter
  BY <1>2, FindSymbol
<1> HIDE DEF pos
<1>7. pos = Len(item) + 1
  BY <1>5, <1>6
<1>8. Split(delimiter)[text] = SplitOf(Split(delimiter), text, delimiter)
  BY <1>2, SplitEquation, Zenon
<1>9. pos # 0 /\ pos - 1 = Len(item) /\ pos + 1 = Len(item) + 2
  BY <1>5, <1>7
<1>10. SplitOf(Split(delimiter), text, delimiter)
           = <<SubSeq(text, 1, pos - 1)>> \o Split(delimiter)[SubSeq(text, pos + 1, Len(text))]
  BY <1>5, <1>9 DEF SplitOf, pos
<1>11. splitString(text, delimiter) = <<item>> \o splitString(others, delimiter)
  BY <1>3, <1>4, <1>8, <1>9, <1>10, Zenon DEF splitString
<1> QED
  BY <1>11 DEF text, more

(* Splitting a text without delimiters.                                      *)
LEMMA SplitWhole ==
    ASSUME NEW delimiter \in Symbols, NEW item \in Text, Lacks(item, delimiter)
    PROVE  splitString(item, delimiter) = IF item = <<>> THEN <<>> ELSE <<item>>
<1>1. Find(item, <<delimiter>>, 1) = 0
  BY FindSymbol DEF Lacks
<1>2. Split(delimiter)[item] = SplitOf(Split(delimiter), item, delimiter)
  BY SplitEquation, Zenon
<1> QED
  BY <1>1, <1>2, Zenon DEF SplitOf, splitString

(* A line of three parts, of which the first and the last are words.         *)
ThreeParts(first, middle, last) == <<first, " ">> \o middle \o <<" ", last>>

(* splitString finds the three parts of such a line, whatever is in the      *)
(* middle.                                                                   *)
LEMMA PartsOfLine ==
    ASSUME NEW first \in Symbols, NEW middle \in Text, NEW last \in Symbols,
           first # " ", last # " ", Lacks(middle, " ")
    PROVE  /\ ThreeParts(first, middle, last) \in Text
           /\ splitString(ThreeParts(first, middle, last), " ") = <<<<first>>, middle, <<last>>>>
           /\ \A symbol : symbol # " " /\ symbol # first /\ symbol # last /\ Lacks(middle, symbol)
                 => Lacks(ThreeParts(first, middle, last), symbol)
<1> DEFINE a == <<first>>
           blank == <<" ">>
           c == <<last>>
           line == a \o (blank \o (middle \o (blank \o c)))
<1>1. " " \in Symbols
  BY WordsAreSymbols
<1>2. a \in Text /\ blank \in Text /\ c \in Text
  BY <1>1, TextFacts, Zenon
<1>3. Lacks(a, " ") /\ Lacks(c, " ") /\ c # <<>>
  BY LacksWord
<1>4. <<first, " ">> = a \o blank /\ <<" ", last>> = blank \o c
  BY <1>1, PairJoined
<1>5. blank \o c \in Text /\ middle \o (blank \o c) \in Text
      /\ blank \o (middle \o (blank \o c)) \in Text /\ line \in Text /\ a \o blank \in Text
      /\ blank \o middle \in Text
  BY <1>2, Joined, Zenon
<1>6. ASSUME NEW symbol, symbol # " ", symbol # first, symbol # last, Lacks(middle, symbol)
      PROVE  Lacks(line, symbol)
  <2>1. Lacks(a, symbol) /\ Lacks(blank, symbol) /\ Lacks(c, symbol)
    <3>1. first # symbol /\ " " # symbol /\ last # symbol
      BY <1>6
    <3> QED
      BY <3>1, LacksWord, Zenon
  <2> HIDE DEF a, blank, c
  <2>2. Lacks(blank \o c, symbol)
    BY <1>2, <2>1, LacksJoined, Zenon
  <2>3. Lacks(middle \o (blank \o c), symbol)
    BY <1>5, <1>6, <2>2, LacksJoined, Zenon
  <2>4. Lacks(blank \o (middle \o (blank \o c)), symbol)
    BY <1>2, <1>5, <2>1, <2>3, LacksJoined, Zenon
  <2> QED
    BY <1>2, <1>5, <2>1, <2>4, LacksJoined, Zenon
<1> HIDE DEF a, blank, c
<1>7. ThreeParts(first, middle, last) = line
  <2>1. Assoc(a \o blank, middle, blank \o c) /\ Assoc(a, blank, middle \o (blank \o c))
    BY <1>2, <1>5, TextAssociates, Zenon
  <2>2. ThreeParts(first, middle, last) = ((a \o blank) \o middle) \o (blank \o c)
    BY <1>4, Zenon DEF ThreeParts
  <2>3. ((a \o blank) \o middle) \o (blank \o c) = (a \o blank) \o (middle \o (blank \o c))
    BY <2>1, Zenon DEF Assoc
  <2>4. (a \o blank) \o (middle \o (blank \o c)) = line
    BY <2>1, Zenon DEF Assoc
  <2> QED
    BY <2>2, <2>3, <2>4, Zenon
<1>8. splitString(line, " ") = <<a>> \o (<<middle>> \o <<c>>)
  <2>1. splitString(line, " ") = <<a>> \o splitString(middle \o (blank \o c), " ")
    BY <1>1, <1>2, <1>3, <1>5, SplitFirst, Zenon DEF blank
  <2>2. splitString(middle \o (blank \o c), " ") = <<middle>> \o splitString(c, " ")
    BY <1>1, <1>2, <1>3, <1>5, SplitFirst, Zenon DEF blank
  <2>3. splitString(c, " ") = <<c>>
    BY <1>1, <1>2, <1>3, SplitWhole, Zenon
  <2> QED
    BY <2>1, <2>2, <2>3, Zenon
<1>9. <<a>> \o (<<middle>> \o <<c>>) = <<a, middle, c>>
  BY <1>2, TripleJoined
<1> QED
  BY <1>5, <1>6, <1>7, <1>8, <1>9, Zenon DEF a, c

(* The first line of a message, and its parts.                               *)
Line(message) == <<message.method, " ">> \o message.uri \o <<" ", "HTTP/1.1">>

(* handleRequestData finds method and URI in the first line of a message.    *)
LEMMA LineParts ==
    ASSUME NEW message, IsMessage(message)
    PROVE  /\ Line(message) \in Text /\ Lacks(Line(message), "CR")
           /\ splitString(Line(message), " ") = <<<<message.method>>, message.uri, <<"HTTP/1.1">>>>
<1> DEFINE method == message.method
           uri == message.uri
<1>1. method \in Symbols /\ method # " " /\ method # "CR" /\ uri \in Text
  BY Zenon DEF IsMessage
<1>2. Lacks(uri, "CR") /\ Lacks(uri, " ")
  <2>1. {" ", "CR", "LF"} \cap ToSet(uri) = {} /\ uri \in Text
    BY Zenon DEF IsMessage
  <2> HIDE DEF uri
  <2>2. \A i \in 1..Len(uri) : uri[i] \in ToSet(uri)
    BY <2>1, InToSet
  <2> QED
    BY <2>1, <2>2 DEF Lacks
<1>3. "HTTP/1.1" \in Symbols /\ "HTTP/1.1" # " " /\ "CR" # " " /\ "CR" # "HTTP/1.1"
  BY WordsAreSymbols
<1>4. Line(message) = ThreeParts(method, uri, "HTTP/1.1")
  BY Zenon DEF Line, ThreeParts
<1> HIDE DEF method, uri
<1>5. /\ ThreeParts(method, uri, "HTTP/1.1") \in Text
      /\ splitString(ThreeParts(method, uri, "HTTP/1.1"), " ") = <<<<method>>, uri, <<"HTTP/1.1">>>>
      /\ Lacks(ThreeParts(method, uri, "HTTP/1.1"), "CR")
  BY <1>1, <1>2, <1>3, PartsOfLine, Zenon
<1> QED
  BY <1>4, <1>5, Zenon DEF method, uri

(* Lines, each with something on it: an end of line is followed by none.     *)
IsBlock(text) ==
    /\ text = <<>> \/ (Len(text) >= 2 /\ text[1] # "CR" /\ EolAt(text, Len(text) - 1))
    /\ \A i \in 1..(Len(text) - 1) : text[i] = "LF" => text[i + 1] # "CR"

(* A line in front of a block gives a block: no blank line comes in between. *)
LEMMA LineFirst ==
    ASSUME NEW line \in Text, line # <<>>, Lacks(line, "CR"), Lacks(line, "LF"),
           NEW others \in Text, IsBlock(others)
    PROVE  IsBlock((line \o Eol) \o others)
<1> DEFINE ended == line \o Eol
           text == ended \o others
<1>1. ended \in Text /\ IsJoined(line, Eol, ended) /\ Eol \in Text
  BY EolText, JoinedAt, TextFacts, Zenon
<1>2. text \in Text /\ IsJoined(ended, others, text)
  BY <1>1, JoinedAt, TextFacts, Zenon
<1> HIDE DEF text, ended
<1> DEFINE n == Len(line)
           m == Len(others)
<1>3. /\ n \in Nat \ {0} /\ m \in Nat /\ Len(text) = n + 2 + m
      /\ \A i \in 1..n : text[i] = line[i]
      /\ text[n + 1] = "CR" /\ text[n + 2] = "LF"
      /\ \A i \in 1..m : text[n + 2 + i] = others[i]
  <2>1. n \in Nat \ {0} /\ m \in Nat
    BY TextFacts
  <2>2. /\ Len(ended) = n + 2 /\ \A i \in 1..n : ended[i] = line[i]
        /\ ended[n + 1] = "CR" /\ ended[n + 2] = "LF"
    BY <1>1, <2>1, EolText DEF IsJoined
  <2> QED
    BY <1>2, <2>1, <2>2 DEF IsJoined
<1>4. \A i \in 1..n : line[i] # "CR" /\ line[i] # "LF"
  BY DEF Lacks
<1>5. /\ m = 0 \/ (m >= 2 /\ others[1] # "CR" /\ others[m - 1] = "CR" /\ others[m] = "LF")
      /\ \A i \in 1..(m - 1) : others[i] = "LF" => others[i + 1] # "CR"
  BY <1>3, TextFacts DEF IsBlock, EolAt
<1> HIDE DEF n, m
<1>6. Len(text) >= 2 /\ text[1] # "CR"
  BY <1>3, <1>4
<1>7. EolAt(text, Len(text) - 1)
  <2>1. CASE m = 0
    <3>1. Len(text) - 1 = n + 1 /\ Len(text) - 1 + 1 = n + 2
      BY <1>3, <2>1
    <3> QED
      BY <1>3, <3>1, Zenon DEF EolAt
  <2>2. CASE m # 0
    <3>1. m - 1 \in 1..m /\ m \in 1..m /\ Len(text) - 1 = n + 2 + (m - 1) /\ Len(text) - 1 + 1 = n + 2 + m
      BY <1>3, <1>5, <2>2
    <3>2. text[n + 2 + (m - 1)] = others[m - 1] /\ text[n + 2 + m] = others[m]
      BY <1>3, <3>1, Zenon
    <3> QED
      BY <1>5, <2>2, <3>1, <3>2, Zenon DEF EolAt
  <2> QED
    BY <2>1, <2>2
<1>8. ASSUME NEW i \in 1..(Len(text) - 1), text[i] = "LF" PROVE text[i + 1] # "CR"
  <2>1. CASE i <= n + 1
    <3>1. i \in 1..n \/ i = n + 1
      BY <1>3, <2>1
    <3>2. i \notin 1..n
      BY <1>3, <1>4, <1>8
    <3>3. text[n + 1] # "LF"
      BY <1>3
    <3> QED
      BY <1>8, <3>1, <3>2, <3>3, Zenon
  <2>2. CASE i = n + 2
    <3>1. m # 0 /\ 1 \in 1..m /\ i + 1 = n + 2 + 1
      BY <1>3, <2>2
    <3>2. text[n + 2 + 1] = others[1]
      BY <1>3, <3>1, Zenon
    <3> QED
      BY <1>5, <3>1, <3>2, Zenon
  <2>3. CASE i > n + 2
    <3> DEFINE j == i - (n + 2)
    <3>1. j \in 1..(m - 1) /\ j \in 1..m /\ j + 1 \in 1..m /\ i = n + 2 + j /\ i + 1 = n + 2 + (j + 1)
      BY <1>3, <2>3
    <3>2. text[n + 2 + j] = others[j] /\ text[n + 2 + (j + 1)] = others[j + 1]
      BY <1>3, <3>1, Zenon
    <3>3. others[j] = "LF"
      BY <1>8, <3>1, <3>2, Zenon
    <3> QED
      BY <1>5, <3>1, <3>2, <3>3, Zenon
  <2> QED
    BY <1>3, <2>1, <2>2, <2>3
<1>9. IsBlock(text)
  BY <1>6, <1>7, <1>8 DEF IsBlock
<1> QED
  BY <1>9 DEF text, ended

(* The headers of a message are such lines.                                  *)
IsLine(line) == line \in Text /\ line # <<>> /\ Lacks(line, "CR") /\ Lacks(line, "LF")

(* Sequences of n lines, and the lines with their ends.                      *)
LinesOf(n) == {lines \in Seq(Text) : Len(lines) = n /\ \A i \in 1..n : IsLine(lines[i])}
Ended(lines) == [i \in DOMAIN lines |-> lines[i] \o Eol]

(* Lines with their ends, one after another.                                 *)
LEMMA EndedCons ==
    ASSUME NEW lines \in Seq(Text), lines # <<>>
    PROVE  Ended(lines) = <<Head(lines) \o Eol>> \o Ended(Tail(lines)) /\ Ended(Tail(lines)) \in Seq(Text)
<1>1. \A i \in 1..Len(lines) : lines[i] \o Eol \in Text
  <2>1. \A i \in 1..Len(lines) : lines[i] \in Text
    OBVIOUS
  <2> QED
    BY <2>1, EolText, Joined, Zenon
<1> DEFINE t == Tail(lines)
           n == Len(t)
<1>2. /\ t \in Seq(Text) /\ n \in Nat /\ Len(lines) = n + 1 /\ Head(lines) = lines[1]
      /\ \A i \in 1..n : t[i] = lines[i + 1]
  OBVIOUS
<1> DEFINE a == Ended(lines)
           b == Ended(t)
           h == Head(lines) \o Eol
           c == <<h>> \o b
<1>3. a \in Seq(Text) /\ Len(a) = n + 1 /\ \A i \in 1..(n + 1) : a[i] = lines[i] \o Eol
  BY <1>1, <1>2 DEF Ended
<1> HIDE DEF t
<1>4. b \in Seq(Text) /\ Len(b) = n /\ \A i \in 1..n : b[i] = t[i] \o Eol
  <2>1. \A i \in 1..n : t[i] \o Eol \in Text
    <3>1. \A i \in 1..n : t[i] \in Text
      BY <1>2
    <3> QED
      BY <3>1, EolText, Joined, Zenon
  <2>2. DOMAIN t = 1..n
    BY <1>2
  <2>3. b = [i \in 1..n |-> t[i] \o Eol]
    BY <2>2, Zenon DEF Ended
  <2>4. b \in [1..n -> Text]
    BY <2>1, <2>3
  <2> HIDE DEF n
  <2>5. b \in Seq(Text) /\ Len(b) = n
    BY <1>2, <2>4
  <2> QED
    BY <2>3, <2>5
<1>5. h \in Text /\ h = lines[1] \o Eol
  BY <1>1, <1>2
<1> HIDE DEF a, b, h
<1>6. c \in Seq(Text) /\ Len(c) = n + 1 /\ c[1] = h /\ \A i \in 1..n : c[i + 1] = b[i]
  BY <1>4, <1>5
<1> HIDE DEF c
<1>7. \A i \in 1..(n + 1) : a[i] = c[i]
  <2>1. a[1] = c[1]
    BY <1>2, <1>3, <1>5, <1>6
  <2>2. ASSUME NEW i \in 1..n PROVE a[i + 1] = c[i + 1]
    <3>1. i + 1 \in 1..(n + 1)
      BY <1>2
    <3>2. a[i + 1] = lines[i + 1] \o Eol
      BY <1>3, <3>1, Zenon
    <3>3. c[i + 1] = t[i] \o Eol
      BY <1>4, <1>6, Zenon
    <3>4. t[i] = lines[i + 1]
      BY <1>2
    <3> QED
      BY <3>2, <3>3, <3>4, Zenon
  <2>3. \A i \in 1..(n + 1) : i = 1 \/ (i - 1 \in 1..n /\ i = (i - 1) + 1)
    BY <1>2
  <2> HIDE DEF n
  <2> QED
    BY <2>1, <2>2, <2>3
<1>8. a = c
  BY <1>3, <1>6, <1>7, SeqEqual
<1> QED
  BY <1>4, <1>8 DEF a, b, c, h, t

(* Any number of lines makes a block.                                        *)
LEMMA BlockOfLines ==
    \A n \in Nat : \A lines \in LinesOf(n) : FlattenSeq(Ended(lines)) \in Text /\ IsBlock(FlattenSeq(Ended(lines)))
<1> DEFINE Good == {n \in Nat : \A lines \in LinesOf(n) :
                       FlattenSeq(Ended(lines)) \in Text /\ IsBlock(FlattenSeq(Ended(lines)))}
<1>1. ASSUME NEW n \in Nat, \A m \in Nat : m < n => m \in Good PROVE n \in Good
  <2>1. ASSUME NEW lines \in LinesOf(n)
        PROVE  FlattenSeq(Ended(lines)) \in Text /\ IsBlock(FlattenSeq(Ended(lines)))
    <3>1. lines \in Seq(Text) /\ Len(lines) = n /\ \A i \in 1..n : IsLine(lines[i])
      BY DEF LinesOf
    <3>2. CASE lines = <<>>
      <4>1. Ended(lines) = <<>>
        BY <3>2 DEF Ended
      <4> QED
        BY <4>1, FlattenEmpty, TextFacts DEF IsBlock
    <3>3. CASE lines # <<>>
      <4> DEFINE line == Head(lines)
                 others == FlattenSeq(Ended(Tail(lines)))
      <4>1. n - 1 \in Nat /\ n - 1 < n /\ Tail(lines) \in LinesOf(n - 1) /\ IsLine(line)
        <5> DEFINE t == Tail(lines)
        <5>1. /\ n \in Nat \ {0} /\ t \in Seq(Text) /\ Len(t) = n - 1 /\ line = lines[1]
              /\ \A i \in 1..(n - 1) : t[i] = lines[i + 1]
          BY <3>1, <3>3
        <5> HIDE DEF t, line
        <5>2. \A i \in 1..(n - 1) : i + 1 \in 1..n
          BY <5>1
        <5>3. \A i \in 1..(n - 1) : IsLine(t[i])
          BY <3>1, <5>1, <5>2, Zenon
        <5>4. 1 \in 1..n /\ n - 1 \in Nat /\ n - 1 < n
          BY <5>1
        <5>5. t \in LinesOf(n - 1)
          BY <5>1, <5>3 DEF LinesOf
        <5> QED
          BY <3>1, <5>1, <5>4, <5>5, Zenon DEF t
      <4>2. others \in Text /\ IsBlock(others)
        BY <1>1, <4>1
      <4>3. Ended(lines) = <<line \o Eol>> \o Ended(Tail(lines)) /\ Ended(Tail(lines)) \in Seq(Text)
        BY <3>1, <3>3, EndedCons
      <4>4. line \o Eol \in Text
        BY <4>1, EolText, Joined, Zenon DEF IsLine
      <4>5. FlattenSeq(<<line \o Eol>> \o Ended(Tail(lines))) = (line \o Eol) \o others
        BY <4>3, <4>4, FlattenCons DEF Text
      <4> HIDE DEF line, others
      <4>6. IsBlock((line \o Eol) \o others)
        BY <4>1, <4>2, LineFirst, Zenon DEF IsLine
      <4> QED
        BY <4>2, <4>3, <4>4, <4>5, <4>6, Joined
    <3> QED
      BY <3>2, <3>3
  <2> QED
    BY <2>1
<1> HIDE DEF Good
<1>2. Nat \subseteq Good
  BY <1>1, StrongInduction
<1> QED
  BY <1>2 DEF Good

(* The headers of a message make a block.                                    *)
LEMMA HeadersAreLines ==
    ASSUME NEW message, IsMessage(message)
    PROVE  /\ HeaderText(message) \in Text /\ IsBlock(HeaderText(message))
           /\ message.headers # <<>> => HeaderText(message) # <<>>
<1> DEFINE lines == message.headers
<1>1. lines \in Seq(Text) /\ \A i \in DOMAIN lines : lines[i] # <<>> /\ {"CR", "LF"} \cap ToSet(lines[i]) = {}
  BY Zenon DEF IsMessage
<1>2. HeaderText(message) = FlattenSeq(Ended(lines))
  BY Zenon DEF HeaderText, Ended
<1> HIDE DEF lines
<1>3. \A i \in 1..Len(lines) : IsLine(lines[i])
  BY <1>1, InToSet DEF IsLine, Lacks
<1>4. Len(lines) \in Nat /\ lines \in LinesOf(Len(lines))
  BY <1>1, <1>3 DEF LinesOf
<1>5. FlattenSeq(Ended(lines)) \in Text /\ IsBlock(FlattenSeq(Ended(lines)))
  BY <1>4, BlockOfLines
<1>6. ASSUME lines # <<>> PROVE FlattenSeq(Ended(lines)) # <<>>
  <2> DEFINE line == Head(lines)
             others == FlattenSeq(Ended(Tail(lines)))
  <2>1. Ended(lines) = <<line \o Eol>> \o Ended(Tail(lines)) /\ Ended(Tail(lines)) \in Seq(Text)
    BY <1>1, <1>6, EndedCons
  <2>2. line \in Text /\ line \o Eol \in Text
    BY <1>1, <1>6, EolText, Joined
  <2>3. FlattenSeq(<<line \o Eol>> \o Ended(Tail(lines))) = (line \o Eol) \o others /\ others \in Text
    BY <2>1, <2>2, FlattenCons DEF Text
  <2> HIDE DEF line, others
  <2>4. Len((line \o Eol) \o others) = Len(line) + 2 + Len(others) /\ Len(line) \in Nat /\ Len(others) \in Nat
    <3>1. Len(line \o Eol) = Len(line) + Len(Eol) /\ Len(line) \in Nat /\ Len(Eol) = 2
      BY <2>2, EolText, TextFacts
    <3>2. Len((line \o Eol) \o others) = Len(line \o Eol) + Len(others) /\ Len(others) \in Nat
      BY <2>2, <2>3, TextFacts
    <3> QED
      BY <3>1, <3>2
  <2>5. Len((line \o Eol) \o others) # 0
    BY <2>4
  <2> QED
    BY <2>1, <2>2, <2>3, <2>5, TextFacts
<1> QED
  BY <1>2, <1>5, <1>6 DEF lines

(* The two symbols of the end of a line.                                     *)
LEMMA EolWhole == Eol[1] = "CR" /\ Eol[2] = "LF" /\ Len(Eol) = 2
BY EolText

(* What two texts with an end of line between them have where.               *)
LEMMA EolBetween ==
    ASSUME NEW a \in Text, NEW b \in Text
    PROVE  /\ a \o (Eol \o b) \in Text /\ Eol \o b \in Text
           /\ Len(a \o (Eol \o b)) = Len(a) + 2 + Len(b) /\ Len(a) \in Nat /\ Len(b) \in Nat
           /\ \A i \in 1..Len(a) : (a \o (Eol \o b))[i] = a[i]
           /\ EolAt(a \o (Eol \o b), Len(a) + 1)
           /\ \A j \in Nat : j <= Len(b) =>
                 SubSeq(a \o (Eol \o b), Len(a) + 3, Len(a) + 2 + j) = SubSeq(b, 1, j)
<1> DEFINE more == Eol \o b
           text == a \o more
<1>1. more \in Text /\ IsJoined(Eol, b, more) /\ Eol \in Text
  BY EolText, JoinedAt, TextFacts, Zenon
<1>2. text \in Text /\ IsJoined(a, more, text)
  BY <1>1, JoinedAt, TextFacts, Zenon
<1>3. \A j \in Nat : j <= Len(b) => SubSeq(more, 3, 2 + j) = SubSeq(b, 1, j)
  <2>1. \A j \in Nat : j <= Len(b) => SubSeq(more, Len(Eol) + 1, Len(Eol) + j) = SubSeq(b, 1, j)
    BY <1>1, TextParts
  <2> HIDE DEF more
  <2> QED
    BY <2>1, EolWhole
<1>4. \A j \in Nat : j <= Len(b) =>
         SubSeq(text, Len(a) + 3, Len(a) + 2 + j) = SubSeq(b, 1, j)
  <2>1. \A k \in Nat : k <= Len(more) => SubSeq(text, Len(a) + 3, Len(a) + k) = SubSeq(more, 3, k)
    BY <1>1, TextParts
  <2> HIDE DEF text, more
  <2>2. ASSUME NEW j \in Nat, j <= Len(b)
        PROVE  SubSeq(text, Len(a) + 3, Len(a) + 2 + j) = SubSeq(b, 1, j)
    <3>1. /\ 2 + j \in Nat /\ 2 + j <= Len(more) /\ Len(a) + (2 + j) = Len(a) + 2 + j
      BY <1>1, <1>2, <2>2, EolWhole DEF IsJoined
    <3>2. SubSeq(text, Len(a) + 3, Len(a) + (2 + j)) = SubSeq(more, 3, 2 + j)
      BY <2>1, <3>1, Zenon
    <3> QED
      BY <1>3, <2>2, <3>1, <3>2, Zenon
  <2> QED
    BY <2>2, Zenon
<1> HIDE DEF text, more
<1>5. /\ Len(text) = Len(a) + 2 + Len(b) /\ Len(a) \in Nat /\ Len(b) \in Nat
      /\ \A i \in 1..Len(a) : text[i] = a[i]
      /\ more[1] = "CR" /\ more[2] = "LF" /\ Len(more) = 2 + Len(b)
  BY <1>1, <1>2, EolWhole DEF IsJoined
<1>6. EolAt(text, Len(a) + 1)
  <2>1. 1 \in 1..Len(more) /\ 2 \in 1..Len(more) /\ Len(a) + 1 + 1 = Len(a) + 2
    BY <1>5
  <2>2. text[Len(a) + 1] = more[1] /\ text[Len(a) + 2] = more[2]
    BY <1>2, <2>1, Zenon DEF IsJoined
  <2> QED
    BY <1>5, <2>1, <2>2, Zenon DEF EolAt
<1> QED
  BY <1>1, <1>2, <1>4, <1>5, <1>6, Zenon DEF text, more

(* Beginnings of a text.                                                     *)
LEMMA Beginnings ==
    ASSUME NEW text \in Text, NEW n \in Nat, n <= Len(text)
    PROVE  /\ SubSeq(text, 1, n) \in Text /\ Len(SubSeq(text, 1, n)) = n
           /\ \A i \in 1..n : SubSeq(text, 1, n)[i] = text[i]
           /\ IsPrefix(SubSeq(text, 1, n), text)
           /\ n = Len(text) => SubSeq(text, 1, n) = text
<1> DEFINE part == SubSeq(text, 1, n)
<1>1. ASSUME NEW S, NEW s \in Seq(S), n <= Len(s)
      PROVE  \A i \in 1..n : SubSeq(s, 1, n)[i] = s[i]
  BY <1>1
<1>2. \A i \in 1..n : part[i] = text[i]
  BY <1>1 DEF Text
<1>3. part \in Text /\ Len(part) = n
  <2>1. n \in 0..Len(text)
    BY TextLength
  <2> QED
    BY <2>1, TextCut, Zenon
<1>4. n = Len(text) => part = text
  <2>1. text = text \o <<>> /\ text \o <<>> \in Text /\ Len(text) \in Nat
    BY TextFacts
  <2>2. SubSeq(text \o <<>>, 1, Len(text)) = text
    BY TextFacts, Zenon
  <2> QED
    BY <2>1, <2>2
<1>5. IsPrefix(part, text)
  <2>1. SubSeq(part, 1, n) = part
    <3>1. SubSeq(part \o <<>>, 1, Len(part)) = part /\ part \o <<>> = part
      BY <1>3, TextFacts, Zenon
    <3> QED
      BY <1>3, <3>1
  <2> HIDE DEF part
  <2> QED
    BY <1>3, <2>1 DEF IsPrefix, part
<1> QED
  BY <1>2, <1>3, <1>4, <1>5

(* The line that ends at a position, and what comes behind it.               *)
LineTaken(data, pos, line, others, n) ==
    /\ pos = Len(line) + 1 /\ SubSeq(data, 1, pos - 1) = line
    /\ n - Len(line) - 2 \in Nat /\ n - Len(line) - 2 <= Len(others)
    /\ SubSeq(data, pos + 2, Len(data)) = SubSeq(others, 1, n - Len(line) - 2)

(* The first line of a part of a text: it is not there, or is the whole      *)
(* line, and the rest is a part of what comes behind it.                     *)
LEMMA LineRead ==
    ASSUME NEW line \in Text, Lacks(line, "CR"), NEW others \in Text,
           NEW n \in Nat, n <= Len(line \o (Eol \o others)),
           NEW data, data = SubSeq(line \o (Eol \o others), 1, n),
           NEW pos, pos = Find(data, Eol, 1), pos # 0
    PROVE  LineTaken(data, pos, line, others, n)
<1> DEFINE text == line \o (Eol \o others)
           a == Len(line)
<1>1. /\ text \in Text /\ Eol \o others \in Text
      /\ Len(text) = a + 2 + Len(others) /\ a \in Nat /\ Len(others) \in Nat
      /\ \A i \in 1..a : text[i] = line[i]
      /\ EolAt(text, a + 1)
  BY EolBetween, Zenon
<1>2. \A j \in Nat : j <= Len(others) => SubSeq(text, a + 3, a + 2 + j) = SubSeq(others, 1, j)
  BY EolBetween, Zenon
<1>3. SubSeq(text, 1, a) = line
  BY <1>1, TextFacts, Zenon
<1> HIDE DEF text
<1>4. data \in Text /\ Len(data) = n /\ \A i \in 1..n : data[i] = text[i]
  BY <1>1, Beginnings DEF text
<1>5. /\ pos \in 1..(n - 1) /\ EolAt(data, pos)
      /\ \A i \in 1..(pos - 1) : ~ EolAt(data, i)
  BY <1>4, FindEol
<1>6. \A i \in 1..a : text[i] # "CR"
  BY <1>1 DEF Lacks
<1> HIDE DEF a
<1>7. pos > a
  <2>1. pos \in 1..n /\ pos \in Nat \ {0}
    BY <1>5
  <2>2. text[pos] = "CR"
    BY <1>4, <1>5, <2>1, Zenon DEF EolAt
  <2>3. pos \notin 1..a
    BY <1>6, <2>2, Zenon
  <2> QED
    BY <1>1, <2>1, <2>3
<1>8. pos = a + 1
  <2> SUFFICES ASSUME pos > a + 1 PROVE FALSE
    BY <1>1, <1>5, <1>7
  <2>1. a + 1 \in 1..(pos - 1) /\ a + 1 \in 1..n /\ a + 1 + 1 \in 1..n
    BY <1>1, <1>5
  <2>2. EolAt(data, a + 1)
    BY <1>1, <1>4, <2>1 DEF EolAt
  <2> QED
    BY <1>5, <2>1, <2>2
<1>9. SubSeq(data, 1, pos - 1) = line
  <2>1. pos - 1 = a /\ a <= n /\ n <= Len(text)
    BY <1>1, <1>5, <1>8 DEF text
  <2>2. SubSeq(SubSeq(text, 1, n), 1, a) = SubSeq(text, 1, a)
    BY <1>1, <2>1, TextParts
  <2> QED
    BY <1>3, <2>1, <2>2 DEF text
<1>10. n - a - 2 \in Nat /\ n - a - 2 <= Len(others)
  BY <1>1, <1>5, <1>8 DEF text
<1>11. SubSeq(data, pos + 2, Len(data)) = SubSeq(others, 1, n - a - 2)
  <2>1. pos + 2 = a + 3 /\ a + 3 \in Nat \ {0} /\ Len(data) = n /\ n <= Len(text) /\ n <= n
        /\ a + 2 + (n - a - 2) = n
    BY <1>1, <1>4, <1>8 DEF text
  <2>2. SubSeq(SubSeq(text, 1, n), a + 3, n) = SubSeq(text, a + 3, n)
    BY <1>1, <2>1, TextParts
  <2>3. SubSeq(text, a + 3, a + 2 + (n - a - 2)) = SubSeq(others, 1, n - a - 2)
    BY <1>2, <1>10, Zenon
  <2>4. data = SubSeq(text, 1, n)
    BY Zenon DEF text
  <2> QED
    BY <2>1, <2>2, <2>3, <2>4, Zenon
<1> QED
  BY <1>8, <1>9, <1>10, <1>11 DEF a, LineTaken

(* A text that goes on behind another with an end of line, and one that ends *)
(* before it does.                                                           *)
GoesOn(text, block, m) ==
    /\ Len(text) = Len(block) + 2 + m
    /\ \A i \in 1..Len(block) : text[i] = block[i]
    /\ EolAt(text, Len(block) + 1)

(* What has been received is the beginning of a text; the blank line behind  *)
(* a block is found if all of it has been received, and none before.         *)
EndsEarly(part, text, n) ==
    Len(part) = n /\ n <= Len(text) /\ \A i \in 1..n : part[i] = text[i]
BlankFound(part, block, n) ==
    \/ HeaderEnd(part) = 0 /\ n < Len(block) + 2
    \/ HeaderEnd(part) = Len(block) - 1 /\ n >= Len(block) + 2

(* The blank line behind a block of headers, in a part of them and what      *)
(* follows: it is at the end of the block, and not found in less.            *)
LEMMA BlankRead ==
    ASSUME NEW block \in Text, block # <<>>, IsBlock(block),
           NEW text \in Text, NEW m \in Nat, GoesOn(text, block, m),
           NEW n \in Nat, NEW part \in Text, EndsEarly(part, text, n)
    PROVE  BlankFound(part, block, n)
<1> DEFINE b == Len(block)
           pos == HeaderEnd(part)
<1>1. /\ b \in Nat /\ b >= 2 /\ EolAt(block, b - 1)
      /\ \A i \in 1..(b - 1) : block[i] = "LF" => block[i + 1] # "CR"
  BY TextLength DEF IsBlock
<1>2. /\ \A i \in 1..b : text[i] = block[i]
      /\ text[b - 1] = "CR" /\ text[b] = "LF" /\ text[b + 1] = "CR" /\ text[b + 2] = "LF"
  <2>1. b - 1 \in 1..b /\ b \in 1..b /\ b - 1 + 1 = b /\ b + 1 + 1 = b + 2
    BY <1>1
  <2> QED
    BY <1>1, <2>1, Zenon DEF EolAt, GoesOn
<1>3. /\ pos = 0 /\ \A i \in 1..(n - 3) : ~ BlankAt(part, i)
      \/ /\ pos \in 1..(n - 3) /\ BlankAt(part, pos)
         /\ \A i \in 1..(pos - 1) : ~ BlankAt(part, i)
  BY FindBlank, Zenon DEF EndsEarly
<1>4. Len(part) = n /\ \A i \in 1..n : part[i] = text[i]
  BY Zenon DEF EndsEarly
<1> HIDE DEF b, pos
<1>5. ASSUME NEW i \in 1..(n - 3), BlankAt(part, i) PROVE i >= b - 1
  <2> SUFFICES ASSUME i < b - 1 PROVE FALSE
    BY <1>1, <1>5
  <2>1. i + 1 \in 1..n /\ i + 2 \in 1..n /\ i + 1 \in 1..(b - 1) /\ i + 1 \in 1..b
        /\ i + 2 \in 1..b /\ i + 1 + 1 = i + 2
    BY <1>1
  <2>2. part[i + 1] = "LF" /\ part[i + 2] = "CR"
    BY <1>5, Zenon DEF BlankAt, EolAt
  <2>3. block[i + 1] = "LF" /\ block[i + 2] = "CR"
    BY <1>2, <1>4, <2>1, <2>2, Zenon
  <2> QED
    BY <1>1, <2>1, <2>3, Zenon
<1>6. ASSUME n >= b + 2 PROVE b - 1 \in 1..(n - 3) /\ BlankAt(part, b - 1)
  <2>1. /\ b - 1 \in 1..(n - 3) /\ b - 1 + 1 = b /\ b - 1 + 2 = b + 1 /\ b - 1 + 2 + 1 = b + 2
        /\ b - 1 \in 1..n /\ b \in 1..n /\ b + 1 \in 1..n /\ b + 2 \in 1..n
    BY <1>1, <1>6
  <2>2. part[b - 1] = "CR" /\ part[b] = "LF" /\ part[b + 1] = "CR" /\ part[b + 2] = "LF"
    BY <1>2, <1>4, <2>1, Zenon
  <2> QED
    BY <2>1, <2>2, Zenon DEF BlankAt, EolAt
<1>7. CASE pos = 0
  <2>1. ~ (n >= b + 2)
    BY <1>3, <1>6, <1>7
  <2>2. n < b + 2
    BY <1>1, <2>1
  <2> QED
    BY <1>7, <2>2 DEF b, pos, BlankFound
<1>8. CASE pos # 0
  <2>1. /\ pos \in 1..(n - 3) /\ BlankAt(part, pos)
        /\ \A i \in 1..(pos - 1) : ~ BlankAt(part, i)
    BY <1>3, <1>8, Zenon
  <2>2. pos >= b - 1
    BY <1>5, <2>1, Zenon
  <2>3. n >= b + 2
    BY <1>1, <2>1, <2>2
  <2>4. b - 1 \notin 1..(pos - 1)
    BY <1>6, <2>1, <2>3, Zenon
  <2>5. pos = b - 1
    BY <1>1, <2>1, <2>2, <2>4
  <2> QED
    BY <2>3, <2>5 DEF b, pos, BlankFound
<1> QED
  BY <1>7, <1>8

(* What stands at i to j of the beginning stands there in the text.          *)
SameInPart(text, n, i, j) == SubSeq(SubSeq(text, 1, n), i, j) = SubSeq(text, i, j)

(* A part of a beginning that long is a part of the text.                    *)
LEMMA PartsAgree ==
    \A text \in Text, n \in Nat, i \in Nat \ {0}, j \in Nat :
        n <= Len(text) /\ j <= n => SameInPart(text, n, i, j)
BY TextParts DEF SameInPart

(* Headers and body as handleRequestData takes them from what comes behind   *)
(* the first line.                                                           *)
HeadersIn(part) == IF HeaderEnd(part) = 0 THEN part ELSE SubSeq(part, 1, HeaderEnd(part) - 1)

(* What handleRequestData takes for the body.                                *)
BodyIn(part) == IF HeaderEnd(part) = 0 THEN <<>> ELSE SubSeq(part, HeaderEnd(part) + 4, Len(part))

(* Headers and body are kept apart, in whatever is received of them: the     *)
(* blank line that is found is the one that ends the headers, even when the  *)
(* body has blank lines of its own.                                          *)
LEMMA HeadersRead ==
    ASSUME NEW block \in Text, block # <<>>, IsBlock(block), NEW body \in Text,
           NEW n \in Nat, n <= Len(block \o (Eol \o body)),
           NEW part, part = SubSeq(block \o (Eol \o body), 1, n)
    PROVE  /\ IsPrefix(HeadersIn(part), block \o Eol) /\ IsPrefix(BodyIn(part), body)
           /\ n = Len(block \o (Eol \o body)) => HeadersIn(part) \o Eol = block /\ BodyIn(part) = body
<1> DEFINE text == block \o (Eol \o body)
           b == Len(block)
           m == Len(body)
           ended == block \o Eol
<1>1. /\ text \in Text /\ Len(text) = b + 2 + m /\ b \in Nat /\ m \in Nat
      /\ \A i \in 1..b : text[i] = block[i]
      /\ EolAt(text, b + 1)
  BY EolBetween, Zenon
<1>2. \A j \in Nat : j <= m => SubSeq(text, b + 3, b + 2 + j) = SubSeq(body, 1, j)
  BY EolBetween, Zenon
<1>3. ended \in Text /\ Len(ended) = b + 2
  <2>1. ended \in Text /\ Len(ended) = b + Len(Eol)
    BY EolText, TextFacts, Zenon
  <2> QED
    BY <2>1, EolWhole, Zenon
<1>4. \A j \in Nat : j <= b + 2 => SubSeq(text, 1, j) = SubSeq(ended, 1, j)
  <2>1. text = ended \o body
    <3>1. Assoc(block, Eol, body)
      BY EolText, TextAssociates, Zenon
    <3> QED
      BY <3>1, Zenon DEF Assoc
  <2>2. \A j \in Nat : j <= Len(ended) => SubSeq(ended \o body, 1, j) = SubSeq(ended, 1, j)
    BY <1>3, TextParts
  <2> QED
    BY <1>3, <2>1, <2>2, Zenon
<1>5. \A j \in Nat : j <= b => SubSeq(ended, 1, j) = SubSeq(block, 1, j)
  BY EolText, TextParts
<1>6. n <= Len(text) /\ part = SubSeq(text, 1, n)
  OBVIOUS
<1> HIDE DEF text, ended
<1>7. part \in Text /\ Len(part) = n /\ \A i \in 1..n : part[i] = text[i]
  <2>1. /\ SubSeq(text, 1, n) \in Text /\ Len(SubSeq(text, 1, n)) = n
        /\ \A i \in 1..n : SubSeq(text, 1, n)[i] = text[i]
    BY <1>1, <1>6, Beginnings, Zenon
  <2> QED
    BY <1>6, <2>1, Zenon
<1>8. /\ b >= 2 /\ block[b - 1] = "CR" /\ block[b - 1 + 1] = "LF"
  BY <1>1 DEF IsBlock, EolAt
<1>9. \/ HeaderEnd(part) = 0 /\ n < b + 2
      \/ HeaderEnd(part) = b - 1 /\ n >= b + 2
  <2>1. GoesOn(text, block, m) /\ EndsEarly(part, text, n)
    BY <1>1, <1>6, <1>7, Zenon DEF GoesOn, EndsEarly
  <2>2. BlankFound(part, block, n)
    BY <1>1, <1>7, <2>1, BlankRead, Zenon
  <2> QED
    BY <2>2, Zenon DEF BlankFound
<1>10. CASE HeaderEnd(part) = 0 /\ n < b + 2
  <2>1. HeadersIn(part) = part /\ BodyIn(part) = <<>>
    BY <1>10, Zenon DEF HeadersIn, BodyIn
  <2>2. part = SubSeq(ended, 1, n) /\ n <= Len(ended)
    BY <1>1, <1>3, <1>4, <1>6, <1>10
  <2>3. IsPrefix(part, ended)
    BY <1>3, <2>2, Beginnings
  <2>4. IsPrefix(<<>>, body)
    <3>1. SubSeq(body, 1, 0) = <<>> /\ 0 \in Nat /\ 0 <= Len(body)
      <4>1. 0 \in Nat /\ 0 <= Len(body)
        BY <1>1
      <4>2. SubSeq(body, 1, 0) \in Text /\ Len(SubSeq(body, 1, 0)) = 0
        BY <4>1, Beginnings, Zenon
      <4> QED
        BY <4>1, <4>2, TextFacts
    <3> QED
      BY <3>1, Beginnings, Zenon
  <2>5. n # Len(text)
    BY <1>1, <1>10
  <2> QED
    BY <2>1, <2>3, <2>4, <2>5 DEF text, ended
<1>11. CASE HeaderEnd(part) = b - 1 /\ n >= b + 2
  <2> DEFINE k == n - b - 2
  <2>1. /\ b - 1 # 0 /\ b - 1 - 1 = b - 2 /\ b - 1 + 4 = b + 3 /\ b - 2 \in Nat /\ b - 2 <= n
        /\ b + 3 \in Nat \ {0} /\ b - 2 <= b + 2 /\ b - 2 <= b /\ b - 2 <= Len(ended)
        /\ k \in Nat /\ k <= m /\ b + 2 + k = n /\ n <= n
    BY <1>1, <1>3, <1>6, <1>8, <1>11
  <2>2. HeadersIn(part) = SubSeq(part, 1, b - 2) /\ BodyIn(part) = SubSeq(part, b + 3, n)
    BY <1>7, <1>11, <2>1, Zenon DEF HeadersIn, BodyIn
  <2>3. SubSeq(part, 1, b - 2) = SubSeq(text, 1, b - 2)
    BY <1>1, <1>6, <2>1, TextParts
  <2>4. SubSeq(part, b + 3, n) = SubSeq(text, b + 3, n)
    <3>1. SameInPart(text, n, b + 3, n)
      BY <1>1, <1>6, <2>1, PartsAgree, Zenon
    <3> QED
      BY <1>6, <3>1, Zenon DEF SameInPart
  <2>5. SubSeq(text, b + 3, n) = SubSeq(body, 1, k)
    BY <1>2, <2>1, Zenon
  <2>6. IsPrefix(BodyIn(part), body)
    <3>1. IsPrefix(SubSeq(body, 1, k), body)
      BY <2>1, Beginnings, Zenon
    <3> QED
      BY <2>2, <2>4, <2>5, <3>1, Zenon
  <2>7. HeadersIn(part) = SubSeq(ended, 1, b - 2)
    BY <1>4, <2>1, <2>2, <2>3, Zenon
  <2>8. IsPrefix(HeadersIn(part), ended)
    BY <1>3, <2>1, <2>7, Beginnings
  <2>9. HeadersIn(part) \o Eol = block
    <3>1. HeadersIn(part) = SubSeq(block, 1, b - 2)
      BY <1>5, <2>1, <2>7, Zenon
    <3>2. SubSeq(block, b - 1, b) = Eol
      <4>1. SubSeq(block, b - 1, b - 1 + 1) = <<block[b - 1], block[b - 1 + 1]>>
        <5>1. b - 1 \in 1..(Len(block) - 1)
          BY <1>8
        <5> QED
          BY <5>1, TwoOf DEF Text
      <4>2. b - 1 + 1 = b
        BY <1>1
      <4> QED
        BY <1>8, <4>1, <4>2, Zenon DEF Eol
    <3>3. block = SubSeq(block, 1, b - 2) \o SubSeq(block, b - 2 + 1, b)
      <4>1. b - 2 \in 0..Len(block)
        BY <1>1, <1>8
      <4> QED
        BY <4>1, TextCut, Zenon
    <3>4. b - 2 + 1 = b - 1
      BY <1>1
    <3> QED
      BY <3>1, <3>2, <3>3, <3>4, Zenon
  <2>10. n = Len(text) => BodyIn(part) = body
    <3> SUFFICES ASSUME n = Len(text) PROVE BodyIn(part) = body
      OBVIOUS
    <3>1. k = m
      BY <1>1
    <3> QED
      BY <2>1, <2>2, <2>4, <2>5, <3>1, Beginnings
  <2> QED
    BY <2>6, <2>8, <2>9, <2>10, Zenon DEF text, ended
<1> QED
  BY <1>9, <1>10, <1>11

(* A message is its first line, an end of line, and the rest.                *)
Rest(message) == HeaderText(message) \o (Eol \o message.body)

(* What a client sends is a line and what follows its end.                   *)
LEMMA ComposedParts ==
    ASSUME NEW message, IsMessage(message)
    PROVE  /\ Composed(message) = Line(message) \o (Eol \o Rest(message))
           /\ Line(message) \in Text /\ Rest(message) \in Text /\ Composed(message) \in Text
<1> DEFINE a == Line(message)
           h == HeaderText(message)
           b == message.body
<1>1. a \in Text /\ h \in Text /\ b \in Text /\ Eol \in Text /\ Composed(message) \in Text
  BY LineParts, HeaderTextType, ComposedType, EolText, Zenon DEF IsMessage
<1>2. Composed(message) = (((a \o Eol) \o h) \o Eol) \o b
  BY Zenon DEF Composed, Line
<1>3. Rest(message) = h \o (Eol \o b)
  BY Zenon DEF Rest
<1> HIDE DEF a, h, b
<1>4. /\ a \o Eol \in Text /\ (a \o Eol) \o h \in Text /\ Eol \o b \in Text
      /\ h \o (Eol \o b) \in Text
  BY <1>1, Joined, Zenon
<1>5. (((a \o Eol) \o h) \o Eol) \o b = ((a \o Eol) \o h) \o (Eol \o b)
  <2>1. Assoc((a \o Eol) \o h, Eol, b)
    BY <1>1, <1>4, TextAssociates, Zenon
  <2> QED
    BY <2>1, Zenon DEF Assoc
<1>6. ((a \o Eol) \o h) \o (Eol \o b) = (a \o Eol) \o (h \o (Eol \o b))
  <2>1. Assoc(a \o Eol, h, Eol \o b)
    BY <1>1, <1>4, TextAssociates, Zenon
  <2> QED
    BY <2>1, Zenon DEF Assoc
<1>7. (a \o Eol) \o (h \o (Eol \o b)) = a \o (Eol \o (h \o (Eol \o b)))
  <2>1. Assoc(a, Eol, h \o (Eol \o b))
    BY <1>1, <1>4, TextAssociates, Zenon
  <2> QED
    BY <2>1, Zenon DEF Assoc
<1> QED
  BY <1>1, <1>2, <1>3, <1>4, <1>5, <1>6, <1>7, Zenon DEF a

(* What is taken for headers and body are texts.                             *)
LEMMA HeadersInType ==
    ASSUME NEW part \in Text
    PROVE  HeadersIn(part) \in Text /\ BodyIn(part) \in Text
<1>1. CASE HeaderEnd(part) = 0
  BY <1>1, TextFacts, Zenon DEF HeadersIn, BodyIn
<1>2. CASE HeaderEnd(part) # 0
  <2>1. HeaderEnd(part) \in 1..(Len(part) - 3) /\ Len(part) \in Nat
    BY <1>2, FindBlank, TextLength
  <2>2. /\ 1 \in Nat \ {0} /\ HeaderEnd(part) - 1 \in Int /\ HeaderEnd(part) - 1 <= Len(part)
        /\ HeaderEnd(part) + 4 \in Nat \ {0} /\ Len(part) \in Int /\ Len(part) <= Len(part)
    BY <2>1
  <2> QED
    BY <1>2, <2>2, TextPart, Zenon DEF HeadersIn, BodyIn
<1> QED
  BY <1>1, <1>2

(* A request as it was sent, of which n symbols have been received.          *)
SentAs(message, n, request) ==
    /\ request.method = stringToHttpMethod(<<message.method>>)
    /\ request.uri = StripSlash(message.uri)
    /\ message.headers # <<>> =>
          /\ IsPrefix(request.headers, HeaderText(message) \o Eol)
          /\ IsPrefix(request.body, message.body)
          /\ n = Len(Composed(message)) =>
                request.headers \o Eol = HeaderText(message) /\ request.body = message.body

(* Nothing has no parts.                                                     *)
LEMMA NothingSplit == splitString(<<>>, " ") = <<>>
<1>1. Lacks(<<>>, " ") /\ <<>> \in Text
  BY TextFacts DEF Lacks
<1>2. " " \in Symbols
  BY WordsAreSymbols
<1> QED
  BY <1>1, <1>2, SplitWhole

(* handleRequestData finds in a part of a message what was sent, if it finds *)
(* the end of the first line.                                                *)
LEMMA ParsedAsSent ==
    ASSUME NEW message, IsMessage(message), NEW n \in 0..Len(Composed(message)),
           NEW data, data = SubSeq(Composed(message), 1, n), Len(RequestLine(data)) >= 3
    PROVE  SentAs(message, n, ParseRequest(data))
<1> DEFINE line == Line(message)
           others == Rest(message)
           parts == RequestLine(data)
           pos == Find(data, Eol, 1)
           part == SubSeq(data, pos + 2, Len(data))
           k == n - Len(line) - 2
<1>1. /\ Composed(message) = line \o (Eol \o others)
      /\ line \in Text /\ others \in Text /\ Composed(message) \in Text
  BY ComposedParts, Zenon
<1>2. Lacks(line, "CR") /\ splitString(line, " ") = <<<<message.method>>, message.uri, <<"HTTP/1.1">>>>
  BY LineParts, Zenon
<1>3. n \in Nat /\ n <= Len(Composed(message))
  BY <1>1, TextLength
<1>4. data \in Text /\ Len(data) = n
  BY <1>1, <1>3, Beginnings
<1>5. pos # 0
  <2> SUFFICES ASSUME pos = 0 PROVE FALSE
    OBVIOUS
  <2>1. SubSeq(data, 1, 0 - 1) = <<>>
    BY <1>4 DEF Text
  <2>2. RequestLine(data) = <<>>
    BY <2>1, NothingSplit, Zenon DEF RequestLine
  <2> QED
    BY <2>2
<1> HIDE DEF line, others
<1>6. /\ SubSeq(data, 1, pos - 1) = line
      /\ k \in Nat /\ k <= Len(others) /\ part = SubSeq(others, 1, k)
  <2>1. data = SubSeq(line \o (Eol \o others), 1, n) /\ n <= Len(line \o (Eol \o others))
    BY <1>1, <1>3, Zenon
  <2>2. LineTaken(data, pos, line, others, n)
    BY <1>1, <1>2, <1>3, <1>5, <2>1, LineRead, Zenon
  <2> QED
    BY <2>2, Zenon DEF LineTaken
<1>7. parts[1] = <<message.method>> /\ parts[2] = message.uri
  <2>1. parts = <<<<message.method>>, message.uri, <<"HTTP/1.1">>>>
    BY <1>2, <1>6, Zenon DEF RequestLine
  <2> QED
    BY <2>1
<1> HIDE DEF k
<1>8. part \in Text
  BY <1>1, <1>6, Beginnings
<1> DEFINE method == stringToHttpMethod(parts[1])
           uri == StripSlash(parts[2])
           r == ParseRequest(data)
<1>9. r = Requested(method, uri, HeadersIn(part), BodyIn(part))
  BY Zenon DEF ParseRequest, HeadersIn, BodyIn
<1>10. method \in Methods \cup {"UNKNOWN", "HTTP_METHOD_MAX"} /\ uri \in Text
  <2>1. message.uri \in Text
    BY Zenon DEF IsMessage
  <2> QED
    BY <1>7, <2>1, MethodType, StripSlashType, Zenon
<1>11. HeadersIn(part) \in Text /\ BodyIn(part) \in Text
  BY <1>8, HeadersInType, Zenon
<1>12. r.method = method /\ r.uri = uri /\ r.headers = HeadersIn(part) /\ r.body = BodyIn(part)
  <2> HIDE DEF r, part, method, uri
  <2>1. IsRequested(Requested(method, uri, HeadersIn(part), BodyIn(part)),
                    method, uri, HeadersIn(part), BodyIn(part))
    BY <1>10, <1>11, RequestedType, Zenon
  <2> QED
    BY <1>9, <2>1, Zenon DEF IsRequested
<1> HIDE DEF r, part, parts, pos
<1>13. ASSUME message.headers # <<>>
       PROVE  /\ IsPrefix(r.headers, HeaderText(message) \o Eol)
              /\ IsPrefix(r.body, message.body)
              /\ n = Len(Composed(message)) =>
                    r.headers \o Eol = HeaderText(message) /\ r.body = message.body
  <2> DEFINE block == HeaderText(message)
             body == message.body
  <2>1. block \in Text /\ block # <<>> /\ IsBlock(block) /\ body \in Text
    BY <1>13, HeadersAreLines, Zenon DEF IsMessage
  <2>2. others = block \o (Eol \o body)
    BY Zenon DEF others, Rest
  <2>3. k \in Nat /\ k <= Len(block \o (Eol \o body)) /\ part = SubSeq(block \o (Eol \o body), 1, k)
    BY <1>6, <2>2, Zenon
  <2>4. n = Len(Composed(message)) => k = Len(others)
    <3>1. Len(line \o (Eol \o others)) = Len(line) + 2 + Len(others) /\ Len(line) \in Nat /\ Len(others) \in Nat
      BY <1>1, EolBetween, Zenon
    <3> QED
      BY <1>1, <1>3, <3>1 DEF k
  <2> HIDE DEF block, body
  <2>5. /\ IsPrefix(HeadersIn(part), block \o Eol) /\ IsPrefix(BodyIn(part), body)
        /\ k = Len(block \o (Eol \o body)) => HeadersIn(part) \o Eol = block /\ BodyIn(part) = body
    BY <2>1, <2>3, HeadersRead, Zenon
  <2> QED
    BY <1>12, <2>2, <2>4, <2>5, Zenon DEF block, body
<1> QED
  BY <1>7, <1>12, <1>13, Zenon DEF SentAs, r

-----------------------------------------------------------------------------
(* Numbers                                                                   *)

(* The digits.                                                               *)
DigitSet == ToSet(Digits)

(* The ten digits are symbols of their own.                                  *)
LEMMA DigitFacts ==
    /\ DigitSet = {Digits[d + 1] : d \in 0..9}
    /\ DigitSet \subseteq Symbols
    /\ \A d \in 0..9 : Digits[d + 1] \notin {" ", "CR", "LF"}
    /\ \A d, e \in 0..9 : Digits[d + 1] = Digits[e + 1] => d = e
<1>1. DOMAIN Digits = 1..10
  BY DEF Digits
<1>2. \A d \in 0..9 : d + 1 \in 1..10
  OBVIOUS
<1>3. \A i \in 1..10 : i - 1 \in 0..9 /\ (i - 1) + 1 = i
  OBVIOUS
<1>4. DigitSet = {Digits[i] : i \in DOMAIN Digits}
  BY Zenon DEF DigitSet, ToSet
<1>5. \A x : x \in DigitSet <=> \E d \in 0..9 : x = Digits[d + 1]
  <2>1. ASSUME NEW x, x \in DigitSet PROVE \E d \in 0..9 : x = Digits[d + 1]
    <3>1. PICK i \in 1..10 : x = Digits[i]
      BY <1>1, <1>4, <2>1, Zenon
    <3>2. i - 1 \in 0..9 /\ x = Digits[(i - 1) + 1]
      BY <1>3, <3>1, Zenon
    <3> QED
      BY <3>2, Zenon
  <2>2. ASSUME NEW d \in 0..9 PROVE Digits[d + 1] \in DigitSet
    BY <1>1, <1>2, <1>4, Zenon
  <2> QED
    BY <2>1, <2>2, Zenon
<1>6. DigitSet \subseteq Symbols
  BY StatusAssumption, Zenon DEF DigitSet
<1>7. \A d \in 0..9 : Digits[d + 1] \notin {" ", "CR", "LF"}
  <2>1. /\ Digits[1] = "0" /\ Digits[2] = "1" /\ Digits[3] = "2" /\ Digits[4] = "3"
        /\ Digits[5] = "4" /\ Digits[6] = "5" /\ Digits[7] = "6" /\ Digits[8] = "7"
        /\ Digits[9] = "8" /\ Digits[10] = "9"
    BY DEF Digits
  <2>2. \A i \in 1..10 : i = 1 \/ i = 2 \/ i = 3 \/ i = 4 \/ i = 5 \/ i = 6 \/ i = 7 \/ i = 8 \/ i = 9 \/ i = 10
    OBVIOUS
  <2>3. \A i \in 1..10 : Digits[i] # " " /\ Digits[i] # "CR" /\ Digits[i] # "LF"
    BY <2>1, <2>2, Zenon
  <2> QED
    BY <1>2, <2>3, Zenon
<1>8. \A d, e \in 0..9 : Digits[d + 1] = Digits[e + 1] => d = e
  BY DEF Digits
<1>9. DigitSet = {Digits[d + 1] : d \in 0..9}
  BY <1>5
<1> QED
  BY <1>6, <1>7, <1>8, <1>9, Zenon

(* A sequence without its last element, and that element.                    *)
LEMMA FrontAndLast ==
    ASSUME NEW S, NEW s \in Seq(S), s # <<>>
    PROVE  Front(s) \in Seq(S) /\ Len(Front(s)) = Len(s) - 1 /\ Last(s) \in S
<1>1. Len(s) \in Nat \ {0} /\ s[Len(s)] \in S
  OBVIOUS
<1>2. SubSeq(s, 1, Len(s) - 1) \in Seq(S) /\ Len(SubSeq(s, 1, Len(s) - 1)) = Len(s) - 1
  <2>1. Len(s) - 1 \in 0..Len(s)
    BY <1>1
  <2> QED
    BY <2>1, CutAt
<1> QED
  BY <1>1, <1>2, Zenon DEF Front, Last

(* A number without its last digit, and that digit.                          *)
LEMMA DivTen ==
    \A n \in Nat : /\ n \div 10 \in Nat /\ n % 10 \in 0..9 /\ n = 10 * (n \div 10) + (n % 10)
                   /\ n >= 10 => n \div 10 < n
OBVIOUS

(* operator<< for numbers by its defining equation.                          *)
DecimalOf(decimal, n) ==
    IF n < 10 THEN <<Digits[n + 1]>> ELSE decimal[n \div 10] \o <<Digits[(n % 10) + 1]>>

(* A number is ranked by itself.                                             *)
Rank == [n \in Nat |-> n]

(* Digits with one more behind them.                                         *)
LEMMA NumeralsJoined ==
    ASSUME NEW a \in Numerals, NEW d \in DigitSet
    PROVE  /\ a \o <<d>> \in Numerals /\ <<d>> \in Numerals
           /\ Front(a \o <<d>>) = a /\ Last(a \o <<d>>) = d /\ a \o <<d>> # <<>>
           /\ Len(Front(a \o <<d>>)) < Len(a \o <<d>>)
<1> DEFINE t == a \o <<d>>
<1>1. /\ t \in Seq(DigitSet) /\ Len(t) = Len(a) + 1 /\ Len(a) \in Nat /\ t[Len(t)] = d
      /\ \A i \in 1..Len(a) : t[i] = a[i]
      /\ <<d>> \in Seq(DigitSet)
  BY DEF Numerals, DigitSet
<1>2. SubSeq(t, 1, Len(a)) = a
  BY CutJoined, <1>1 DEF Numerals, DigitSet
<1> HIDE DEF t
<1>3. Front(t) = a /\ Last(t) = d
  <2>1. Len(t) - 1 = Len(a)
    BY <1>1
  <2> QED
    BY <1>1, <1>2, <2>1 DEF Front, Last
<1>4. Len(Front(t)) < Len(t) /\ t # <<>>
  BY <1>1, <1>3
<1> QED
  BY <1>1, <1>3, <1>4, Zenon DEF t, Numerals, DigitSet

(* What is written for a number depends on smaller numbers only.             *)
LEMMA DecimalOfBelow ==
    ASSUME NEW n \in Nat, NEW g, NEW h
    PROVE  /\ (\A m \in Nat : Rank[m] < Rank[n] => g[m] \in Numerals) => DecimalOf(g, n) \in Numerals
           /\ (\A m \in Nat : Rank[m] < Rank[n] => g[m] = h[m]) => DecimalOf(g, n) = DecimalOf(h, n)
<1>1. CASE n < 10
  <2>1. n \in 0..9
    BY <1>1
  <2>2. Digits[n + 1] \in DigitSet
    BY <2>1, DigitFacts
  <2> QED
    BY <1>1, <2>2 DEF DecimalOf, Numerals, DigitSet
<1>2. CASE ~ (n < 10)
  <2>1. n \div 10 \in Nat /\ Rank[n \div 10] < Rank[n] /\ n % 10 \in 0..9
    BY <1>2, DivTen DEF Rank
  <2>2. Digits[(n % 10) + 1] \in DigitSet
    BY <2>1, DigitFacts
  <2>3. \A f : DecimalOf(f, n) = f[n \div 10] \o <<Digits[(n % 10) + 1]>>
    BY <1>2 DEF DecimalOf
  <2>4. ASSUME \A m \in Nat : Rank[m] < Rank[n] => g[m] \in Numerals PROVE DecimalOf(g, n) \in Numerals
    <3>1. g[n \div 10] \in Numerals
      BY <2>1, <2>4, Zenon
    <3>2. g[n \div 10] \o <<Digits[(n % 10) + 1]>> \in Numerals
      BY <2>2, <3>1, NumeralsJoined, Zenon
    <3> QED
      BY <2>3, <3>2, Zenon
  <2>5. ASSUME \A m \in Nat : Rank[m] < Rank[n] => g[m] = h[m] PROVE DecimalOf(g, n) = DecimalOf(h, n)
    <3>1. g[n \div 10] = h[n \div 10]
      BY <2>1, <2>5, Zenon
    <3> QED
      BY <2>3, <3>1, Zenon
  <2> QED
    BY <2>4, <2>5, Zenon
<1> QED
  BY <1>1, <1>2

(* Decimal is typed, and obeys its equation.                                 *)
LEMMA DecimalEquation ==
    \A n \in Nat : Decimal[n] \in Numerals /\ Decimal[n] = DecimalOf(Decimal, n)
<1> DEFINE D == [g \in [Nat -> Numerals] |-> [n \in Nat |-> DecimalOf(g, n)]]
           Typed == {n \in Nat : Decimal[n] \in Numerals}
<1>1. D \in [[Nat -> Numerals] -> [Nat -> Numerals]]
  BY DecimalOfBelow
<1>2. DependsBelow(D, Rank, Nat, Numerals)
  BY DecimalOfBelow DEF DependsBelow
<1>3. \A g \in [Nat -> Numerals] : D[g] = [n \in Nat |-> DecimalOf(g, n)]
  OBVIOUS
<1>4. Rank \in [Nat -> Nat] /\ Numerals # {}
  BY EmptySeq DEF Rank, Numerals, DigitSet
<1> HIDE DEF D
<1>5. HasFixedPoint(D, Nat, Numerals)
  BY <1>1, <1>2, <1>4, RecursionExists
<1>6. Decimal = [n \in Nat |-> DecimalOf(Decimal, n)]
  <2>1. \E f \in [Nat -> Numerals] : f = [n \in Nat |-> DecimalOf(f, n)]
    <3>1. PICK f \in [Nat -> Numerals] : f = D[f]
      BY <1>5 DEF HasFixedPoint
    <3>2. f = [n \in Nat |-> DecimalOf(f, n)]
      BY <1>3, <3>1, Zenon
    <3> QED
      BY <3>2
  <2> QED
    BY <2>1 DEF Decimal, DecimalOf
<1>7. \A n \in Nat : Decimal[n] = DecimalOf(Decimal, n)
  BY <1>6
<1>8. \A n \in Nat : (\A m \in Nat : Rank[m] < Rank[n] => m \in Typed) => n \in Typed
  BY <1>7, DecimalOfBelow
<1> HIDE DEF Typed
<1>9. Nat \subseteq Typed
  BY <1>4, <1>8, RankInduction
<1> QED
  BY <1>7, <1>9 DEF Typed

(* Number by its defining equation.                                          *)
NumberOf(number, digits) ==
    IF digits = <<>> THEN 0 ELSE 10 * number[Front(digits)] + ValueOf(Last(digits))

(* Numerals are ranked by their lengths.                                     *)
NumeralLengths == [digits \in Numerals |-> Len(digits)]

(* A digit has the value that it was written for.                            *)
LEMMA ValueFound == \A d \in 0..9 : ValueOf(Digits[d + 1]) = d
BY DigitFacts DEF ValueOf

(* The number read depends on shorter numerals only.                         *)
LEMMA NumberOfBelow ==
    ASSUME NEW digits \in Numerals, NEW g, NEW h
    PROVE  /\ (\A y \in Numerals : NumeralLengths[y] < NumeralLengths[digits] => g[y] \in Nat)
              => NumberOf(g, digits) \in Nat
           /\ (\A y \in Numerals : NumeralLengths[y] < NumeralLengths[digits] => g[y] = h[y])
              => NumberOf(g, digits) = NumberOf(h, digits)
<1>1. CASE digits = <<>>
  BY <1>1 DEF NumberOf
<1>2. CASE digits # <<>>
  <2> DEFINE front == Front(digits)
             last == Last(digits)
  <2>1. front \in Numerals /\ NumeralLengths[front] < NumeralLengths[digits] /\ last \in DigitSet
    <3>1. front \in Seq(DigitSet) /\ Len(front) = Len(digits) - 1 /\ last \in DigitSet
      <4>1. digits \in Seq(DigitSet)
        BY DEF Numerals, DigitSet
      <4> QED
        BY <1>2, <4>1, FrontAndLast, Zenon
    <3>2. Len(digits) \in Nat
      BY DEF Numerals, DigitSet
    <3> HIDE DEF front
    <3> QED
      BY <3>1, <3>2 DEF Numerals, DigitSet, NumeralLengths
  <2>2. \A f : NumberOf(f, digits) = 10 * f[front] + ValueOf(last)
    BY <1>2 DEF NumberOf
  <2>3. ValueOf(last) \in 0..9
    <3>1. PICK d \in 0..9 : last = Digits[d + 1]
      BY <2>1, DigitFacts
    <3> QED
      BY <3>1, ValueFound
  <2> HIDE DEF front, last
  <2>4. ASSUME \A y \in Numerals : NumeralLengths[y] < NumeralLengths[digits] => g[y] \in Nat
        PROVE  NumberOf(g, digits) \in Nat
    <3>1. g[front] \in Nat
      BY <2>1, <2>4
    <3> QED
      BY <2>2, <2>3, <3>1
  <2>5. ASSUME \A y \in Numerals : NumeralLengths[y] < NumeralLengths[digits] => g[y] = h[y]
        PROVE  NumberOf(g, digits) = NumberOf(h, digits)
    <3>1. g[front] = h[front]
      BY <2>1, <2>5
    <3> QED
      BY <2>2, <3>1
  <2> QED
    BY <2>4, <2>5
<1> QED
  BY <1>1, <1>2

(* Number is typed, and obeys its equation.                                  *)
LEMMA NumberEquation ==
    \A digits \in Numerals : Number[digits] \in Nat /\ Number[digits] = NumberOf(Number, digits)
<1> DEFINE D == [g \in [Numerals -> Nat] |-> [digits \in Numerals |-> NumberOf(g, digits)]]
           Typed == {digits \in Numerals : Number[digits] \in Nat}
<1>1. D \in [[Numerals -> Nat] -> [Numerals -> Nat]]
  BY NumberOfBelow
<1>2. DependsBelow(D, NumeralLengths, Numerals, Nat)
  BY NumberOfBelow DEF DependsBelow
<1>3. \A g \in [Numerals -> Nat] : D[g] = [digits \in Numerals |-> NumberOf(g, digits)]
  OBVIOUS
<1>4. NumeralLengths \in [Numerals -> Nat] /\ Nat # {}
  BY DEF NumeralLengths, Numerals, DigitSet
<1> HIDE DEF D
<1>5. HasFixedPoint(D, Numerals, Nat)
  BY <1>1, <1>2, <1>4, RecursionExists
<1>6. Number = [digits \in Numerals |-> NumberOf(Number, digits)]
  <2>1. \E f \in [Numerals -> Nat] : f = [digits \in Numerals |-> NumberOf(f, digits)]
    <3>1. PICK f \in [Numerals -> Nat] : f = D[f]
      BY <1>5 DEF HasFixedPoint
    <3>2. f = [digits \in Numerals |-> NumberOf(f, digits)]
      BY <1>3, <3>1, Zenon
    <3> QED
      BY <3>2
  <2> QED
    BY <2>1 DEF Number, NumberOf
<1>7. \A digits \in Numerals : Number[digits] = NumberOf(Number, digits)
  BY <1>6
<1>8. \A digits \in Numerals :
         (\A y \in Numerals : NumeralLengths[y] < NumeralLengths[digits] => y \in Typed) => digits \in Typed
  BY <1>7, NumberOfBelow
<1> HIDE DEF Typed
<1>9. Numerals \subseteq Typed
  BY <1>4, <1>8, RankInduction
<1> QED
  BY <1>7, <1>9 DEF Typed

(* Who reads the digits of a number reads that number.                       *)
LEMMA NumberRead == \A n \in Nat : Decimal[n] \in Numerals \ {<<>>} /\ Number[Decimal[n]] = n
<1> DEFINE Good == {n \in Nat : Decimal[n] # <<>> /\ Number[Decimal[n]] = n}
<1>1. ASSUME NEW n \in Nat, \A m \in Nat : m < n => m \in Good PROVE n \in Good
  <2>1. CASE n < 10
    <3>1. n \in 0..9
      BY <2>1
    <3>2. Decimal[n] = <<Digits[n + 1]>> /\ <<>> \in Numerals /\ Digits[n + 1] \in DigitSet
      <4>1. Decimal[n] = <<Digits[n + 1]>>
        BY <2>1, DecimalEquation, Zenon DEF DecimalOf
      <4>2. Digits[n + 1] \in DigitSet
        BY <3>1, DigitFacts
      <4> QED
        BY <4>1, <4>2, EmptySeq DEF Numerals, DigitSet
    <3>3. <<Digits[n + 1]>> = <<>> \o <<Digits[n + 1]>>
      OBVIOUS
    <3>4. /\ <<Digits[n + 1]>> \in Numerals /\ <<Digits[n + 1]>> # <<>>
          /\ Front(<<Digits[n + 1]>>) = <<>> /\ Last(<<Digits[n + 1]>>) = Digits[n + 1]
      BY <3>2, <3>3, NumeralsJoined, Zenon
    <3>5. Number[<<>>] = 0
      BY <3>2, NumberEquation, Zenon DEF NumberOf
    <3>6. Number[<<Digits[n + 1]>>] = 10 * 0 + ValueOf(Digits[n + 1])
      BY <3>4, <3>5, NumberEquation, Zenon DEF NumberOf
    <3> QED
      <4>1. ValueOf(Digits[n + 1]) = n
        BY <3>1, ValueFound
      <4>2. Number[Decimal[n]] = n
        BY <3>2, <3>6, <4>1
      <4> QED
        BY <3>2, <3>4, <4>2, Zenon
  <2>2. CASE ~ (n < 10)
    <3> DEFINE q == n \div 10
               r == n % 10
               d == Digits[r + 1]
    <3>1. q \in Nat /\ q < n /\ r \in 0..9 /\ n = 10 * q + r
      BY <2>2, DivTen
    <3> HIDE DEF q, r
    <3>2. d \in DigitSet /\ ValueOf(d) = r
      BY <3>1, DigitFacts, ValueFound
    <3>3. Decimal[n] = Decimal[q] \o <<d>>
      BY <2>2, DecimalEquation, Zenon DEF DecimalOf, q, r
    <3> HIDE DEF d
    <3>4. Decimal[q] \in Numerals /\ Number[Decimal[q]] = q
      BY <1>1, <3>1, DecimalEquation
    <3>5. /\ Decimal[n] \in Numerals /\ Decimal[n] # <<>>
          /\ Front(Decimal[n]) = Decimal[q] /\ Last(Decimal[n]) = d
      BY <3>2, <3>3, <3>4, NumeralsJoined, Zenon
    <3>6. Number[Decimal[n]] = 10 * Number[Decimal[q]] + ValueOf(d)
      BY <3>5, NumberEquation, Zenon DEF NumberOf
    <3> QED
      BY <3>1, <3>2, <3>4, <3>5, <3>6
  <2> QED
    BY <2>1, <2>2
<1> HIDE DEF Good
<1>2. Nat \subseteq Good
  BY <1>1, StrongInduction
<1> QED
  BY <1>2, DecimalEquation DEF Good

-----------------------------------------------------------------------------
(* Reading lines                                                             *)

(* Lines by its defining equation.                                           *)
LinesFrom(lines, text) ==
    LET end == Find(text, Eol, 1) IN
    IF end = 0 THEN <<>>
    ELSE <<SubSeq(text, 1, end - 1)>> \o lines[SubSeq(text, end + 2, Len(text))]

(* The lines of a text depend on those of shorter texts only.                *)
LEMMA LinesFromBelow ==
    ASSUME NEW text \in Text, NEW g, NEW h
    PROVE  /\ (\A y \in Text : Lengths[y] < Lengths[text] => g[y] \in Seq(Text))
              => LinesFrom(g, text) \in Seq(Text)
           /\ (\A y \in Text : Lengths[y] < Lengths[text] => g[y] = h[y])
              => LinesFrom(g, text) = LinesFrom(h, text)
<1>1. CASE Find(text, Eol, 1) = 0
  BY <1>1, EmptySeq DEF LinesFrom
<1>2. CASE Find(text, Eol, 1) # 0
  <2> DEFINE pos == Find(text, Eol, 1)
             line == SubSeq(text, 1, pos - 1)
             after == SubSeq(text, pos + 2, Len(text))
  <2>1. pos \in 1..(Len(text) - 1) /\ Len(text) \in Nat
    BY <1>2, FindEol, TextLength
  <2>2. line \in Text /\ after \in Text /\ Lengths[after] < Lengths[text]
    <3>1. pos \in 1..Len(text) /\ pos + 1 \in 1..Len(text) /\ (pos + 1) + 1 = pos + 2
      BY <2>1
    <3>2. line \in Text
      BY <3>1, Behind
    <3>3. after \in Text /\ Len(after) = Len(text) - (pos + 1)
      BY <3>1, Behind
    <3> HIDE DEF after, pos, line
    <3> QED
      BY <2>1, <3>2, <3>3 DEF Lengths
  <2>3. \A f : LinesFrom(f, text) = <<line>> \o f[after]
    BY <1>2 DEF LinesFrom
  <2> HIDE DEF pos, line, after
  <2>4. ASSUME \A y \in Text : Lengths[y] < Lengths[text] => g[y] \in Seq(Text)
        PROVE  LinesFrom(g, text) \in Seq(Text)
    <3>1. g[after] \in Seq(Text)
      BY <2>2, <2>4
    <3>2. <<line>> \o g[after] \in Seq(Text)
      BY <2>2, <3>1, Prepended
    <3> QED
      BY <2>3, <3>2
  <2>5. ASSUME \A y \in Text : Lengths[y] < Lengths[text] => g[y] = h[y]
        PROVE  LinesFrom(g, text) = LinesFrom(h, text)
    <3>1. g[after] = h[after]
      BY <2>2, <2>5
    <3> QED
      BY <2>3, <3>1
  <2> QED
    BY <2>4, <2>5
<1> QED
  BY <1>1, <1>2

(* Lines is typed, and obeys its equation.                                   *)
LEMMA LinesEquation ==
    \A text \in Text : Lines[text] \in Seq(Text) /\ Lines[text] = LinesFrom(Lines, text)
<1> DEFINE D == [g \in [Text -> Seq(Text)] |-> [text \in Text |-> LinesFrom(g, text)]]
           Typed == {text \in Text : Lines[text] \in Seq(Text)}
<1>1. D \in [[Text -> Seq(Text)] -> [Text -> Seq(Text)]]
  BY LinesFromBelow
<1>2. DependsBelow(D, Lengths, Text, Seq(Text))
  BY LinesFromBelow DEF DependsBelow
<1>3. \A g \in [Text -> Seq(Text)] : D[g] = [text \in Text |-> LinesFrom(g, text)]
  OBVIOUS
<1> HIDE DEF D
<1>4. HasFixedPoint(D, Text, Seq(Text))
  BY <1>1, <1>2, EmptySeq, LengthsAreNat, RecursionExists
<1>5. Lines = [text \in Text |-> LinesFrom(Lines, text)]
  <2>1. \E f \in [Text -> Seq(Text)] : f = [text \in Text |-> LinesFrom(f, text)]
    <3>1. PICK f \in [Text -> Seq(Text)] : f = D[f]
      BY <1>4 DEF HasFixedPoint
    <3>2. f = [text \in Text |-> LinesFrom(f, text)]
      BY <1>3, <3>1, Zenon
    <3> QED
      BY <3>2
  <2> QED
    BY <2>1 DEF Lines, LinesFrom
<1>6. \A text \in Text : Lines[text] = LinesFrom(Lines, text)
  BY <1>5
<1>7. \A text \in Text : (\A y \in Text : Lengths[y] < Lengths[text] => y \in Typed) => text \in Typed
  BY <1>6, LinesFromBelow
<1> HIDE DEF Typed
<1>8. Text \subseteq Typed
  BY <1>7, LengthsAreNat, RankInduction
<1> QED
  BY <1>6, <1>8 DEF Typed

(* A text of lines, each with its end, that is read as those lines.          *)
IsReadAs(text, lines) ==
    text \in Text /\ IsBlock(text) /\ lines \in Seq(Text) /\ Lines[text] = lines

(* Nothing is read as no lines.                                              *)
LEMMA NothingRead == IsReadAs(<<>>, <<>>)
<1>1. <<>> \in Text /\ Len(<<>>) = 0
  BY TextFacts
<1>2. Find(<<>>, Eol, 1) = 0
  <2>1. 1..(Len(<<>>) - 1) = {}
    BY <1>1
  <2> QED
    BY <1>1, <2>1, FindEol, Zenon
<1>3. Lines[<<>>] = <<>>
  BY <1>1, <1>2, LinesEquation, Zenon DEF LinesFrom
<1>4. IsBlock(<<>>)
  BY <1>1 DEF IsBlock
<1> QED
  BY <1>1, <1>3, <1>4, EmptySeq DEF IsReadAs

(* With one more line in front.                                              *)
LEMMA OneMoreRead ==
    ASSUME NEW line, IsLine(line), NEW others, NEW lines, IsReadAs(others, lines)
    PROVE  IsReadAs((line \o Eol) \o others, <<line>> \o lines)
<1> DEFINE text == line \o (Eol \o others)
           n == Len(text)
<1>1. /\ line \in Text /\ line # <<>> /\ Lacks(line, "CR") /\ Lacks(line, "LF")
      /\ others \in Text /\ IsBlock(others) /\ lines \in Seq(Text) /\ Lines[others] = lines
  BY Zenon DEF IsLine, IsReadAs
<1>2. IsBlock((line \o Eol) \o others)
  BY <1>1, LineFirst, Zenon
<1>3. (line \o Eol) \o others = text
  <2>1. Assoc(line, Eol, others)
    BY <1>1, EolText, TextAssociates, Zenon
  <2> QED
    BY <2>1, Zenon DEF Assoc
<1>4. /\ text \in Text /\ n = Len(line) + 2 + Len(others) /\ Len(line) \in Nat /\ Len(others) \in Nat
      /\ EolAt(text, Len(line) + 1)
  BY <1>1, EolBetween, Zenon
<1> HIDE DEF text
<1>5. n \in Nat /\ n <= Len(text) /\ text = SubSeq(text, 1, n)
  <2>1. n \in Nat /\ n <= Len(text) /\ n = Len(text)
    BY <1>4
  <2> QED
    BY <1>4, <2>1, Beginnings
<1> DEFINE pos == Find(text, Eol, 1)
<1>6. pos # 0
  <2> SUFFICES ASSUME pos = 0 PROVE FALSE
    OBVIOUS
  <2>1. Len(line) + 1 \in 1..(Len(text) - 1)
    BY <1>4
  <2>2. \A i \in 1..(Len(text) - 1) : ~ EolAt(text, i)
    BY <1>4, FindEol
  <2> QED
    BY <1>4, <2>1, <2>2, Zenon
<1>7. LineTaken(text, pos, line, others, n)
  <2>1. n <= Len(line \o (Eol \o others)) /\ text = SubSeq(line \o (Eol \o others), 1, n)
    BY <1>5, Zenon DEF text
  <2> HIDE DEF n, pos
  <2>2. pos = Find(text, Eol, 1)
    BY DEF pos
  <2> QED
    BY <1>1, <1>5, <1>6, <2>1, <2>2, LineRead, Zenon
<1>8. SubSeq(text, 1, pos - 1) = line /\ SubSeq(text, pos + 2, Len(text)) = others
  <2>1. n - Len(line) - 2 = Len(others)
    BY <1>4
  <2>2. SubSeq(others, 1, Len(others)) = others
    <3>1. Len(others) \in Nat /\ Len(others) <= Len(others)
      BY <1>4
    <3> QED
      BY <1>1, <3>1, Beginnings, Zenon
  <2> QED
    BY <1>7, <2>1, <2>2, Zenon DEF LineTaken
<1>9. Lines[text] = <<line>> \o lines
  <2>1. Lines[text] = <<SubSeq(text, 1, pos - 1)>> \o Lines[SubSeq(text, pos + 2, Len(text))]
    BY <1>4, <1>6, LinesEquation, Zenon DEF LinesFrom
  <2> QED
    BY <1>1, <1>8, <2>1, Zenon
<1>10. <<line>> \o lines \in Seq(Text)
  BY <1>1, Prepended
<1> QED
  BY <1>2, <1>3, <1>4, <1>9, <1>10, Zenon DEF IsReadAs

(* With any number of lines in front.                                        *)
AllRead(lines, others, after) ==
    IsReadAs(FlattenSeq(Ended(lines)) \o others, lines \o after)

(* Any number of lines is read as it was written, in front of what is read   *)
(* as others.                                                                *)
LEMMA LinesRead ==
    ASSUME NEW others, NEW after, IsReadAs(others, after)
    PROVE  \A n \in Nat : \A lines \in LinesOf(n) : AllRead(lines, others, after)
<1> DEFINE Good == {n \in Nat : \A lines \in LinesOf(n) : AllRead(lines, others, after)}
<1>1. others \in Text /\ after \in Seq(Text)
  BY Zenon DEF IsReadAs
<1>2. ASSUME NEW n \in Nat, \A m \in Nat : m < n => m \in Good PROVE n \in Good
  <2>1. ASSUME NEW lines \in LinesOf(n) PROVE AllRead(lines, others, after)
    <3>1. lines \in Seq(Text) /\ Len(lines) = n /\ \A i \in 1..n : IsLine(lines[i])
      BY DEF LinesOf
    <3>2. CASE lines = <<>>
      <4>1. Ended(lines) = <<>>
        BY <3>2 DEF Ended
      <4>2. FlattenSeq(Ended(lines)) \o others = others
        BY <1>1, <4>1, FlattenEmpty, TextFacts
      <4>3. lines \o after = after
        BY <1>1, <3>2
      <4> QED
        BY <4>2, <4>3, Zenon DEF AllRead
    <3>3. CASE lines # <<>>
      <4> DEFINE line == Head(lines)
                 rest == Tail(lines)
                 flat == FlattenSeq(Ended(rest))
      <4>1. n - 1 \in Nat /\ n - 1 < n /\ rest \in LinesOf(n - 1) /\ IsLine(line)
        <5>1. /\ n \in Nat \ {0} /\ rest \in Seq(Text) /\ Len(rest) = n - 1 /\ line = lines[1]
              /\ \A i \in 1..(n - 1) : rest[i] = lines[i + 1]
          BY <3>1, <3>3
        <5> HIDE DEF rest, line
        <5>2. \A i \in 1..(n - 1) : i + 1 \in 1..n
          BY <5>1
        <5>3. \A i \in 1..(n - 1) : IsLine(rest[i])
          BY <3>1, <5>1, <5>2, Zenon
        <5>4. 1 \in 1..n /\ n - 1 \in Nat /\ n - 1 < n
          BY <5>1
        <5>5. rest \in LinesOf(n - 1)
          BY <5>1, <5>3 DEF LinesOf
        <5> QED
          BY <3>1, <5>1, <5>4, <5>5, Zenon DEF rest
      <4>2. AllRead(rest, others, after)
        BY <1>2, <4>1
      <4>3. lines = <<line>> \o rest /\ rest \in Seq(Text) /\ line \in Text
        BY <3>1, <3>3, HeadAndTail
      <4>4. Ended(lines) = <<line \o Eol>> \o Ended(rest) /\ Ended(rest) \in Seq(Text)
        BY <3>1, <3>3, EndedCons
      <4>5. line \o Eol \in Text
        BY <4>3, EolText, Joined, Zenon
      <4>6. FlattenSeq(Ended(lines)) = (line \o Eol) \o flat
        BY <4>4, <4>5, FlattenCons DEF Text
      <4>7. flat \in Text
        BY <4>1, BlockOfLines
      <4> HIDE DEF line, rest, flat
      <4>8. IsReadAs((line \o Eol) \o (flat \o others), <<line>> \o (rest \o after))
        BY <4>1, <4>2, OneMoreRead, Zenon DEF AllRead, flat
      <4>9. (line \o Eol) \o (flat \o others) = FlattenSeq(Ended(lines)) \o others
        <5>1. Assoc(line \o Eol, flat, others)
          BY <1>1, <4>5, <4>7, TextAssociates, Zenon
        <5> QED
          BY <4>6, <5>1, Zenon DEF Assoc
      <4>10. <<line>> \o (rest \o after) = lines \o after
        <5>1. <<line>> \in Seq(Text)
          BY <4>3
        <5>2. (<<line>> \o rest) \o after = <<line>> \o (rest \o after)
          BY <1>1, <4>3, <5>1, Associates
        <5> QED
          BY <4>3, <5>2
      <4> QED
        BY <4>8, <4>9, <4>10, Zenon DEF AllRead
    <3> QED
      BY <3>2, <3>3
  <2> QED
    BY <2>1
<1> HIDE DEF Good
<1>3. Nat \subseteq Good
  BY <1>2, StrongInduction
<1> QED
  BY <1>3 DEF Good

-----------------------------------------------------------------------------
(* Responses, as clients read them                                           *)

(* The lines of the headers and of the length, and the length with its end.  *)
HeaderLines(response, names) == [i \in DOMAIN names |-> HeaderLine(response, names[i])]
LengthLines(response) == IF response.body = <<>> THEN <<>> ELSE <<LengthLine(response)>>
LengthPart(response) == IF response.body = <<>> THEN <<>> ELSE LengthLine(response) \o Eol

(* All of a response but the blank line and the body, as text and as lines.  *)
Top(response, names) ==
    (StatusLine(response) \o Eol)
    \o (FlattenSeq(Ended(HeaderLines(response, names))) \o LengthPart(response))

(* All lines of the head of a response.                                      *)
TopLines(response, names) ==
    <<StatusLine(response)>> \o (HeaderLines(response, names) \o LengthLines(response))

(* A response that fits on its lines.                                        *)
InLine(response, names) ==
    /\ response.statusCode \in Nat /\ response.body \in Text
    /\ names \in Seq(Symbols)
    /\ \A i \in 1..Len(names) :
          /\ names[i] # "CR" /\ names[i] # "LF"
          /\ response.headers[names[i]] \in Text
          /\ Lacks(response.headers[names[i]], "CR") /\ Lacks(response.headers[names[i]], "LF")

(* A number is written in digits, and read as it was meant.                  *)
LEMMA NumeralsLack ==
    ASSUME NEW n \in Nat
    PROVE  /\ Decimal[n] \in Text /\ Decimal[n] # <<>> /\ Number[Decimal[n]] = n
           /\ Lacks(Decimal[n], " ") /\ Lacks(Decimal[n], "CR") /\ Lacks(Decimal[n], "LF")
<1>1. Decimal[n] \in Seq(DigitSet) /\ Decimal[n] # <<>> /\ Number[Decimal[n]] = n
  BY NumberRead, Zenon DEF Numerals, DigitSet
<1> DEFINE t == Decimal[n]
<1>2. \A s \in DigitSet : s \in Symbols /\ s # " " /\ s # "CR" /\ s # "LF"
  <2>1. ASSUME NEW s \in DigitSet PROVE s # " " /\ s # "CR" /\ s # "LF"
    <3>1. PICK d \in 0..9 : s = Digits[d + 1]
      BY DigitFacts
    <3> QED
      BY <3>1, DigitFacts
  <2> QED
    BY <2>1, DigitFacts
<1> HIDE DEF t
<1>3. t \in Seq(Symbols)
  <2>1. t \in Seq(DigitSet) /\ DigitSet \subseteq Symbols
    BY <1>1, <1>2 DEF t
  <2> QED
    BY <2>1
<1>4. \A i \in 1..Len(t) : t[i] \in DigitSet
  BY <1>1 DEF t
<1>5. Lacks(t, " ") /\ Lacks(t, "CR") /\ Lacks(t, "LF")
  BY <1>2, <1>4 DEF Lacks
<1> QED
  BY <1>1, <1>3, <1>5 DEF t, Text

(* The message of a code is one word.                                        *)
LEMMA MessageIsWord ==
    ASSUME NEW code \in Nat
    PROVE  /\ getStatusMessage(code) \in Symbols
           /\ getStatusMessage(code) # " " /\ getStatusMessage(code) # "CR" /\ getStatusMessage(code) # "LF"
<1>1. "Unknown Status" \in Symbols
  BY MessageAssumption
<1>2. \A c \in HttpStatusCode : /\ StatusMessages[c] \in Symbols /\ StatusMessages[c] # " "
                                /\ StatusMessages[c] # "CR" /\ StatusMessages[c] # "LF"
  <2>1. StatusMessages \in [HttpStatusCode -> Symbols \ {"CR", "LF", " ", "Unknown Status"}]
    BY StatusAssumption, Zenon
  <2> QED
    BY <2>1
<1> DEFINE message == getStatusMessage(code)
           c == Uint16(code)
<1>3. message = IF c \in HttpStatusCode THEN StatusMessages[c] ELSE "Unknown Status"
  BY DEF getStatusMessage
<1> HIDE DEF message, c
<1>4. CASE c \in HttpStatusCode
  <2>1. message = StatusMessages[c]
    BY <1>3, <1>4, Zenon
  <2> QED
    BY <1>2, <1>4, <2>1, Zenon DEF message
<1>5. CASE c \notin HttpStatusCode
  <2>1. message = "Unknown Status"
    BY <1>3, <1>5, Zenon
  <2> QED
    BY <1>1, <2>1 DEF message
<1> QED
  BY <1>4, <1>5

(* Two words.                                                                *)
LEMMA PairFacts ==
    ASSUME NEW a \in Symbols, NEW b \in Symbols
    PROVE  /\ <<a, b>> \in Text /\ Len(<<a, b>>) = 2
           /\ \A symbol : symbol # a /\ symbol # b => Lacks(<<a, b>>, symbol)
<1> DEFINE pair == <<a, b>>
<1>1. pair \in Seq(Symbols) /\ Len(pair) = 2 /\ pair[1] = a /\ pair[2] = b
  OBVIOUS
<1> HIDE DEF pair
<1>2. \A i \in 1..Len(pair) : i = 1 \/ i = 2
  BY <1>1
<1>3. \A symbol : symbol # a /\ symbol # b => Lacks(pair, symbol)
  BY <1>1, <1>2, Zenon DEF Lacks
<1> QED
  BY <1>1, <1>3, Zenon DEF pair, Text

(* The first line of a response is one line, of three parts.                 *)
LEMMA StatusRead ==
    ASSUME NEW response, response.statusCode \in Nat
    PROVE  /\ IsLine(StatusLine(response))
           /\ splitString(StatusLine(response), " ")
                  = <<<<"HTTP/1.1">>, Decimal[response.statusCode],
                      <<getStatusMessage(response.statusCode)>>>>
<1> DEFINE number == Decimal[response.statusCode]
           word == getStatusMessage(response.statusCode)
           line == ThreeParts("HTTP/1.1", number, word)
<1>1. StatusLine(response) = line
  BY Zenon DEF StatusLine, ThreeParts
<1>2. number \in Text /\ Lacks(number, " ") /\ Lacks(number, "CR") /\ Lacks(number, "LF")
  BY NumeralsLack
<1>3. word \in Symbols /\ word # " " /\ word # "CR" /\ word # "LF"
  BY MessageIsWord
<1>4. /\ "HTTP/1.1" \in Symbols /\ "HTTP/1.1" # " " /\ "CR" # " " /\ "CR" # "HTTP/1.1"
      /\ "LF" # " " /\ "LF" # "HTTP/1.1" /\ "CR" # word /\ "LF" # word
  BY <1>3, WordsAreSymbols
<1> HIDE DEF number, word
<1>5. /\ line \in Text /\ splitString(line, " ") = <<<<"HTTP/1.1">>, number, <<word>>>>
      /\ Lacks(line, "CR") /\ Lacks(line, "LF")
  BY <1>2, <1>3, <1>4, PartsOfLine, Zenon
<1>6. line # <<>>
  <2> SUFFICES ASSUME line = <<>> PROVE FALSE
    OBVIOUS
  <2>1. splitString(line, " ") = <<>>
    BY NothingSplit, Zenon
  <2>2. <<<<"HTTP/1.1">>, number, <<word>>>> # <<>>
    OBVIOUS
  <2> QED
    BY <1>5, <2>1, <2>2, Zenon
<1> QED
  BY <1>1, <1>5, <1>6, Zenon DEF IsLine, number, word

(* The line of the length is one line, and gives the length.                 *)
LEMMA LengthRead ==
    ASSUME NEW response, response.body \in Text
    PROVE  /\ IsLine(LengthLine(response))
           /\ SubSeq(LengthLine(response), 1, 2) = <<"Content-Length", ": ">>
           /\ Number[SubSeq(LengthLine(response), 3, Len(LengthLine(response)))] = Len(response.body)
<1> DEFINE name == <<"Content-Length", ": ">>
           number == Decimal[Len(response.body)]
           line == name \o number
<1>1. LengthLine(response) = line
  BY Zenon DEF LengthLine
<1>2. name \in Text /\ Len(name) = 2 /\ Lacks(name, "CR") /\ Lacks(name, "LF")
  <2>1. "Content-Length" \in Symbols /\ ": " \in Symbols
    BY MessageAssumption
  <2> QED
    <3>1. "CR" # "Content-Length" /\ "CR" # ": " /\ "LF" # "Content-Length" /\ "LF" # ": "
      OBVIOUS
    <3> QED
      BY <2>1, <3>1, PairFacts, Zenon
<1>3. /\ number \in Text /\ Number[number] = Len(response.body)
      /\ Lacks(number, "CR") /\ Lacks(number, "LF")
  BY TextLength, NumeralsLack
<1> HIDE DEF name, number
<1>4. /\ line \in Text /\ Len(line) = 2 + Len(number) /\ Len(number) \in Nat
      /\ SubSeq(line, 1, 2) = name /\ SubSeq(line, 2 + 1, Len(line)) = number
  <2>1. /\ line \in Text /\ Len(line) = Len(name) + Len(number) /\ Len(number) \in Nat
        /\ SubSeq(line, 1, Len(name)) = name /\ SubSeq(line, Len(name) + 1, Len(line)) = number
    BY <1>2, <1>3, TextFacts, Zenon
  <2> QED
    BY <1>2, <2>1, Zenon
<1>5. Lacks(line, "CR") /\ Lacks(line, "LF")
  BY <1>2, <1>3, LacksJoined, Zenon
<1>6. line # <<>> /\ 2 + 1 = 3
  BY <1>4, TextFacts
<1> QED
  BY <1>1, <1>3, <1>4, <1>5, <1>6, Zenon DEF IsLine, name

(* Every header makes one line.                                              *)
LEMMA HeaderLinesFit ==
    ASSUME NEW response, NEW names, InLine(response, names)
    PROVE  HeaderLines(response, names) \in LinesOf(Len(names)) /\ Len(names) \in Nat
<1> DEFINE lines == HeaderLines(response, names)
<1>1. names \in Seq(Symbols) /\ Len(names) \in Nat /\ DOMAIN names = 1..Len(names)
  BY DEF InLine
<1>2. ASSUME NEW i \in 1..Len(names) PROVE IsLine(HeaderLine(response, names[i]))
  <2> DEFINE name == names[i]
             value == response.headers[names[i]]
             prefix == <<name, ": ">>
  <2>1. /\ name \in Symbols /\ name # "CR" /\ name # "LF" /\ value \in Text
        /\ Lacks(value, "CR") /\ Lacks(value, "LF")
    BY <1>1 DEF InLine
  <2>2. ": " \in Symbols
    BY WordsAreSymbols
  <2>3. HeaderLine(response, names[i]) = prefix \o value
    BY Zenon DEF HeaderLine
  <2> HIDE DEF name, value
  <2>4. prefix \in Text /\ Len(prefix) = 2 /\ Lacks(prefix, "CR") /\ Lacks(prefix, "LF")
    <3>1. "CR" # name /\ "CR" # ": " /\ "LF" # name /\ "LF" # ": "
      BY <2>1
    <3> QED
      BY <2>1, <2>2, <3>1, PairFacts, Zenon DEF prefix
  <2> HIDE DEF prefix
  <2>5. /\ prefix \o value \in Text /\ Len(prefix \o value) = Len(prefix) + Len(value)
        /\ Len(value) \in Nat
    BY <2>1, <2>4, TextFacts, Zenon
  <2>6. prefix \o value # <<>>
    <3>1. Len(prefix \o value) # 0
      BY <2>4, <2>5
    <3> QED
      BY <2>5, <3>1, TextFacts
  <2>7. Lacks(prefix \o value, "CR") /\ Lacks(prefix \o value, "LF")
    BY <2>1, <2>4, LacksJoined, Zenon
  <2> QED
    BY <2>3, <2>5, <2>6, <2>7, Zenon DEF IsLine
<1>3. \A i \in 1..Len(names) : lines[i] = HeaderLine(response, names[i])
  BY <1>1 DEF HeaderLines
<1>4. \A i \in 1..Len(names) : IsLine(lines[i]) /\ lines[i] \in Text
  BY <1>2, <1>3, Zenon DEF IsLine
<1>5. lines \in [1..Len(names) -> Text]
  <2>1. lines = [i \in 1..Len(names) |-> HeaderLine(response, names[i])]
    BY <1>1, Zenon DEF HeaderLines
  <2>2. \A i \in 1..Len(names) : HeaderLine(response, names[i]) \in Text
    BY <1>2, Zenon DEF IsLine
  <2> QED
    BY <2>1, <2>2
<1> HIDE DEF lines
<1>6. lines \in Seq(Text) /\ Len(lines) = Len(names)
  BY <1>1, <1>5
<1> QED
  BY <1>1, <1>4, <1>6 DEF LinesOf, lines

(* A response ends, with or without a body, in a blank line and the body.    *)
LEMMA EndingParts ==
    ASSUME NEW response, response.body \in Text
    PROVE  Ending(response) = LengthPart(response) \o (Eol \o response.body)
<1> DEFINE body == response.body
           line == LengthLine(response)
<1>1. body \in Text /\ Eol \in Text /\ line \in Text
  BY LengthRead, EolText, Zenon DEF IsLine
<1>2. CASE body = <<>>
  <2>1. Ending(response) = Eol /\ LengthPart(response) = <<>>
    BY <1>2, Zenon DEF Ending, LengthPart
  <2> HIDE DEF body
  <2>2. Eol \o body = Eol /\ <<>> \o Eol = Eol
    BY <1>1, <1>2, TextFacts, Zenon
  <2>3. LengthPart(response) \o (Eol \o body) = Eol
    BY <2>1, <2>2, Zenon
  <2> QED
    BY <2>1, <2>3, Zenon DEF body
<1>3. CASE body # <<>>
  <2>1. Ending(response) = ((line \o Eol) \o Eol) \o body /\ LengthPart(response) = line \o Eol
    BY <1>3, Zenon DEF Ending, LengthPart
  <2> HIDE DEF body, line
  <2>2. Assoc(line \o Eol, Eol, body)
    <3>1. line \o Eol \in Text
      BY <1>1, Joined, Zenon
    <3> QED
      BY <1>1, <3>1, TextAssociates, Zenon
  <2>3. ((line \o Eol) \o Eol) \o body = (line \o Eol) \o (Eol \o body)
    BY <2>2, Zenon DEF Assoc
  <2> QED
    BY <2>1, <2>3, Zenon DEF body
<1> QED
  BY <1>2, <1>3

(* The text of a response is read as its lines, a blank line and the body.   *)
LEMMA TopRead ==
    ASSUME NEW response, NEW names, InLine(response, names)
    PROVE  /\ IsReadAs(Top(response, names), TopLines(response, names))
           /\ Top(response, names) # <<>>
           /\ toString(response, names) = Top(response, names) \o (Eol \o response.body)
<1> DEFINE lines == HeaderLines(response, names)
           flat == FlattenSeq(Ended(lines))
           part == LengthPart(response)
           first == StatusLine(response)
           body == response.body
<1>1. response.statusCode \in Nat /\ body \in Text
  BY Zenon DEF InLine
<1>2. IsReadAs(part, LengthLines(response))
  <2>1. CASE body = <<>>
    BY <2>1, NothingRead, Zenon DEF LengthPart, LengthLines
  <2>2. CASE body # <<>>
    <3>1. part = LengthLine(response) \o Eol /\ LengthLines(response) = <<LengthLine(response)>>
      BY <2>2, Zenon DEF LengthPart, LengthLines
    <3>2. IsLine(LengthLine(response))
      BY <1>1, LengthRead, Zenon
    <3>3. IsReadAs((LengthLine(response) \o Eol) \o <<>>, <<LengthLine(response)>> \o <<>>)
      BY <3>2, NothingRead, OneMoreRead, Zenon
    <3>4. LengthLine(response) \o Eol \in Text /\ LengthLine(response) \in Text
      BY <3>2, EolText, Joined, Zenon DEF IsLine
    <3>5. (LengthLine(response) \o Eol) \o <<>> = LengthLine(response) \o Eol
      BY <3>4, TextFacts, Zenon
    <3>6. <<LengthLine(response)>> \o <<>> = <<LengthLine(response)>>
      BY <3>4
    <3> QED
      BY <3>1, <3>3, <3>5, <3>6, Zenon
  <2> QED
    BY <2>1, <2>2
<1>3. lines \in LinesOf(Len(names)) /\ Len(names) \in Nat
  BY HeaderLinesFit, Zenon
<1>4. flat \in Text /\ part \in Text /\ Eol \in Text /\ first \in Text
  <2>1. flat \in Text
    BY <1>3, BlockOfLines, Zenon
  <2>2. first \in Text
    BY <1>1, StatusRead, Zenon DEF IsLine
  <2> QED
    BY <1>2, <2>1, <2>2, EolText, Zenon DEF IsReadAs
<1>5. IsReadAs(flat \o part, lines \o LengthLines(response))
  BY <1>2, <1>3, LinesRead, Zenon DEF AllRead
<1>6. IsReadAs(Top(response, names), TopLines(response, names))
  <2>1. IsLine(first)
    BY <1>1, StatusRead, Zenon
  <2> QED
    BY <1>5, <2>1, OneMoreRead, Zenon DEF Top, TopLines
<1>7. toString(response, names) = ((first \o Eol) \o flat) \o (part \o (Eol \o body))
  <2>1. toString(response, names) = ((first \o Eol) \o flat) \o Ending(response)
    BY Zenon DEF toString, Ended, HeaderLines
  <2> QED
    BY <1>1, <2>1, EndingParts, Zenon
<1>8. Top(response, names) = (first \o Eol) \o (flat \o part)
  BY Zenon DEF Top
<1> HIDE DEF lines, flat, part, first, body
<1>9. /\ first \o Eol \in Text /\ (first \o Eol) \o flat \in Text /\ flat \o part \in Text
      /\ Eol \o body \in Text
  BY <1>1, <1>4, Joined, Zenon
<1>10. ((first \o Eol) \o flat) \o (part \o (Eol \o body)) = ((first \o Eol) \o (flat \o part)) \o (Eol \o body)
  <2>1. Assoc((first \o Eol) \o flat, part, Eol \o body) /\ Assoc(first \o Eol, flat, part)
    BY <1>4, <1>9, TextAssociates, Zenon
  <2>2. ((first \o Eol) \o flat) \o (part \o (Eol \o body)) = (((first \o Eol) \o flat) \o part) \o (Eol \o body)
    BY <2>1, Zenon DEF Assoc
  <2>3. ((first \o Eol) \o flat) \o part = (first \o Eol) \o (flat \o part)
    BY <2>1, Zenon DEF Assoc
  <2> QED
    BY <2>2, <2>3, Zenon
<1>11. Top(response, names) # <<>>
  <2>1. Len(first \o Eol) = Len(first) + Len(Eol) /\ Len(first) \in Nat /\ Len(Eol) = 2
    BY <1>4, EolText, TextFacts
  <2>2. Len((first \o Eol) \o (flat \o part)) = Len(first \o Eol) + Len(flat \o part) /\ Len(flat \o part) \in Nat
    BY <1>9, TextFacts
  <2>3. Len((first \o Eol) \o (flat \o part)) # 0 /\ (first \o Eol) \o (flat \o part) \in Text
    BY <1>9, <2>1, <2>2, Joined
  <2> QED
    BY <1>8, <2>3, TextFacts
<1> QED
  BY <1>6, <1>7, <1>8, <1>10, <1>11, Zenon DEF body

(* The blank line is found behind the top, with its lines before it and the  *)
(* body behind it.                                                           *)
IsWire(wire, lines, body) ==
    /\ HeaderEnd(wire) > 0
    /\ Lines[SubSeq(wire, 1, HeaderEnd(wire) + 1)] = lines
    /\ SubSeq(wire, HeaderEnd(wire) + 4, Len(wire)) = body

(* A client finds the head of a response line by line, and the body behind   *)
(* it: the blank line it finds is the one of toString().                     *)
LEMMA WireRead ==
    ASSUME NEW response, NEW names, InLine(response, names)
    PROVE  IsWire(toString(response, names), TopLines(response, names), response.body)
<1> DEFINE top == Top(response, names)
           body == response.body
           wire == top \o (Eol \o body)
           b == Len(top)
           n == Len(wire)
<1>1. /\ IsReadAs(top, TopLines(response, names)) /\ top # <<>>
      /\ toString(response, names) = wire
  BY TopRead, Zenon
<1>2. top \in Text /\ IsBlock(top) /\ Lines[top] = TopLines(response, names)
  BY <1>1, Zenon DEF IsReadAs
<1>3. body \in Text
  BY Zenon DEF InLine
<1> HIDE DEF top, body
<1>4. /\ wire \in Text /\ n = b + 2 + Len(body) /\ b \in Nat /\ Len(body) \in Nat
      /\ \A i \in 1..b : wire[i] = top[i]
      /\ EolAt(wire, b + 1)
      /\ \A j \in Nat : j <= Len(body) => SubSeq(wire, b + 3, b + 2 + j) = SubSeq(body, 1, j)
  BY <1>2, <1>3, EolBetween, Zenon
<1>5. SubSeq(wire, 1, b) = top
  <2>1. Eol \o body \in Text
    BY <1>3, EolText, Joined, Zenon
  <2> QED
    BY <1>2, <2>1, TextFacts, Zenon
<1> HIDE DEF wire
<1>6. HeaderEnd(wire) = b - 1 /\ b >= 2
  <2>1. GoesOn(wire, top, Len(body))
    BY <1>4, Zenon DEF GoesOn
  <2>2. n \in Nat /\ n <= Len(wire) /\ n >= b + 2
    BY <1>4
  <2>3. EndsEarly(wire, wire, n)
    BY <2>2, Zenon DEF EndsEarly
  <2>4. BlankFound(wire, top, n)
    BY <1>1, <1>2, <1>4, <2>1, <2>2, <2>3, BlankRead, Zenon
  <2>5. ~ (n < b + 2)
    BY <1>4, <2>2
  <2>6. b >= 2
    BY <1>1, <1>2 DEF IsBlock
  <2> QED
    BY <2>4, <2>5, <2>6, Zenon DEF BlankFound
<1>7. HeaderEnd(wire) > 0 /\ HeaderEnd(wire) + 1 = b /\ HeaderEnd(wire) + 4 = b + 3
  BY <1>4, <1>6
<1>8. SubSeq(wire, b + 3, n) = body
  <2>1. Len(body) <= Len(body) /\ b + 2 + Len(body) = n
    BY <1>4
  <2>2. SubSeq(wire, b + 3, b + 2 + Len(body)) = SubSeq(body, 1, Len(body))
    BY <1>4, <2>1, Zenon
  <2>3. SubSeq(body, 1, Len(body)) = body
    BY <1>3, <1>4, <2>1, Beginnings, Zenon
  <2> QED
    BY <2>1, <2>2, <2>3, Zenon
<1>9. IsWire(wire, TopLines(response, names), body)
  BY <1>2, <1>5, <1>7, <1>8, Zenon DEF IsWire
<1> QED
  BY <1>1, <1>9, Zenon DEF body

(* The lines in front of the blank line.                                     *)
Among(line, lines) == \E i \in 1..Len(lines) : lines[i] = line

(* The lines of two sequences are among those of both.                       *)
LEMMA AmongJoined ==
    ASSUME NEW a \in Seq(Text), NEW b \in Seq(Text)
    PROVE  /\ a \o b \in Seq(Text) /\ Len(a \o b) = Len(a) + Len(b)
           /\ \A i \in 1..Len(a) : Among(a[i], a \o b)
           /\ \A i \in 1..Len(b) : Among(b[i], a \o b)
<1> DEFINE c == a \o b
<1>1. /\ c \in Seq(Text) /\ Len(c) = Len(a) + Len(b) /\ Len(a) \in Nat /\ Len(b) \in Nat
      /\ \A i \in 1..Len(a) : c[i] = a[i]
      /\ \A i \in 1..Len(b) : c[Len(a) + i] = b[i]
  OBVIOUS
<1> HIDE DEF c
<1>2. /\ \A i \in 1..Len(a) : i \in 1..Len(c)
      /\ \A i \in 1..Len(b) : Len(a) + i \in 1..Len(c)
  BY <1>1
<1> QED
  BY <1>1, <1>2, Zenon DEF Among, c

(* The head has the status first, then each header, and the length if there  *)
(* is a body.                                                                *)
LEMMA TopLinesHave ==
    ASSUME NEW response, NEW names, InLine(response, names)
    PROVE  /\ TopLines(response, names)[1] = StatusLine(response)
           /\ Len(TopLines(response, names)) = 1 + Len(names) + (IF response.body = <<>> THEN 0 ELSE 1)
           /\ \A i \in 1..Len(names) :
                 Among(HeaderLine(response, names[i]), Tail(TopLines(response, names)))
           /\ response.body # <<>> =>
                 Among(LengthLine(response), Tail(TopLines(response, names)))
<1> DEFINE lines == HeaderLines(response, names)
           more == LengthLines(response)
           first == StatusLine(response)
           k == IF response.body = <<>> THEN 0 ELSE 1
<1>1. names \in Seq(Symbols) /\ response.statusCode \in Nat /\ response.body \in Text
  BY Zenon DEF InLine
<1>2. lines \in Seq(Text) /\ Len(lines) = Len(names) /\ Len(names) \in Nat
  BY HeaderLinesFit DEF LinesOf
<1>3. \A i \in 1..Len(names) : lines[i] = HeaderLine(response, names[i])
  BY <1>1 DEF HeaderLines
<1>4. LengthLine(response) \in Text /\ first \in Text
  BY <1>1, LengthRead, StatusRead, Zenon DEF IsLine
<1>5. /\ more \in Seq(Text) /\ Len(more) = k
      /\ response.body # <<>> => more[1] = LengthLine(response) /\ 1 \in 1..Len(more)
  BY <1>4 DEF LengthLines
<1>6. TopLines(response, names) = <<first>> \o (lines \o more)
  BY Zenon DEF TopLines
<1>7. k \in Nat
  OBVIOUS
<1> HIDE DEF lines, more, first, k
<1> DEFINE rest == lines \o more
<1>8. /\ rest \in Seq(Text) /\ Len(rest) = Len(lines) + Len(more)
      /\ \A i \in 1..Len(lines) : Among(lines[i], rest)
      /\ \A i \in 1..Len(more) : Among(more[i], rest)
  BY <1>2, <1>5, AmongJoined, Zenon
<1> HIDE DEF rest
<1>9. /\ Tail(<<first>> \o rest) = rest /\ (<<first>> \o rest)[1] = first
      /\ Len(<<first>> \o rest) = Len(rest) + 1
  BY <1>4, <1>8, Prepended
<1>10. Len(<<first>> \o rest) = 1 + Len(names) + k
  BY <1>2, <1>5, <1>7, <1>8, <1>9
<1>11. \A i \in 1..Len(names) : Among(HeaderLine(response, names[i]), rest)
  BY <1>2, <1>3, <1>8, Zenon
<1>12. response.body # <<>> => Among(LengthLine(response), rest)
  BY <1>5, <1>8, Zenon
<1> QED
  BY <1>6, <1>9, <1>10, <1>11, <1>12, Zenon DEF rest, first, k

(* A line among others is in their set.                                      *)
LEMMA AmongIn ==
    ASSUME NEW line, NEW lines, Among(line, lines), lines \in Seq(Text)
    PROVE  line \in ToSet(lines)
<1>1. PICK i \in 1..Len(lines) : lines[i] = line
  BY Zenon DEF Among
<1>2. DOMAIN lines = 1..Len(lines)
  OBVIOUS
<1> QED
  BY <1>1, <1>2, Zenon DEF ToSet
=============================================================================
