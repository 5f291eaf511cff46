----------------------------- MODULE RoutingProofs -----------------------------
(***************************************************************************)
(* The loop of createRegexFromURI and the regular expressions agree with   *)
(* what the routes mean.                                                   *)
(***************************************************************************)
EXTENDS Routing, MessageProofs

-----------------------------------------------------------------------------
(* createRegexFromURI                                                        *)

(* What the constructor of HttpResource makes of a URI.                      *)
Resources == [valid : BOOLEAN, regex : Text, paramNames : Seq(Text)]

(* The type of a resource by its parts.                                      *)
LEMMA ResourceType ==
    \A v \in BOOLEAN, r \in Text, p \in Seq(Text) :
        [valid |-> v, regex |-> r, paramNames |-> p] \in Resources
BY DEF Resources

(* createRegexFromURI by its defining equation.                              *)
RewriteOf(f, rest) ==
    LET pos == Find(rest, <<Open>>, 1)
        endPos == Find(rest, <<Close>>, pos)
        others == f[SubSeq(rest, endPos + 1, Len(rest))]
    IN  IF pos = 0 THEN [valid |-> TRUE, regex |-> rest, paramNames |-> <<>>]
        ELSE IF endPos = 0 THEN [valid |-> FALSE, regex |-> <<>>, paramNames |-> <<>>]
        ELSE [valid |-> others.valid,
              regex |-> SubSeq(rest, 1, pos - 1) \o <<Group>> \o others.regex,
              paramNames |-> <<SubSeq(rest, pos + 1, endPos - 1)>> \o others.paramNames]

(* The position of a symbol, as a fact about names only.                     *)
FoundAt(text, symbol, from, pos) ==
    /\ pos \in from..Len(text) /\ pos \in Nat \ {0} /\ text[pos] = symbol
    /\ \A i \in from..(pos - 1) : text[i] # symbol

(* The symbol does not come again.                                           *)
Missing(text, symbol, from) == \A i \in from..Len(text) : text[i] # symbol

(* find() of a brace finds the first, or there is none.                      *)
LEMMA FoundOrMissing ==
    ASSUME NEW text \in Text, NEW symbol \in Symbols, NEW from \in Nat \ {0}
    PROVE  IF Find(text, <<symbol>>, from) = 0 THEN Missing(text, symbol, from)
           ELSE FoundAt(text, symbol, from, Find(text, <<symbol>>, from))
<1> DEFINE pos == Find(text, <<symbol>>, from)
<1>1. \/ pos = 0 /\ \A i \in from..Len(text) : text[i] # symbol
      \/ /\ pos \in from..Len(text) /\ text[pos] = symbol
         /\ \A i \in from..(pos - 1) : text[i] # symbol
  BY FindSymbol, Zenon
<1>2. Len(text) \in Nat
  BY TextLength
<1> HIDE DEF pos
<1>3. IF pos = 0 THEN Missing(text, symbol, from) ELSE FoundAt(text, symbol, from, pos)
  BY <1>1, <1>2 DEF Missing, FoundAt
<1> QED
  BY <1>3 DEF pos

(* The braces and the group are three symbols.                               *)
LEMMA BraceSymbols ==
    /\ Open \in Symbols /\ Close \in Symbols /\ Group \in Symbols
    /\ Open # Close /\ Open # Group
<1>1. Open # Close /\ Open # Group
  BY Zenon DEF Open, Close, Group
<1> QED
  BY <1>1, RoutingAssumption, Zenon

(* Where the next parameter is.                                              *)
Braces(rest, pos, endPos) ==
    /\ pos \in Nat \ {0} /\ endPos \in Nat \ {0} /\ Len(rest) \in Nat
    /\ pos < endPos /\ endPos <= Len(rest)
    /\ rest[pos] = Open /\ rest[endPos] = Close
    /\ \A i \in 1..(pos - 1) : rest[i] # Open
    /\ \A i \in pos..(endPos - 1) : rest[i] # Close

(* A brace that opens and the first that closes behind it.                   *)
LEMMA BracesFound ==
    ASSUME NEW rest \in Text, NEW pos, NEW endPos,
           pos = Find(rest, <<Open>>, 1), endPos = Find(rest, <<Close>>, pos),
           pos # 0, endPos # 0
    PROVE  Braces(rest, pos, endPos)
<1>1. Open \in Symbols /\ Close \in Symbols /\ 1 \in Nat \ {0}
  BY BraceSymbols
<1>2. FoundAt(rest, Open, 1, pos)
  BY <1>1, FoundOrMissing, Zenon
<1>3. pos \in Nat \ {0}
  BY <1>2 DEF FoundAt
<1>4. FoundAt(rest, Close, pos, endPos)
  BY <1>1, <1>3, FoundOrMissing, Zenon
<1>5. Len(rest) \in Nat
  BY TextLength
<1>6. pos # endPos
  BY <1>2, <1>4, BraceSymbols DEF FoundAt
<1>7. pos \in 1..Len(rest) /\ endPos \in pos..Len(rest) /\ endPos \in Nat \ {0}
  BY <1>2, <1>4 DEF FoundAt
<1>8. pos < endPos /\ endPos <= Len(rest)
  BY <1>5, <1>6, <1>7
<1> QED
  BY <1>2, <1>3, <1>4, <1>5, <1>7, <1>8, Zenon DEF FoundAt, Braces

(* A part of a text, position by position.                                   *)
LEMMA Between ==
    ASSUME NEW text \in Text, NEW m \in Nat \ {0}, NEW n \in Nat, m <= n + 1, n <= Len(text)
    PROVE  /\ SubSeq(text, m, n) \in Text
           /\ Len(SubSeq(text, m, n)) = n + 1 - m
           /\ \A i \in 1..(n + 1 - m) : SubSeq(text, m, n)[i] = text[m + i - 1]
  BY DEF Text

(* What one round takes from the text, and leaves.                           *)
LEMMA RoundParts ==
    ASSUME NEW rest \in Text, NEW pos, NEW endPos, Braces(rest, pos, endPos)
    PROVE  /\ SubSeq(rest, 1, pos - 1) \in Text
           /\ SubSeq(rest, pos + 1, endPos - 1) \in Text
           /\ SubSeq(rest, endPos + 1, Len(rest)) \in Text
           /\ Len(SubSeq(rest, endPos + 1, Len(rest))) = Len(rest) - endPos
           /\ Len(SubSeq(rest, endPos + 1, Len(rest))) < Len(rest)
<1>1. /\ pos \in Nat \ {0} /\ endPos \in Nat \ {0} /\ Len(rest) \in Nat
      /\ pos < endPos /\ endPos <= Len(rest)
  BY DEF Braces
<1> QED
  BY <1>1 DEF Text

(* What a URI is rewritten to depends on shorter texts only.                 *)
LEMMA RewriteOfBelow ==
    ASSUME NEW rest \in Text, NEW g, NEW h
    PROVE  /\ (\A y \in Text : Lengths[y] < Lengths[rest] => g[y] \in Resources)
              => RewriteOf(g, rest) \in Resources
           /\ (\A y \in Text : Lengths[y] < Lengths[rest] => g[y] = h[y])
              => RewriteOf(g, rest) = RewriteOf(h, rest)
<1>1. PICK pos : pos = Find(rest, <<Open>>, 1)
  OBVIOUS
<1>2. PICK endPos : endPos = Find(rest, <<Close>>, pos)
  OBVIOUS
<1>3. CASE pos = 0 \/ endPos = 0
  <2>1. \A f : RewriteOf(f, rest) = IF pos = 0 THEN [valid |-> TRUE, regex |-> rest, paramNames |-> <<>>]
                                     ELSE [valid |-> FALSE, regex |-> <<>>, paramNames |-> <<>>]
    <3>1. CASE pos = 0
      BY <1>1, <3>1, Zenon DEF RewriteOf
    <3>2. CASE pos # 0
      BY <1>1, <1>2, <1>3, <3>2, Zenon DEF RewriteOf
    <3> QED
      BY <3>1, <3>2
  <2>2. <<>> \in Text /\ <<>> \in Seq(Text)
    BY EmptySeq DEF Text
  <2>3. RewriteOf(g, rest) \in Resources /\ RewriteOf(g, rest) = RewriteOf(h, rest)
    BY <2>1, <2>2, ResourceType, Zenon
  <2> QED
    BY <2>3
<1>4. CASE pos # 0 /\ endPos # 0
  <2>1. PICK before, after, name : /\ before = SubSeq(rest, 1, pos - 1)
                                   /\ after = SubSeq(rest, endPos + 1, Len(rest))
                                   /\ name = SubSeq(rest, pos + 1, endPos - 1)
    OBVIOUS
  <2>2. /\ before \in Text /\ after \in Text /\ name \in Text
        /\ Len(after) < Len(rest)
    BY <1>1, <1>2, <1>4, <2>1, BracesFound, RoundParts, Zenon
  <2>3. Lengths[after] < Lengths[rest]
    BY <2>2 DEF Lengths
  <2>4. \A f : RewriteOf(f, rest) =
              [valid |-> f[after].valid,
               regex |-> before \o <<Group>> \o f[after].regex,
               paramNames |-> <<name>> \o f[after].paramNames]
    BY <1>1, <1>2, <1>4, <2>1, Zenon DEF RewriteOf
  <2>5. ASSUME g[after] \in Resources PROVE RewriteOf(g, rest) \in Resources
    <3>1. PICK v \in BOOLEAN, r \in Text, p \in Seq(Text) :
             g[after] = [valid |-> v, regex |-> r, paramNames |-> p]
      BY <2>5 DEF Resources
    <3>2. before \o <<Group>> \o r \in Text
      <4>1. <<Group>> \in Text
        BY BraceSymbols DEF Text
      <4> QED
        BY <2>2, <4>1, Joined, Zenon
    <3>3. <<name>> \o p \in Seq(Text)
      BY <2>2, Prepended, Zenon
    <3>4. g[after].valid = v /\ g[after].regex = r /\ g[after].paramNames = p
      BY <3>1
    <3>5. RewriteOf(g, rest) = [valid |-> v, regex |-> before \o <<Group>> \o r,
                                paramNames |-> <<name>> \o p]
      BY <2>4, <3>4, Zenon
    <3> QED
      BY <3>2, <3>3, <3>5, ResourceType, Zenon
  <2>6. (\A y \in Text : Lengths[y] < Lengths[rest] => g[y] \in Resources)
        => RewriteOf(g, rest) \in Resources
    BY <2>2, <2>3, <2>5, Zenon
  <2>7. (\A y \in Text : Lengths[y] < Lengths[rest] => g[y] = h[y])
        => RewriteOf(g, rest) = RewriteOf(h, rest)
    BY <2>2, <2>3, <2>4, Zenon
  <2> QED
    BY <2>6, <2>7
<1> QED
  BY <1>3, <1>4

(* createRegexFromURI is typed, and obeys its equation.                      *)
LEMMA RewriteEquation ==
    /\ rewrite \in [Text -> Resources]
    /\ \A rest \in Text : rewrite[rest] = RewriteOf(rewrite, rest)
<1> DEFINE D == [g \in [Text -> Resources] |-> [rest \in Text |-> RewriteOf(g, rest)]]
           Typed == {rest \in Text : rewrite[rest] \in Resources}
<1>1. D \in [[Text -> Resources] -> [Text -> Resources]]
  BY RewriteOfBelow
<1>2. DependsBelow(D, Lengths, Text, Resources)
  BY RewriteOfBelow DEF DependsBelow
<1>3. \A g \in [Text -> Resources] : D[g] = [rest \in Text |-> RewriteOf(g, rest)]
  OBVIOUS
<1>4. Resources # {}
  <2>1. <<>> \in Text /\ <<>> \in Seq(Text)
    BY EmptySeq DEF Text
  <2>2. [valid |-> TRUE, regex |-> <<>>, paramNames |-> <<>>] \in Resources
    BY <2>1 DEF Resources
  <2> QED
    BY <2>2
<1> HIDE DEF D
<1>5. HasFixedPoint(D, Text, Resources)
  BY <1>1, <1>2, <1>4, LengthsAreNat, RecursionExists
<1>6. rewrite = [rest \in Text |-> RewriteOf(rewrite, rest)]
  <2>1. \E f \in [Text -> Resources] : f = [rest \in Text |-> RewriteOf(f, rest)]
    <3>1. PICK f \in [Text -> Resources] : f = D[f]
      BY <1>5 DEF HasFixedPoint
    <3>2. f = [rest \in Text |-> RewriteOf(f, rest)]
      BY <1>3, <3>1, Zenon
    <3> QED
      BY <3>2
  <2> QED
    BY <2>1 DEF rewrite, RewriteOf
<1>7. \A rest \in Text : rewrite[rest] = RewriteOf(rewrite, rest)
  BY <1>6
<1>8. \A rest \in Text : (\A y \in Text : Lengths[y] < Lengths[rest] => y \in Typed)
                        => rest \in Typed
  BY <1>7, RewriteOfBelow
<1> HIDE DEF Typed
<1>9. Text \subseteq Typed
  BY <1>8, LengthsAreNat, RankInduction
<1> QED
  BY <1>6, <1>7, <1>9 DEF Typed

(* match by its defining equation, and as the ways to cut the text in two:   *)
(* what the first symbol of the expression takes, and the rest.              *)
GroupWays(w, uri) ==
    UNION {{<<SubSeq(uri, 1, e)>> \o groups : groups \in w[SubSeq(uri, e + 1, Len(uri))]} :
              e \in {i \in 1..Len(uri) : GroupTakes(SubSeq(uri, 1, i))}}

-----------------------------------------------------------------------------
(* The regular expressions                                                   *)

(* regex_match by its defining equation.                                     *)
MatchOf(f, regex) ==
    [uri \in Text |->
        IF regex = <<>> THEN IF uri = <<>> THEN {<<>>} ELSE {}
        ELSE IF Head(regex) = Group
        THEN GroupWays(f[Tail(regex)], uri)
        ELSE IF uri # <<>> /\ Head(regex) \in {Head(uri), "."}
        THEN f[Tail(regex)][Tail(uri)]
        ELSE {}]

(* The ways to match every text.                                             *)
Ways == [Text -> SUBSET Seq(Text)]

(* Ways to match come from ways to match.                                    *)
LEMMA MatchOfTyped ==
    ASSUME NEW regex \in Text, NEW g, regex # <<>> => g[Tail(regex)] \in Ways
    PROVE  MatchOf(g, regex) \in Ways
<1> SUFFICES ASSUME NEW uri \in Text PROVE MatchOf(g, regex)[uri] \in SUBSET Seq(Text)
  BY DEF MatchOf, Ways
<1>1. CASE regex = <<>>
  <2>1. <<>> \in Seq(Text)
    BY EmptySeq
  <2>2. MatchOf(g, regex)[uri] = IF uri = <<>> THEN {<<>>} ELSE {}
    BY <1>1, Zenon DEF MatchOf
  <2> QED
    BY <2>1, <2>2
<1>2. CASE regex # <<>> /\ Head(regex) = Group
  <2>1. PICK w \in Ways : w = g[Tail(regex)]
    BY <1>2
  <2>2. MatchOf(g, regex)[uri] = GroupWays(w, uri)
    BY <1>2, <2>1, Zenon DEF MatchOf
  <2>3. ASSUME NEW x \in GroupWays(w, uri) PROVE x \in Seq(Text)
    <3>1. PICK e \in 1..Len(uri) : \E groups \in w[SubSeq(uri, e + 1, Len(uri))] :
             x = <<SubSeq(uri, 1, e)>> \o groups
      BY Zenon DEF GroupWays
    <3>2. PICK groups \in w[SubSeq(uri, e + 1, Len(uri))] : x = <<SubSeq(uri, 1, e)>> \o groups
      BY <3>1
    <3>3. e \in 0..Len(uri)
      BY TextLength
    <3>4. SubSeq(uri, 1, e) \in Text /\ SubSeq(uri, e + 1, Len(uri)) \in Text
      BY <3>3, TextCut, Zenon
    <3>5. groups \in Seq(Text)
      BY <3>4, Zenon DEF Ways
    <3> QED
      BY <3>2, <3>4, <3>5, Prepended, Zenon
  <2> QED
    BY <2>2, <2>3, Zenon
<1>3. CASE regex # <<>> /\ Head(regex) # Group
  <2>1. MatchOf(g, regex)[uri] = IF uri # <<>> /\ Head(regex) \in {Head(uri), "."}
                                 THEN g[Tail(regex)][Tail(uri)] ELSE {}
    BY <1>3, Zenon DEF MatchOf
  <2>2. uri # <<>> => Tail(uri) \in Text
    BY HeadAndTail, Zenon DEF Text
  <2>3. uri # <<>> => g[Tail(regex)][Tail(uri)] \in SUBSET Seq(Text)
    BY <1>3, <2>2, Zenon DEF Ways
  <2> QED
    BY <2>1, <2>3, Zenon
<1> QED
  BY <1>1, <1>2, <1>3

(* The matches of a regular expression depend on shorter ones only.          *)
LEMMA MatchOfBelow ==
    ASSUME NEW regex \in Text, NEW g, NEW h
    PROVE  /\ (\A y \in Text : Lengths[y] < Lengths[regex] => g[y] \in Ways)
              => MatchOf(g, regex) \in Ways
           /\ (\A y \in Text : Lengths[y] < Lengths[regex] => g[y] = h[y])
              => MatchOf(g, regex) = MatchOf(h, regex)
<1>1. CASE regex = <<>>
  <2>1. MatchOf(g, regex) \in Ways
    BY <1>1, MatchOfTyped
  <2>2. MatchOf(g, regex) = MatchOf(h, regex)
    BY <1>1, Zenon DEF MatchOf
  <2> QED
    BY <2>1, <2>2
<1>2. CASE regex # <<>>
  <2>1. PICK tail \in Text : tail = Tail(regex) /\ Len(tail) = Len(regex) - 1 /\ Len(regex) \in Nat
    BY <1>2, HeadAndTail, Zenon DEF Text
  <2>2. Lengths[tail] < Lengths[regex]
    BY <2>1 DEF Lengths
  <2>3. g[tail] \in Ways => MatchOf(g, regex) \in Ways
    BY <2>1, MatchOfTyped, Zenon
  <2>4. g[tail] = h[tail] => MatchOf(g, regex) = MatchOf(h, regex)
    BY <1>2, <2>1, Zenon DEF MatchOf
  <2> QED
    BY <2>2, <2>3, <2>4, Zenon
<1> QED
  BY <1>1, <1>2

(* match is typed, and obeys its equation.                                   *)
LEMMA MatchEquation ==
    /\ match \in [Text -> Ways]
    /\ \A regex \in Text : match[regex] = MatchOf(match, regex)
<1> DEFINE D == [g \in [Text -> Ways] |-> [regex \in Text |-> MatchOf(g, regex)]]
           Typed == {regex \in Text : match[regex] \in Ways}
<1>1. D \in [[Text -> Ways] -> [Text -> Ways]]
  BY MatchOfBelow
<1>2. DependsBelow(D, Lengths, Text, Ways)
  BY MatchOfBelow DEF DependsBelow
<1>3. \A g \in [Text -> Ways] : D[g] = [regex \in Text |-> MatchOf(g, regex)]
  OBVIOUS
<1>4. Ways # {}
  <2>1. [uri \in Text |-> {}] \in Ways
    BY DEF Ways
  <2> QED
    BY <2>1
<1> HIDE DEF D
<1>5. HasFixedPoint(D, Text, Ways)
  BY <1>1, <1>2, <1>4, LengthsAreNat, RecursionExists
<1>6. match = [regex \in Text |-> MatchOf(match, regex)]
  <2>1. \E f \in [Text -> Ways] : f = [regex \in Text |-> MatchOf(f, regex)]
    <3>1. PICK f \in [Text -> Ways] : f = D[f]
      BY <1>5 DEF HasFixedPoint
    <3>2. f = [regex \in Text |-> MatchOf(f, regex)]
      BY <1>3, <3>1, Zenon
    <3> QED
      BY <3>2
  <2> QED
    BY <2>1 DEF match, MatchOf, GroupWays
<1>7. \A regex \in Text : match[regex] = MatchOf(match, regex)
  BY <1>6
<1>8. \A regex \in Text : (\A y \in Text : Lengths[y] < Lengths[regex] => y \in Typed)
                        => regex \in Typed
  BY <1>7, MatchOfBelow
<1> HIDE DEF Typed
<1>9. Text \subseteq Typed
  BY <1>8, LengthsAreNat, RankInduction
<1> QED
  BY <1>6, <1>7, <1>9 DEF Typed

(* What matches the empty expression.                                        *)
LEMMA MatchNone == \A uri \in Text : match[<<>>][uri] = IF uri = <<>> THEN {<<>>} ELSE {}
<1>1. <<>> \in Text
  BY TextFacts
<1>2. match[<<>>] = MatchOf(match, <<>>)
  BY <1>1, MatchEquation, Zenon
<1> QED
  BY <1>2, Zenon DEF MatchOf

(* A group takes the first part of the text, the rest of the expression      *)
(* matches the second.                                                       *)
ByGroup(r, uri, x) ==
    \E v, u \in Text : \E groups \in match[r][u] :
        uri = v \o u /\ GroupTakes(v) /\ x = <<v>> \o groups

(* A match of a group and what follows it.                                   *)
LEMMA MatchGroup ==
    ASSUME NEW r \in Text, NEW uri \in Text, NEW x
    PROVE  x \in match[<<Group>> \o r][uri] <=> ByGroup(r, uri, x)
<1>1. PICK regex \in Text : regex = <<Group>> \o r /\ regex # <<>> /\ Head(regex) = Group /\ Tail(regex) = r
  BY Prepended, BraceSymbols, Zenon DEF Text
<1>2. match[regex][uri] = GroupWays(match[r], uri)
  <2>1. MatchOf(match, regex)[uri] = GroupWays(match[Tail(regex)], uri)
    BY <1>1, Zenon DEF MatchOf
  <2> QED
    BY <1>1, <2>1, MatchEquation, Zenon
<1>3. ASSUME x \in GroupWays(match[r], uri)
      PROVE  \E v, u \in Text : \E groups \in match[r][u] :
                 uri = v \o u /\ GroupTakes(v) /\ x = <<v>> \o groups
  <2>1. PICK e \in {i \in 1..Len(uri) : GroupTakes(SubSeq(uri, 1, i))} :
           \E groups \in match[r][SubSeq(uri, e + 1, Len(uri))] : x = <<SubSeq(uri, 1, e)>> \o groups
    BY <1>3, Zenon DEF GroupWays
  <2>2. e \in 0..Len(uri) /\ GroupTakes(SubSeq(uri, 1, e))
    BY <2>1, TextLength
  <2> QED
    BY <2>1, <2>2, TextCut, Zenon
<1>4. ASSUME NEW v \in Text, NEW u \in Text, NEW groups \in match[r][u],
             uri = v \o u, GroupTakes(v), x = <<v>> \o groups
      PROVE  x \in GroupWays(match[r], uri)
  <2>1. /\ Len(v) \in Nat /\ Len(u) \in Nat /\ Len(uri) = Len(v) + Len(u)
        /\ SubSeq(uri, 1, Len(v)) = v /\ SubSeq(uri, Len(v) + 1, Len(uri)) = u
        /\ v # <<>> => Len(v) # 0
    BY <1>4, TextFacts, Zenon
  <2>2. v # <<>>
    BY <1>4 DEF GroupTakes
  <2>3. Len(v) \in 1..Len(uri)
    BY <2>1, <2>2
  <2>4. Len(v) \in {i \in 1..Len(uri) : GroupTakes(SubSeq(uri, 1, i))}
    BY <1>4, <2>1, <2>3, Zenon
  <2>5. x \in {<<SubSeq(uri, 1, Len(v))>> \o gs : gs \in match[r][SubSeq(uri, Len(v) + 1, Len(uri))]}
    BY <1>4, <2>1, Zenon
  <2> QED
    BY <2>4, <2>5, Zenon DEF GroupWays
<1>5. ASSUME ByGroup(r, uri, x) PROVE x \in GroupWays(match[r], uri)
  <2>1. PICK v, u \in Text : \E groups \in match[r][u] :
                uri = v \o u /\ GroupTakes(v) /\ x = <<v>> \o groups
    BY <1>5, Zenon DEF ByGroup
  <2> QED
    BY <1>4, <2>1, Zenon
<1>6. ASSUME x \in GroupWays(match[r], uri) PROVE ByGroup(r, uri, x)
  BY <1>3, <1>6, Zenon DEF ByGroup
<1> QED
  BY <1>1, <1>2, <1>5, <1>6, Zenon

(* Any other symbol takes one symbol.                                        *)
BySymbol(s, r, uri, x) ==
    \E c \in Symbols, u \in Text : uri = <<c>> \o u /\ s \in {c, "."} /\ x \in match[r][u]

(* A match of a symbol and what follows it.                                  *)
LEMMA MatchSymbol ==
    ASSUME NEW s \in Symbols \ {Group}, NEW r \in Text, NEW uri \in Text, NEW x
    PROVE  x \in match[<<s>> \o r][uri] <=> BySymbol(s, r, uri, x)
<1>1. PICK regex \in Text : regex = <<s>> \o r /\ regex # <<>> /\ Head(regex) = s /\ Tail(regex) = r
  BY Prepended, Zenon DEF Text
<1>2. match[regex][uri] = IF uri # <<>> /\ s \in {Head(uri), "."} THEN match[r][Tail(uri)] ELSE {}
  <2>1. MatchOf(match, regex)[uri] = IF uri # <<>> /\ Head(regex) \in {Head(uri), "."}
                                     THEN match[Tail(regex)][Tail(uri)] ELSE {}
    BY <1>1, Zenon DEF MatchOf
  <2> QED
    BY <1>1, <2>1, MatchEquation, Zenon
<1>3. ASSUME x \in match[regex][uri]
      PROVE  \E c \in Symbols, u \in Text : uri = <<c>> \o u /\ s \in {c, "."} /\ x \in match[r][u]
  <2>1. uri # <<>> /\ s \in {Head(uri), "."} /\ x \in match[r][Tail(uri)]
    BY <1>2, <1>3, Zenon
  <2>2. Head(uri) \in Symbols /\ Tail(uri) \in Text /\ uri = <<Head(uri)>> \o Tail(uri)
    BY <2>1, HeadAndTail, Zenon DEF Text
  <2> QED
    BY <2>1, <2>2, Zenon
<1>4. ASSUME NEW c \in Symbols, NEW u \in Text, uri = <<c>> \o u, s \in {c, "."}, x \in match[r][u]
      PROVE  x \in match[regex][uri]
  <2>1. uri # <<>> /\ Head(uri) = c /\ Tail(uri) = u
    BY <1>4, TextPrepended, Zenon
  <2> QED
    BY <1>2, <1>4, <2>1, Zenon
<1>5. ASSUME BySymbol(s, r, uri, x) PROVE x \in match[regex][uri]
  BY <1>4, <1>5, Zenon DEF BySymbol
<1>6. ASSUME x \in match[regex][uri] PROVE BySymbol(s, r, uri, x)
  BY <1>3, <1>6, Zenon DEF BySymbol
<1> QED
  BY <1>1, <1>5, <1>6, Zenon

(* A symbol is found where it is first.                                      *)
LEMMA FindIs ==
    ASSUME NEW text \in Text, NEW symbol \in Symbols, NEW from \in Nat \ {0}
    PROVE  /\ Missing(text, symbol, from) => Find(text, <<symbol>>, from) = 0
           /\ \A pos : FoundAt(text, symbol, from, pos) => Find(text, <<symbol>>, from) = pos
<1>1. PICK found : found = Find(text, <<symbol>>, from)
  OBVIOUS
<1>2. IF found = 0 THEN Missing(text, symbol, from) ELSE FoundAt(text, symbol, from, found)
  BY <1>1, FoundOrMissing, Zenon
<1>3. Missing(text, symbol, from) => found = 0
  BY <1>2 DEF Missing, FoundAt
<1>4. ASSUME NEW pos, FoundAt(text, symbol, from, pos) PROVE found = pos
  <2>1. found # 0
    BY <1>2, <1>4 DEF Missing, FoundAt
  <2>2. FoundAt(text, symbol, from, found)
    BY <1>2, <2>1
  <2>3. ~ (found < pos) /\ ~ (pos < found)
    BY <1>4, <2>2 DEF FoundAt
  <2> QED
    BY <1>4, <2>2, <2>3 DEF FoundAt
<1> QED
  BY <1>1, <1>3, <1>4, Zenon

(* Parts of a sequence behind a first element.                               *)
Shifted(s, t, m, n) ==
    /\ SubSeq(<<s>> \o t, m + 1, n + 1) = SubSeq(t, m, n)
    /\ SubSeq(<<s>> \o t, 1, n + 1) = <<s>> \o SubSeq(t, 1, n)

(* A part of a sequence with one more element before it.                     *)
LEMMA BehindFirst ==
    ASSUME NEW S, NEW s \in S, NEW t \in Seq(S), NEW m \in Nat \ {0}, NEW n \in Nat,
           m <= n + 1, n <= Len(t)
    PROVE  Shifted(s, t, m, n)
<1> DEFINE text == <<s>> \o t
           a == SubSeq(t, m, n)
           b == SubSeq(text, m + 1, n + 1)
           c == SubSeq(t, 1, n)
           d == SubSeq(text, 1, n + 1)
           e == <<s>> \o c
<1>1. /\ text \in Seq(S) /\ Len(text) = Len(t) + 1 /\ Len(t) \in Nat
      /\ text[1] = s /\ \A i \in 1..Len(t) : text[i + 1] = t[i]
  OBVIOUS
<1>2. a \in Seq(S) /\ Len(a) = n + 1 - m /\ \A i \in 1..(n + 1 - m) : a[i] = t[m + i - 1]
  OBVIOUS
<1>3. c \in Seq(S) /\ Len(c) = n /\ \A i \in 1..n : c[i] = t[i]
  BY <1>1
<1> HIDE DEF text, a, c
<1>4. b \in Seq(S) /\ Len(b) = n + 1 - m /\ \A i \in 1..(n + 1 - m) : b[i] = text[m + i]
  BY <1>1
<1>5. d \in Seq(S) /\ Len(d) = n + 1 /\ \A i \in 1..(n + 1) : d[i] = text[i]
  BY <1>1
<1>6. e \in Seq(S) /\ Len(e) = Len(c) + 1 /\ e[1] = s /\ \A i \in 1..Len(c) : e[i + 1] = c[i]
  BY <1>3
<1> HIDE DEF b, d, e
<1>7. \A i \in 1..(n + 1 - m) : a[i] = b[i]
  <2> SUFFICES ASSUME NEW i \in 1..(n + 1 - m) PROVE a[i] = b[i]
    OBVIOUS
  <2>1. m + i - 1 \in 1..Len(t) /\ (m + i - 1) + 1 = m + i
    BY <1>1
  <2> QED
    BY <1>1, <1>2, <1>4, <2>1
<1>8. a = b
  BY <1>2, <1>4, <1>7, SeqEqual
<1>9. \A i \in 1..(n + 1) : d[i] = e[i]
  <2>1. \A i \in 1..(n + 1) : i = 1 \/ (i - 1 \in 1..n /\ i = (i - 1) + 1)
    OBVIOUS
  <2>2. \A i \in 1..n : i + 1 \in 1..(n + 1) /\ i \in 1..Len(t) /\ 1 \in 1..(n + 1)
    BY <1>1
  <2>3. d[1] = s /\ e[1] = s
    BY <1>1, <1>5, <1>6
  <2>4. \A i \in 1..n : d[i + 1] = e[i + 1]
    BY <1>1, <1>3, <1>5, <1>6, <2>2
  <2> QED
    BY <2>1, <2>3, <2>4
<1>10. d = e
  BY <1>3, <1>5, <1>6, <1>9, SeqEqual
<1> QED
  BY <1>8, <1>10 DEF text, a, b, c, d, e, Shifted

(* What rewrite makes of a text.                                             *)
Rewritten(text, valid, regex, paramNames) ==
    /\ rewrite[text].valid = valid
    /\ rewrite[text].regex = regex
    /\ rewrite[text].paramNames = paramNames

(* One round of the loop, for a text whose next parameter is known.          *)
LEMMA RewriteRound ==
    ASSUME NEW text \in Text, NEW pos, NEW endPos,
           FoundAt(text, Open, 1, pos), FoundAt(text, Close, pos, endPos)
    PROVE  Rewritten(text, rewrite[SubSeq(text, endPos + 1, Len(text))].valid,
                     SubSeq(text, 1, pos - 1) \o <<Group>>
                        \o rewrite[SubSeq(text, endPos + 1, Len(text))].regex,
                     <<SubSeq(text, pos + 1, endPos - 1)>>
                        \o rewrite[SubSeq(text, endPos + 1, Len(text))].paramNames)
<1>1. 1 \in Nat \ {0} /\ pos \in Nat \ {0} /\ pos # 0 /\ endPos # 0
  BY DEF FoundAt
<1>2. Find(text, <<Open>>, 1) = pos
  BY <1>1, FindIs, BraceSymbols, Zenon
<1>3. Find(text, <<Close>>, pos) = endPos
  BY <1>1, FindIs, BraceSymbols, Zenon
<1>4. rewrite[text] = RewriteOf(rewrite, text)
  BY RewriteEquation, Zenon
<1>5. PICK v, r, p :
         /\ v = rewrite[SubSeq(text, endPos + 1, Len(text))].valid
         /\ r = SubSeq(text, 1, pos - 1) \o <<Group>> \o rewrite[SubSeq(text, endPos + 1, Len(text))].regex
         /\ p = <<SubSeq(text, pos + 1, endPos - 1)>>
                   \o rewrite[SubSeq(text, endPos + 1, Len(text))].paramNames
  BY Zenon
<1>6. rewrite[text] = [valid |-> v, regex |-> r, paramNames |-> p]
  BY <1>1, <1>2, <1>3, <1>4, <1>5, Zenon DEF RewriteOf
<1>7. Rewritten(text, v, r, p)
  BY <1>6 DEF Rewritten
<1> QED
  BY <1>5, <1>7, Zenon

(* A URI without braces is its own regular expression.                       *)
LEMMA RewriteNothing ==
    ASSUME NEW text \in Text, Missing(text, Open, 1)
    PROVE  Rewritten(text, TRUE, text, <<>>)
<1>1. 1 \in Nat \ {0}
  OBVIOUS
<1>2. Find(text, <<Open>>, 1) = 0
  BY <1>1, FindIs, BraceSymbols, Zenon
<1>3. rewrite[text] = RewriteOf(rewrite, text)
  BY RewriteEquation, Zenon
<1>4. rewrite[text] = [valid |-> TRUE, regex |-> text, paramNames |-> <<>>]
  BY <1>2, <1>3, Zenon DEF RewriteOf
<1> QED
  BY <1>4 DEF Rewritten

(* A brace that does not close makes the resource invalid.                   *)
LEMMA RewriteOpen ==
    ASSUME NEW text \in Text, NEW pos, FoundAt(text, Open, 1, pos), Missing(text, Close, pos)
    PROVE  Rewritten(text, FALSE, <<>>, <<>>)
<1>1. 1 \in Nat \ {0} /\ pos \in Nat \ {0} /\ pos # 0
  BY DEF FoundAt
<1>2. Find(text, <<Open>>, 1) = pos
  BY <1>1, FindIs, BraceSymbols, Zenon
<1>3. Find(text, <<Close>>, pos) = 0
  BY <1>1, FindIs, BraceSymbols, Zenon
<1>4. rewrite[text] = RewriteOf(rewrite, text)
  BY RewriteEquation, Zenon
<1>5. rewrite[text] = [valid |-> FALSE, regex |-> <<>>, paramNames |-> <<>>]
  BY <1>1, <1>2, <1>3, <1>4, Zenon DEF RewriteOf
<1> QED
  BY <1>5 DEF Rewritten

(* The three cases.                                                          *)
LEMMA RewriteCases ==
    ASSUME NEW text \in Text
    PROVE  \/ Missing(text, Open, 1)
           \/ \E pos : FoundAt(text, Open, 1, pos) /\ Missing(text, Close, pos)
           \/ \E pos, endPos : FoundAt(text, Open, 1, pos) /\ FoundAt(text, Close, pos, endPos)
<1>1. 1 \in Nat \ {0}
  OBVIOUS
<1>2. CASE Find(text, <<Open>>, 1) = 0
  BY <1>1, <1>2, FoundOrMissing, BraceSymbols, Zenon
<1>3. CASE Find(text, <<Open>>, 1) # 0
  <2>1. PICK pos : FoundAt(text, Open, 1, pos)
    BY <1>1, <1>3, FoundOrMissing, BraceSymbols, Zenon
  <2>2. pos \in Nat \ {0}
    BY <2>1 DEF FoundAt
  <2>3. Missing(text, Close, pos) \/ \E endPos : FoundAt(text, Close, pos, endPos)
    BY <2>2, FoundOrMissing, BraceSymbols, Zenon
  <2> QED
    BY <2>1, <2>3, Zenon
<1> QED
  BY <1>2, <1>3, Zenon

(* A symbol that begins no parameter stays.                                  *)
LEMMA RewriteLiteral ==
    ASSUME NEW s \in Symbols, s # Open, NEW t \in Text, rewrite[t].valid
    PROVE  Rewritten(<<s>> \o t, TRUE, <<s>> \o rewrite[t].regex, rewrite[t].paramNames)
<1> DEFINE text == <<s>> \o t
<1>1. /\ text \in Text /\ Len(text) = Len(t) + 1 /\ Len(t) \in Nat
      /\ text[1] = s /\ \A i \in 1..Len(t) : text[i + 1] = t[i]
  BY DEF Text
<1>2. \A m \in Nat \ {0}, n \in Nat : m <= n + 1 /\ n <= Len(t) => Shifted(s, t, m, n)
  BY BehindFirst, Zenon DEF Text
<1> HIDE DEF text
<1>3. \A i \in 1..Len(text) : i = 1 \/ (i - 1 \in 1..Len(t) /\ text[i] = t[i - 1])
  <2> SUFFICES ASSUME NEW i \in 1..Len(text), i # 1 PROVE i - 1 \in 1..Len(t) /\ text[i] = t[i - 1]
    OBVIOUS
  <2>1. i - 1 \in 1..Len(t) /\ (i - 1) + 1 = i
    BY <1>1
  <2> QED
    BY <1>1, <2>1
<1>4. CASE Missing(t, Open, 1)
  <2>1. Missing(text, Open, 1)
    BY <1>1, <1>3, <1>4 DEF Missing
  <2>2. Rewritten(text, TRUE, text, <<>>)
    BY <1>1, <2>1, RewriteNothing, Zenon
  <2>3. Rewritten(t, TRUE, t, <<>>)
    BY <1>4, RewriteNothing, Zenon
  <2>4. rewrite[t].regex = t /\ rewrite[t].paramNames = <<>>
    BY <2>3, Zenon DEF Rewritten
  <2> QED
    BY <2>2, <2>4, Zenon DEF text
<1>5. CASE \E pos : FoundAt(t, Open, 1, pos) /\ Missing(t, Close, pos)
  <2>1. Rewritten(t, FALSE, <<>>, <<>>)
    BY <1>5, RewriteOpen, Zenon
  <2>2. rewrite[t].valid = FALSE
    BY <2>1, Zenon DEF Rewritten
  <2> QED
    BY <2>2
<1>6. CASE \E pos, endPos : FoundAt(t, Open, 1, pos) /\ FoundAt(t, Close, pos, endPos)
  <2>1. PICK pos, endPos : FoundAt(t, Open, 1, pos) /\ FoundAt(t, Close, pos, endPos)
    BY <1>6, Zenon
  <2>2. /\ pos \in 1..Len(t) /\ endPos \in pos..Len(t) /\ t[pos] = Open /\ t[endPos] = Close
        /\ pos \in Nat \ {0} /\ endPos \in Nat \ {0}
    BY <2>1 DEF FoundAt
  <2>3. pos < endPos
    <3>1. pos # endPos
      BY <2>2, BraceSymbols, Zenon
    <3> QED
      BY <1>1, <2>2, <3>1
  <2>4. FoundAt(text, Open, 1, pos + 1)
    BY <1>1, <1>3, <2>1, <2>2 DEF FoundAt
  <2>5. FoundAt(text, Close, pos + 1, endPos + 1)
    <3>1. \A i \in (pos + 1)..endPos : i - 1 \in pos..(endPos - 1) /\ i # 1 /\ i \in 1..Len(text)
      BY <1>1, <2>2
    <3>2. \A i \in (pos + 1)..endPos : text[i] # Close
      BY <1>3, <2>1, <3>1 DEF FoundAt
    <3>3. (endPos + 1) - 1 = endPos /\ text[endPos + 1] = Close
          /\ endPos + 1 \in (pos + 1)..Len(text) /\ endPos + 1 \in Nat \ {0}
      BY <1>1, <2>2
    <3> QED
      BY <3>2, <3>3 DEF FoundAt
  <2> DEFINE before == SubSeq(t, 1, pos - 1)
             name == SubSeq(t, pos + 1, endPos - 1)
             after == SubSeq(t, endPos + 1, Len(t))
  <2>6. Rewritten(t, rewrite[after].valid, before \o <<Group>> \o rewrite[after].regex,
                  <<name>> \o rewrite[after].paramNames)
    BY <2>1, RewriteRound, Zenon
  <2>7. Rewritten(text, rewrite[SubSeq(text, (endPos + 1) + 1, Len(text))].valid,
                  SubSeq(text, 1, (pos + 1) - 1) \o <<Group>>
                     \o rewrite[SubSeq(text, (endPos + 1) + 1, Len(text))].regex,
                  <<SubSeq(text, (pos + 1) + 1, (endPos + 1) - 1)>>
                     \o rewrite[SubSeq(text, (endPos + 1) + 1, Len(text))].paramNames)
    BY <1>1, <2>4, <2>5, RewriteRound, Zenon
  <2>8. SubSeq(text, (endPos + 1) + 1, Len(text)) = after
    <3>1. endPos + 1 \in Nat \ {0} /\ endPos + 1 <= Len(t) + 1
      BY <1>1, <2>2
    <3>2. SubSeq(text, (endPos + 1) + 1, Len(t) + 1) = after /\ Len(t) <= Len(t)
      <4>1. Len(t) <= Len(t)
        BY <1>1
      <4> QED
        BY <1>1, <1>2, <3>1, <4>1, Zenon DEF Shifted, text
    <3> QED
      BY <1>1, <3>2, Zenon
  <2>9. SubSeq(text, 1, (pos + 1) - 1) = <<s>> \o before
    <3>1. 1 \in Nat \ {0} /\ pos - 1 \in Nat /\ 1 <= (pos - 1) + 1 /\ pos - 1 <= Len(t)
          /\ (pos + 1) - 1 = (pos - 1) + 1
      BY <1>1, <2>2
    <3> QED
      BY <1>2, <3>1, Zenon DEF Shifted, text
  <2>10. SubSeq(text, (pos + 1) + 1, (endPos + 1) - 1) = name
    <3>1. pos + 1 \in Nat \ {0} /\ endPos - 1 \in Nat /\ pos + 1 <= (endPos - 1) + 1
          /\ endPos - 1 <= Len(t) /\ (endPos + 1) - 1 = (endPos - 1) + 1
      BY <1>1, <2>2, <2>3
    <3> QED
      BY <1>2, <3>1, Zenon DEF Shifted, text
  <2>11. Braces(t, pos, endPos)
    BY <1>1, <2>1, <2>2, <2>3 DEF Braces, FoundAt
  <2>12. before \in Text /\ after \in Text
    BY <2>11, RoundParts, Zenon
  <2> HIDE DEF before, name, after
  <2>13. /\ rewrite[t].valid = rewrite[after].valid
         /\ rewrite[t].regex = before \o <<Group>> \o rewrite[after].regex
         /\ rewrite[t].paramNames = <<name>> \o rewrite[after].paramNames
    BY <2>6, Zenon DEF Rewritten
  <2>14. rewrite[after].regex \in Text /\ rewrite[after].valid \in BOOLEAN
    BY <2>12, RewriteEquation DEF Resources
  <2>15. PICK r \in Text : r = rewrite[after].regex
    BY <2>14
  <2>16. (<<s>> \o before) \o <<Group>> \o r = <<s>> \o (before \o <<Group>> \o r)
    <3>1. <<s>> \in Text /\ <<Group>> \in Text
      BY TextFacts, BraceSymbols, Zenon
    <3>2. (<<s>> \o before) \o <<Group>> = <<s>> \o (before \o <<Group>>) /\ before \o <<Group>> \in Text
      <4>1. Assoc(<<s>>, before, <<Group>>) /\ before \o <<Group>> \in Text
        BY <2>12, <3>1, Joined, TextAssociates, Zenon
      <4> QED
        BY <4>1, Zenon DEF Assoc
    <3>3. (<<s>> \o (before \o <<Group>>)) \o r = <<s>> \o ((before \o <<Group>>) \o r)
      <4>1. Assoc(<<s>>, before \o <<Group>>, r)
        BY <3>1, <3>2, TextAssociates, Zenon
      <4> QED
        BY <4>1, Zenon DEF Assoc
    <3> QED
      BY <3>2, <3>3, Zenon
  <2>17. Rewritten(text, rewrite[t].valid, <<s>> \o rewrite[t].regex, rewrite[t].paramNames)
    BY <2>7, <2>8, <2>9, <2>10, <2>13, <2>15, <2>16, Zenon DEF Rewritten
  <2>18. rewrite[t].valid = TRUE
    BY <2>13, <2>14
  <2> QED
    BY <2>17, <2>18, Zenon DEF text
<1> QED
  BY <1>4, <1>5, <1>6, RewriteCases, Zenon

(* The parts of a parameter and what comes behind it.                        *)
IsEnclosed(text, o, name, c, t, n) ==
    /\ n \in Nat /\ Len(t) \in Nat /\ Len(text) = n + 2 + Len(t)
    /\ text[1] = o /\ text[n + 2] = c /\ \A i \in 1..n : text[i + 1] = name[i]
    /\ SubSeq(text, 2, n + 1) = name
    /\ SubSeq(text, n + 3, Len(text)) = t
    /\ SubSeq(text, 1, 0) = <<>>

(* Where things are in "{name}...".                                          *)
LEMMA Enclosed ==
    ASSUME NEW S, NEW o \in S, NEW c \in S, NEW name \in Seq(S), NEW t \in Seq(S),
           NEW text, text = (<<o>> \o name \o <<c>>) \o t, NEW n, n = Len(name)
    PROVE  text \in Seq(S) /\ IsEnclosed(text, o, name, c, t, n)
<1> DEFINE a == <<o>> \o name
           b == a \o <<c>>
           d == b \o t
           e == SubSeq(text, 2, n + 1)
<1>1. a \in Seq(S) /\ Len(a) = n + 1 /\ n \in Nat /\ a[1] = o /\ \A i \in 1..n : a[i + 1] = name[i]
  OBVIOUS
<1> HIDE DEF a
<1>2. /\ b \in Seq(S) /\ Len(b) = n + 2 /\ b[n + 2] = c
      /\ \A i \in 1..(n + 1) : b[i] = a[i]
  BY <1>1
<1> HIDE DEF b
<1>3. /\ d \in Seq(S) /\ Len(d) = n + 2 + Len(t) /\ Len(t) \in Nat
      /\ \A i \in 1..(n + 2) : d[i] = b[i]
  <2>1. b \in Seq(S)
    BY <1>2
  <2>2. d \in Seq(S) /\ Len(d) = Len(b) + Len(t) /\ Len(t) \in Nat /\ \A i \in 1..Len(b) : d[i] = b[i]
    BY <2>1
  <2> HIDE DEF d
  <2> QED
    BY <1>1, <1>2, <2>2
<1>4. SubSeq(d, Len(b) + 1, Len(d)) = t
  BY <1>2, CutJoined
<1>5. text = d
  BY DEF a, b
<1> HIDE DEF d
<1>6. 1 \in 1..(n + 1) /\ 1 \in 1..(n + 2) /\ n + 2 \in 1..(n + 2)
      /\ \A i \in 1..n : i + 1 \in 1..(n + 1) /\ i + 1 \in 1..(n + 2)
  BY <1>1
<1>7. text[1] = o /\ text[n + 2] = c /\ \A i \in 1..n : text[i + 1] = name[i]
  BY <1>1, <1>2, <1>3, <1>5, <1>6
<1>8. SubSeq(text, n + 3, Len(text)) = t
  <2>1. Len(b) + 1 = n + 3
    BY <1>1, <1>2
  <2> QED
    BY <1>4, <1>5, <2>1, Zenon
<1>9. e \in Seq(S) /\ Len(e) = n /\ \A i \in 1..n : e[i] = text[i + 1]
  BY <1>1, <1>3, <1>5
<1> HIDE DEF e
<1>10. e = name
  BY <1>7, <1>9, SeqEqual
<1>11. SubSeq(text, 1, 0) = <<>>
  BY <1>3, <1>5
<1> QED
  BY <1>1, <1>3, <1>5, <1>7, <1>8, <1>10, <1>11 DEF e, IsEnclosed

(* A parameter becomes a group and a name.                                   *)
LEMMA RewriteParam ==
    ASSUME NEW name \in Text, \A i \in 1..Len(name) : name[i] # Close, NEW t \in Text
    PROVE  Rewritten((<<Open>> \o name \o <<Close>>) \o t, rewrite[t].valid,
                     <<Group>> \o rewrite[t].regex, <<name>> \o rewrite[t].paramNames)
<1>1. PICK text : text = (<<Open>> \o name \o <<Close>>) \o t
  OBVIOUS
<1>2. PICK n : n = Len(name)
  OBVIOUS
<1>3. /\ text \in Text /\ n \in Nat /\ Len(t) \in Nat /\ Len(text) = n + 2 + Len(t)
      /\ text[1] = Open /\ text[n + 2] = Close /\ \A i \in 1..n : text[i + 1] = name[i]
      /\ SubSeq(text, 2, n + 1) = name
      /\ SubSeq(text, n + 3, Len(text)) = t
      /\ SubSeq(text, 1, 0) = <<>>
  <2>1. text \in Text /\ IsEnclosed(text, Open, name, Close, t, n)
    BY <1>1, <1>2, Enclosed, BraceSymbols, Zenon DEF Text
  <2> QED
    BY <2>1, Zenon DEF IsEnclosed
<1>4. FoundAt(text, Open, 1, 1)
  BY <1>3 DEF FoundAt
<1>5. FoundAt(text, Close, 1, n + 2)
  <2>1. \A i \in 1..(n + 1) : i = 1 \/ (i - 1 \in 1..n /\ (i - 1) + 1 = i)
    BY <1>3
  <2>2. \A i \in 1..(n + 1) : text[i] # Close
    BY <1>2, <1>3, <2>1, BraceSymbols
  <2>3. (n + 2) - 1 = n + 1 /\ n + 2 \in 1..Len(text) /\ n + 2 \in Nat \ {0}
    BY <1>3
  <2> QED
    BY <1>3, <2>2, <2>3 DEF FoundAt
<1>6. Rewritten(text, rewrite[SubSeq(text, (n + 2) + 1, Len(text))].valid,
                SubSeq(text, 1, 1 - 1) \o <<Group>>
                   \o rewrite[SubSeq(text, (n + 2) + 1, Len(text))].regex,
                <<SubSeq(text, 1 + 1, (n + 2) - 1)>>
                   \o rewrite[SubSeq(text, (n + 2) + 1, Len(text))].paramNames)
  BY <1>3, <1>4, <1>5, RewriteRound, Zenon
<1>7. (n + 2) + 1 = n + 3 /\ 1 - 1 = 0 /\ 1 + 1 = 2 /\ (n + 2) - 1 = n + 1
  BY <1>3
<1>8. <<>> \o <<Group>> = <<Group>>
  BY TextFacts, BraceSymbols, Zenon
<1>9. SubSeq(text, 1, 1 - 1) \o <<Group>> = <<Group>>
  BY <1>3, <1>7, <1>8, Zenon
<1> QED
  BY <1>1, <1>3, <1>6, <1>7, <1>9, Zenon

(* What an opening brace without a closing one leads to.                     *)
LEMMA RewriteMalformed ==
    ASSUME NEW text \in Text, LacksBrace(text)
    PROVE  rewrite[text].valid = FALSE
<1> DEFINE T == {x \in Text : LacksBrace(x) => rewrite[x].valid = FALSE}
<1>1. ASSUME NEW x \in Text, \A y \in Text : Lengths[y] < Lengths[x] => y \in T, LacksBrace(x)
      PROVE  rewrite[x].valid = FALSE
  <2>1. PICK i \in 1..Len(x) : x[i] = Open /\ \A j \in i..Len(x) : x[j] # Close
    BY <1>1 DEF LacksBrace, Text
  <2>2. CASE Missing(x, Open, 1)
    BY <2>1, <2>2 DEF Missing
  <2>3. CASE \E pos : FoundAt(x, Open, 1, pos) /\ Missing(x, Close, pos)
    BY <2>3, RewriteOpen, Zenon DEF Rewritten
  <2>4. CASE \E pos, endPos : FoundAt(x, Open, 1, pos) /\ FoundAt(x, Close, pos, endPos)
    <3>1. PICK pos, endPos : FoundAt(x, Open, 1, pos) /\ FoundAt(x, Close, pos, endPos)
      BY <2>4, Zenon
    <3>2. PICK n \in Nat : n = Len(x)
      BY TextLength
    <3>3. endPos \in 1..n /\ x[endPos] = Close /\ i \in 1..n
      BY <2>1, <3>1, <3>2 DEF FoundAt
    <3>4. endPos < i
      BY <2>1, <3>2, <3>3
    <3> DEFINE after == SubSeq(x, endPos + 1, n)
    <3>5. /\ after \in Text /\ Len(after) = n - endPos
          /\ \A k \in 1..(n - endPos) : after[k] = x[endPos + k]
      BY <3>2, <3>3 DEF Text
    <3> HIDE DEF after
    <3>6. LacksBrace(after)
      <4>1. i - endPos \in 1..(n - endPos) /\ endPos + (i - endPos) = i
        BY <3>3, <3>4
      <4>2. after[i - endPos] = Open
        BY <2>1, <3>5, <4>1
      <4>3. \A j \in (i - endPos)..(n - endPos) : j \in 1..(n - endPos) /\ endPos + j \in i..n
        BY <3>3, <3>4
      <4>4. \A j \in (i - endPos)..(n - endPos) : after[j] # Close
        BY <2>1, <3>2, <3>5, <4>3
      <4>5. DOMAIN after = 1..(n - endPos)
        BY <3>5 DEF Text
      <4> QED
        BY <3>5, <4>1, <4>2, <4>4, <4>5 DEF LacksBrace
    <3>7. Lengths[after] < Lengths[x]
      BY <3>2, <3>3, <3>5 DEF Lengths
    <3>8. rewrite[after].valid = FALSE
      BY <1>1, <3>5, <3>6, <3>7
    <3>9. rewrite[x].valid = rewrite[SubSeq(x, endPos + 1, Len(x))].valid
      BY <3>1, RewriteRound, Zenon DEF Rewritten
    <3> QED
      BY <3>2, <3>8, <3>9, Zenon DEF after
  <2> QED
    BY <2>2, <2>3, <2>4, RewriteCases, Zenon
<1>2. \A x \in Text : (\A y \in Text : Lengths[y] < Lengths[x] => y \in T) => x \in T
  BY <1>1
<1> HIDE DEF T
<1>3. Text \subseteq T
  BY <1>2, LengthsAreNat, RankInduction
<1> QED
  BY <1>3 DEF T

(* What a request may become when arguments are set.                         *)
WithArguments(request) ==
    [method : {request.method}, uri : {request.uri}, args : Arguments,
     headers : {request.headers}, body : {request.body}]

-----------------------------------------------------------------------------
(* The arguments of a request                                                *)

(* A request as far as its arguments go.                                     *)
IsRequest(request) == request \in WithArguments(request)

(* What setArg changes.                                                      *)
LEMMA ArgumentSet ==
    ASSUME NEW request, NEW r \in WithArguments(request), NEW name \in Text, NEW value \in Text
    PROVE  /\ setArg(r, name, value) \in WithArguments(request)
           /\ setArg(r, name, value).args = Put(r.args, name, value)
           /\ DOMAIN setArg(r, name, value).args = DOMAIN r.args \cup {name}
           /\ \A n \in DOMAIN r.args \cup {name} :
                 setArg(r, name, value).args[n] = IF n = name THEN value ELSE r.args[n]
<1>1. PICK names \in SUBSET Text : r.args \in [names -> Text]
  BY DEF WithArguments, Arguments
<1>2. Put(r.args, name, value) \in [names \cup {name} -> Text]
  BY <1>1 DEF Put
<1>3. Put(r.args, name, value) \in Arguments
  BY <1>2 DEF Arguments
<1>4. setArg(r, name, value) \in WithArguments(request)
  BY <1>3 DEF setArg, WithArguments
<1>5. setArg(r, name, value).args = Put(r.args, name, value)
  BY DEF setArg, WithArguments
<1> QED
  BY <1>4, <1>5 DEF Put

(* The loop over the groups by its partial results.                          *)
Sets(partial, request, names, groups) ==
    /\ partial[0] = request
    /\ \A i \in 1..Len(groups) : partial[i] = setArg(partial[i - 1], names[i], groups[i])
    /\ SetArgs(request, names, groups) = partial[Len(groups)]

(* The loop over the groups by its defining equation.                        *)
SetArgsOf(f, i, request, names, groups) ==
    IF i = 0 THEN request ELSE setArg(f[i - 1], names[i], groups[i])

(* Requests with the first arguments set exist, for each number of them.     *)
LEMMA SetArgsPartial ==
    ASSUME NEW request, IsRequest(request), NEW names \in Seq(Text), NEW groups \in Seq(Text),
           Len(groups) = Len(names)
    PROVE  \E partial \in [0..Len(groups) -> WithArguments(request)] :
              Sets(partial, request, names, groups)
<1> DEFINE V == WithArguments(request)
           I == 0..Len(groups)
           D == [g \in [I -> V] |-> [i \in I |-> SetArgsOf(g, i, request, names, groups)]]
           rank == [i \in I |-> i]
           after == CHOOSE f : f = [i \in I |-> SetArgsOf(f, i, request, names, groups)]
           Typed == {i \in I : after[i] \in V}
<1>1. Len(groups) \in Nat /\ I \subseteq Nat /\ rank \in [I -> Nat]
  OBVIOUS
<1>2. request \in V
  BY DEF IsRequest
<1>3. \A i \in I : i # 0 => i - 1 \in I /\ rank[i - 1] < rank[i] /\ names[i] \in Text /\ groups[i] \in Text
  BY <1>1
<1> HIDE DEF rank, I
<1>4. ASSUME NEW g, NEW i \in I, \A j \in I : rank[j] < rank[i] => g[j] \in V
      PROVE  SetArgsOf(g, i, request, names, groups) \in V
  <2>1. CASE i = 0
    BY <1>2, <2>1 DEF SetArgsOf
  <2>2. CASE i # 0
    <3>1. g[i - 1] \in V /\ names[i] \in Text /\ groups[i] \in Text
      BY <1>3, <1>4, <2>2
    <3> HIDE DEF V
    <3>2. setArg(g[i - 1], names[i], groups[i]) \in V
      BY <3>1, ArgumentSet, Zenon DEF V
    <3> QED
      BY <2>2, <3>2, Zenon DEF SetArgsOf
  <2> QED
    BY <2>1, <2>2
<1>5. ASSUME NEW g, NEW h, NEW i \in I, \A j \in I : rank[j] < rank[i] => g[j] = h[j]
      PROVE  SetArgsOf(g, i, request, names, groups) = SetArgsOf(h, i, request, names, groups)
  <2>1. i # 0 => g[i - 1] = h[i - 1]
    BY <1>3, <1>5
  <2> QED
    BY <2>1, Zenon DEF SetArgsOf
<1> HIDE DEF V
<1>6. D \in [[I -> V] -> [I -> V]]
  BY <1>4
<1>7. DependsBelow(D, rank, I, V)
  BY <1>5 DEF DependsBelow
<1>8. \A g \in [I -> V] : D[g] = [i \in I |-> SetArgsOf(g, i, request, names, groups)]
  OBVIOUS
<1> HIDE DEF D
<1>9. HasFixedPoint(D, I, V)
  BY <1>1, <1>2, <1>6, <1>7, RecursionExists
<1>10. \E f : f = [i \in I |-> SetArgsOf(f, i, request, names, groups)]
  <2>1. PICK f \in [I -> V] : f = D[f]
    BY <1>9 DEF HasFixedPoint
  <2>2. f = [i \in I |-> SetArgsOf(f, i, request, names, groups)]
    BY <1>8, <2>1, Zenon
  <2> QED
    BY <2>2
<1>11. after = [i \in I |-> SetArgsOf(after, i, request, names, groups)]
  BY <1>10
<1>12. SetArgs(request, names, groups) = after[Len(groups)]
  BY DEF SetArgs, SetArgsOf, I
<1> HIDE DEF after
<1>13. \A i \in I : after[i] = SetArgsOf(after, i, request, names, groups)
  BY <1>11
<1>14. \A i \in I : (\A j \in I : rank[j] < rank[i] => j \in Typed) => i \in Typed
  BY <1>4, <1>13
<1> HIDE DEF Typed
<1>15. I \subseteq Typed
  BY <1>1, <1>14, RankInduction
<1>16. after \in [I -> V]
  BY <1>11, <1>15 DEF Typed
<1>17. Sets(after, request, names, groups)
  <2>1. 0 \in I /\ \A i \in 1..Len(groups) : i \in I /\ i # 0
    BY <1>1 DEF I
  <2> QED
    BY <1>12, <1>13, <2>1, Zenon DEF Sets, SetArgsOf
<1> QED
  BY <1>16, <1>17 DEF V, I

(* No groups, no arguments.                                                  *)
LEMMA SetArgsNone ==
    ASSUME NEW request, IsRequest(request)
    PROVE  SetArgs(request, <<>>, <<>>) = request
<1>1. <<>> \in Seq(Text) /\ Len(<<>>) = 0
  BY EmptySeq
<1>2. PICK p : Sets(p, request, <<>>, <<>>)
  BY <1>1, SetArgsPartial, Zenon
<1> QED
  BY <1>1, <1>2, Zenon DEF Sets

(* Setting the first argument first.                                         *)
LEMMA SetArgsFirst ==
    ASSUME NEW request, IsRequest(request), NEW names \in Seq(Text), NEW groups \in Seq(Text),
           Len(groups) = Len(names), NEW name \in Text, NEW value \in Text
    PROVE  SetArgs(request, <<name>> \o names, <<value>> \o groups) =
              SetArgs(setArg(request, name, value), names, groups)
<1> DEFINE names2 == <<name>> \o names
           groups2 == <<value>> \o groups
           second == setArg(request, name, value)
<1>1. /\ names2 \in Seq(Text) /\ Len(names2) = Len(names) + 1 /\ Len(names) \in Nat
      /\ names2[1] = name /\ \A i \in 1..Len(names) : names2[i + 1] = names[i]
  BY Prepended
<1>2. /\ groups2 \in Seq(Text) /\ Len(groups2) = Len(groups) + 1
      /\ groups2[1] = value /\ \A i \in 1..Len(groups) : groups2[i + 1] = groups[i]
  BY Prepended
<1> HIDE DEF names2, groups2
<1>3. second \in WithArguments(request)
  BY ArgumentSet, Zenon DEF IsRequest
<1>4. IsRequest(second)
  BY <1>3 DEF IsRequest, WithArguments
<1> HIDE DEF second
<1>5. PICK n \in Nat : n = Len(groups) /\ n = Len(names) /\ n + 1 = Len(groups2) /\ n + 1 = Len(names2)
  BY <1>1, <1>2
<1>6. PICK p : Sets(p, second, names, groups)
  BY <1>4, SetArgsPartial, Zenon
<1>7. PICK q : Sets(q, request, names2, groups2)
  BY <1>1, <1>2, <1>5, SetArgsPartial, Zenon
<1>8. \A i \in 1..n : /\ i - 1 \in 0..n /\ i - 1 \in Nat /\ i - 1 < i /\ (i - 1) + 1 = i
                      /\ i + 1 \in 1..(n + 1) /\ (i + 1) - 1 = i
  OBVIOUS
<1>9. p[0] = second /\ q[1] = second
  <2>1. 1 \in 1..Len(groups2) /\ 1 - 1 = 0
    BY <1>5
  <2>2. q[1] = setArg(q[1 - 1], names2[1], groups2[1]) /\ q[0] = request
    BY <1>7, <2>1, Zenon DEF Sets
  <2>3. p[0] = second
    BY <1>6, Zenon DEF Sets
  <2> QED
    BY <1>1, <1>2, <2>1, <2>2, <2>3, Zenon DEF second
<1>10. \A i \in 1..n : /\ q[i + 1] = setArg(q[i], names[i], groups[i])
                       /\ p[i] = setArg(p[i - 1], names[i], groups[i])
  <2> SUFFICES ASSUME NEW i \in 1..n
               PROVE  /\ q[i + 1] = setArg(q[i], names[i], groups[i])
                      /\ p[i] = setArg(p[i - 1], names[i], groups[i])
    OBVIOUS
  <2>1. p[i] = setArg(p[i - 1], names[i], groups[i])
    BY <1>5, <1>6, Zenon DEF Sets
  <2>2. i + 1 \in 1..Len(groups2) /\ (i + 1) - 1 = i
    BY <1>5, <1>8
  <2>3. q[i + 1] = setArg(q[(i + 1) - 1], names2[i + 1], groups2[i + 1])
    BY <1>7, <2>2, Zenon DEF Sets
  <2>4. names2[i + 1] = names[i] /\ groups2[i + 1] = groups[i]
    BY <1>1, <1>2, <1>5
  <2> QED
    BY <2>1, <2>2, <2>3, <2>4, Zenon
<1> DEFINE Same == {i \in Nat : i \in 0..n => q[i + 1] = p[i]}
<1>11. ASSUME NEW i \in Nat, \A j \in Nat : j < i => j \in Same PROVE i \in Same
  <2>1. CASE i = 0
    BY <1>9, <2>1
  <2>2. CASE i \in 1..n
    <3>1. q[i] = p[i - 1]
      BY <1>8, <1>11, <2>2
    <3> QED
      BY <1>10, <2>2, <3>1
  <2>3. CASE i \notin 0..n
    BY <2>3
  <2>4. i = 0 \/ i \in 1..n \/ i \notin 0..n
    OBVIOUS
  <2> HIDE DEF Same
  <2> QED
    BY <2>1, <2>2, <2>3, <2>4
<1> HIDE DEF Same
<1>12. n \in Same
  BY <1>11, StrongInduction
<1>13. q[n + 1] = p[n]
  BY <1>12 DEF Same
<1>14. SetArgs(request, names2, groups2) = q[n + 1] /\ SetArgs(second, names, groups) = p[n]
  BY <1>5, <1>6, <1>7, Zenon DEF Sets
<1> QED
  BY <1>13, <1>14 DEF names2, groups2, second

(* A sequence that begins with a and goes on as s.                           *)
LEMMA ConsIs ==
    ASSUME NEW S, NEW a \in S, NEW s \in Seq(S), NEW m \in Seq(S), Len(m) = Len(s) + 1,
           m[1] = a, \A i \in 1..Len(s) : m[i + 1] = s[i]
    PROVE  m = <<a>> \o s
<1> DEFINE t == <<a>> \o s
<1>1. /\ t \in Seq(S) /\ Len(t) = Len(s) + 1 /\ Len(s) \in Nat
      /\ t[1] = a /\ \A i \in 1..Len(s) : t[i + 1] = s[i]
  OBVIOUS
<1> HIDE DEF t
<1>2. \A i \in 1..Len(m) : i = 1 \/ (i - 1 \in 1..Len(s) /\ (i - 1) + 1 = i)
  BY <1>1
<1>3. \A i \in 1..Len(m) : m[i] = t[i]
  BY <1>1, <1>2
<1>4. Len(m) = Len(t)
  BY <1>1
<1>5. m = t
  BY <1>1, <1>3, <1>4, SeqEqual
<1> QED
  BY <1>5 DEF t

(* A route is empty, or a first part and the rest.                           *)
Parts == [param : BOOLEAN, text : Text]

-----------------------------------------------------------------------------
(* Routes, part by part                                                      *)

(* A part of a route: the name of a parameter has no brace that closes, and  *)
(* a symbol is none that opens.                                              *)
IsPart(part) == IF part.param THEN \A i \in 1..Len(part.text) : part.text[i] # Close
                ELSE Len(part.text) = 1 /\ part.text[1] # Open

(* The route begins with the part, and goes on with the others.              *)
Joins(route, part, others) ==
    /\ route \in Seq(Parts) /\ others \in Seq(Parts) /\ part \in Parts /\ IsPart(part)
    /\ IsRoute(others)
    /\ Len(others) \in Nat /\ Len(route) = Len(others) + 1
    /\ route[1] = part /\ \A i \in 1..Len(others) : route[i + 1] = others[i]

(* A route has no parts, or begins with one.                                 *)
LEMMA RouteCases ==
    ASSUME NEW route, IsRoute(route)
    PROVE  route = <<>> \/ \E part, others : Joins(route, part, others)
<1> DEFINE n == Len(route)
           part == route[1]
           others == [i \in 1..(n - 1) |-> route[i + 1]]
<1>1. /\ route \in Seq(Parts) /\ n \in Nat /\ DOMAIN route = 1..n
      /\ \A i \in 1..n : route[i] \in Parts
  <2>1. route \in Seq(Parts)
    BY Zenon DEF IsRoute, Parts
  <2> HIDE DEF others
  <2> QED
    BY <2>1
<1>2. \A i \in 1..n : IsPart(route[i])
  <2> SUFFICES ASSUME NEW i \in 1..n PROVE IsPart(route[i])
    OBVIOUS
  <2>1. PICK p \in Parts : p = route[i]
    BY <1>1
  <2>2. IF p.param THEN Close \notin ToSet(p.text) ELSE Len(p.text) = 1 /\ p.text[1] # Open
    BY <1>1, <2>1 DEF IsRoute
  <2>3. p.text \in Text /\ p.param \in BOOLEAN
    BY DEF Parts
  <2>4. DOMAIN p.text = 1..Len(p.text)
    BY <2>3 DEF Text
  <2> QED
    BY <2>1, <2>2, <2>4 DEF IsPart, ToSet
<1>3. CASE n = 0
  <2>1. route = <<>>
    BY <1>1, <1>3
  <2> QED
    BY <2>1
<1>4. CASE n # 0
  <2>1. n - 1 \in Nat /\ 1 \in 1..n /\ \A i \in 1..(n - 1) : i + 1 \in 1..n
    BY <1>1, <1>4
  <2>2. others \in Seq(Parts) /\ Len(others) = n - 1 /\ DOMAIN others = 1..(n - 1)
        /\ \A i \in 1..(n - 1) : others[i] = route[i + 1]
    BY <1>1, <2>1
  <2> HIDE DEF others
  <2>3. IsRoute(others)
    <3>1. \A i \in 1..(n - 1) : IF route[i + 1].param THEN Close \notin ToSet(route[i + 1].text)
                                ELSE Len(route[i + 1].text) = 1 /\ route[i + 1].text[1] # Open
      BY <1>1, <2>1, Zenon DEF IsRoute
    <3> QED
      BY <2>2, <3>1 DEF IsRoute, Parts
  <2>4. Joins(route, part, others)
    BY <1>1, <1>2, <2>1, <2>2, <2>3 DEF Joins
  <2> QED
    BY <2>4
<1> QED
  BY <1>3, <1>4

(* A parameter counts as the first of the route.                             *)
ParamsFirst(part) == IF part.param THEN {1} ELSE {}

(* The positions of the parameters: the first, and those of the others,      *)
(* moved by one.                                                             *)
LEMMA ParamsSplit ==
    ASSUME NEW route, NEW part, NEW others, Joins(route, part, others)
    PROVE  /\ ParamsOf(route) = ParamsFirst(part) \cup {i + 1 : i \in ParamsOf(others)}
           /\ ParamsOf(others) \subseteq 1..Len(others) /\ ParamsOf(route) \subseteq 1..Len(route)
           /\ \A i \in ParamsOf(others) : i + 1 \in ParamsOf(route)
           /\ DOMAIN route = 1..Len(route) /\ DOMAIN others = 1..Len(others)
<1>1. /\ Len(others) \in Nat /\ Len(route) = Len(others) + 1
      /\ route[1] = part /\ \A i \in 1..Len(others) : route[i + 1] = others[i]
  BY DEF Joins
<1>2. DOMAIN route = 1..Len(route) /\ DOMAIN others = 1..Len(others)
  <2>1. route \in Seq(Parts) /\ others \in Seq(Parts)
    BY DEF Joins
  <2> QED
    BY <2>1
<1>3. \A i \in 1..Len(route) : i = 1 \/ (i - 1 \in 1..Len(others) /\ (i - 1) + 1 = i)
  BY <1>1
<1>4. 1 \in 1..Len(route) /\ \A i \in 1..Len(others) : i + 1 \in 1..Len(route)
  BY <1>1
<1>5. ParamsOf(others) \subseteq 1..Len(others) /\ ParamsOf(route) \subseteq 1..Len(route)
  BY <1>2 DEF ParamsOf
<1>6. \A i \in ParamsOf(others) : i + 1 \in ParamsOf(route)
  BY <1>1, <1>2, <1>4 DEF ParamsOf
<1>7. part.param => 1 \in ParamsOf(route)
  BY <1>1, <1>2, <1>4 DEF ParamsOf
<1>8. ASSUME NEW i \in ParamsOf(route)
      PROVE  i \in ParamsFirst(part) \cup {j + 1 : j \in ParamsOf(others)}
  <2>1. i \in 1..Len(route) /\ route[i].param
    BY <1>2 DEF ParamsOf
  <2>2. CASE i = 1
    BY <1>1, <2>1, <2>2 DEF ParamsFirst
  <2>3. CASE i # 1
    <3>1. i - 1 \in 1..Len(others) /\ (i - 1) + 1 = i
      BY <1>3, <2>1, <2>3
    <3>2. i - 1 \in ParamsOf(others)
      BY <1>1, <1>2, <2>1, <3>1 DEF ParamsOf
    <3> QED
      BY <3>1, <3>2
  <2> QED
    BY <2>2, <2>3
<1>9. ParamsOf(route) = ParamsFirst(part) \cup {i + 1 : i \in ParamsOf(others)}
  BY <1>6, <1>7, <1>8 DEF ParamsFirst
<1> QED
  BY <1>2, <1>5, <1>6, <1>9

(* The text of a route by its parts.                                         *)
Piece(part) == IF part.param THEN <<Open>> \o part.text \o <<Close>> ELSE part.text

(* A part is written as a text.                                              *)
LEMMA PieceIsText ==
    ASSUME NEW part \in Parts
    PROVE  Piece(part) \in Text
<1>1. part.text \in Text /\ part.param \in BOOLEAN
  BY DEF Parts
<1>2. <<Open>> \in Text /\ <<Close>> \in Text
  BY TextFacts, BraceSymbols, Zenon
<1>3. <<Open>> \o part.text \o <<Close>> \in Text
  BY <1>1, <1>2, Joined, Zenon
<1> QED
  BY <1>1, <1>3, Zenon DEF Piece

(* A route is written part by part.                                          *)
LEMMA WrittenFirst ==
    ASSUME NEW route, NEW part, NEW others, Joins(route, part, others)
    PROVE  Written(route) = Piece(part) \o Written(others)
<1> DEFINE m == [i \in DOMAIN route |-> Piece(route[i])]
           s == [i \in DOMAIN others |-> Piece(others[i])]
<1>1. /\ route \in Seq(Parts) /\ others \in Seq(Parts) /\ part \in Parts
      /\ Len(others) \in Nat /\ Len(route) = Len(others) + 1
      /\ route[1] = part /\ \A i \in 1..Len(others) : route[i + 1] = others[i]
  BY DEF Joins
<1>2. /\ DOMAIN route = 1..Len(route) /\ DOMAIN others = 1..Len(others)
      /\ \A i \in 1..Len(route) : route[i] \in Parts
      /\ \A i \in 1..Len(others) : others[i] \in Parts
      /\ 1 \in 1..Len(route) /\ \A i \in 1..Len(others) : i + 1 \in 1..Len(route)
  BY <1>1
<1>3. m \in Seq(Text) /\ Len(m) = Len(route) /\ \A i \in 1..Len(route) : m[i] = Piece(route[i])
  BY <1>1, <1>2, PieceIsText
<1>4. s \in Seq(Text) /\ Len(s) = Len(others) /\ \A i \in 1..Len(others) : s[i] = Piece(others[i])
  BY <1>1, <1>2, PieceIsText
<1>5. Written(route) = FlattenSeq(m) /\ Written(others) = FlattenSeq(s)
  BY Zenon DEF Written, Piece
<1> HIDE DEF m, s
<1>6. m[1] = Piece(part) /\ \A i \in 1..Len(s) : m[i + 1] = s[i]
  BY <1>1, <1>2, <1>3, <1>4
<1>7. Piece(part) \in Text
  BY <1>1, PieceIsText
<1>8. m = <<Piece(part)>> \o s
  <2>1. Len(m) = Len(s) + 1 /\ m \in Seq(Text) /\ s \in Seq(Text)
    BY <1>1, <1>3, <1>4
  <2> QED
    BY <1>6, <1>7, <2>1, ConsIs, Zenon
<1>9. FlattenSeq(<<Piece(part)>> \o s) = Piece(part) \o FlattenSeq(s)
  BY <1>4, <1>7, FlattenCons, Zenon DEF Text
<1> QED
  BY <1>5, <1>8, <1>9, Zenon

(* The URI of a route by its parts.                                          *)
Later(values, others) == [i \in ParamsOf(others) |-> values[i + 1]]

(* What the first part, or the i-th, stands for.                             *)
Value(part, values) == IF part.param THEN values[1] ELSE part.text
Chosen(route, values, i) == IF route[i].param THEN values[i] ELSE route[i].text

(* A route is filled part by part.                                           *)
LEMMA FilledFirst ==
    ASSUME NEW route, NEW part, NEW others, Joins(route, part, others),
           NEW values \in [ParamsOf(route) -> Text]
    PROVE  /\ Filled(route, values) = Value(part, values) \o Filled(others, Later(values, others))
           /\ Later(values, others) \in [ParamsOf(others) -> Text]
           /\ Value(part, values) \in Text
<1> DEFINE later == Later(values, others)
           m == [i \in DOMAIN route |-> Chosen(route, values, i)]
           s == [i \in DOMAIN others |-> Chosen(others, later, i)]
<1>1. /\ route \in Seq(Parts) /\ others \in Seq(Parts) /\ part \in Parts
      /\ Len(others) \in Nat /\ Len(route) = Len(others) + 1
      /\ route[1] = part /\ \A i \in 1..Len(others) : route[i + 1] = others[i]
  BY DEF Joins
<1>2. /\ DOMAIN route = 1..Len(route) /\ DOMAIN others = 1..Len(others)
      /\ \A i \in 1..Len(route) : route[i] \in Parts
      /\ \A i \in 1..Len(others) : others[i] \in Parts
      /\ 1 \in 1..Len(route) /\ \A i \in 1..Len(others) : i + 1 \in 1..Len(route)
  BY <1>1
<1>3. later \in [ParamsOf(others) -> Text]
  BY ParamsSplit DEF Later
<1>4. \A i \in ParamsOf(others) : later[i] = values[i + 1]
  BY DEF Later
<1> HIDE DEF later
<1>5. \A i \in 1..Len(route) : Chosen(route, values, i) \in Text
  <2> SUFFICES ASSUME NEW i \in 1..Len(route) PROVE Chosen(route, values, i) \in Text
    OBVIOUS
  <2>1. route[i].text \in Text /\ route[i].param \in BOOLEAN
    BY <1>2 DEF Parts
  <2>2. route[i].param => values[i] \in Text
    BY <1>2 DEF ParamsOf
  <2> QED
    BY <2>1, <2>2, Zenon DEF Chosen
<1>6. \A i \in 1..Len(others) : Chosen(others, later, i) = Chosen(route, values, i + 1)
  <2> SUFFICES ASSUME NEW i \in 1..Len(others)
               PROVE  Chosen(others, later, i) = Chosen(route, values, i + 1)
    OBVIOUS
  <2>1. route[i + 1] = others[i]
    BY <1>1
  <2>2. others[i].param => later[i] = values[i + 1]
    BY <1>2, <1>4 DEF ParamsOf
  <2> QED
    BY <2>1, <2>2, Zenon DEF Chosen
<1>7. m \in Seq(Text) /\ Len(m) = Len(route) /\ \A i \in 1..Len(route) : m[i] = Chosen(route, values, i)
  BY <1>1, <1>2, <1>5
<1>8. /\ s \in Seq(Text) /\ Len(s) = Len(others)
      /\ \A i \in 1..Len(others) : s[i] = Chosen(others, later, i)
  BY <1>1, <1>2, <1>5, <1>6
<1>9. Filled(route, values) = FlattenSeq(m) /\ Filled(others, later) = FlattenSeq(s)
  BY Zenon DEF Filled, Chosen
<1>10. Chosen(route, values, 1) = Value(part, values)
  BY <1>1, Zenon DEF Chosen, Value
<1> HIDE DEF m, s
<1>11. m[1] = Value(part, values) /\ \A i \in 1..Len(s) : m[i + 1] = s[i]
  BY <1>1, <1>2, <1>6, <1>7, <1>8, <1>10
<1>12. Value(part, values) \in Text
  BY <1>2, <1>5, <1>10, Zenon
<1>13. m = <<Value(part, values)>> \o s
  <2>1. Len(m) = Len(s) + 1 /\ m \in Seq(Text) /\ s \in Seq(Text)
    BY <1>1, <1>7, <1>8
  <2> QED
    BY <1>11, <1>12, <2>1, ConsIs, Zenon
<1>14. FlattenSeq(<<Value(part, values)>> \o s) = Value(part, values) \o FlattenSeq(s)
  BY <1>8, <1>12, FlattenCons, Zenon DEF Text
<1>15. Filled(route, values) = Value(part, values) \o Filled(others, later)
  BY <1>9, <1>13, <1>14, Zenon
<1> QED
  BY <1>3, <1>12, <1>15 DEF later

(* Values for the rest of the route, and one for its first part.             *)
Together(route, value, values) == [i \in ParamsOf(route) |-> IF i = 1 THEN value ELSE values[i - 1]]

(* Values of the route's parameters, of the first and of the others.         *)
Unites(together, route, part, others, T, value, values) ==
    /\ together \in [ParamsOf(route) -> T]
    /\ Later(together, others) = values
    /\ part.param => together[1] = value
    /\ \A i \in ParamsOf(others) : together[i + 1] = values[i]

(* A value of the first and values of the others make values of the route.   *)
LEMMA ValuesTogether ==
    ASSUME NEW route, NEW part, NEW others, Joins(route, part, others),
           NEW T, NEW value, part.param => value \in T, NEW values \in [ParamsOf(others) -> T]
    PROVE  Unites(Together(route, value, values), route, part, others, T, value, values)
<1> DEFINE together == Together(route, value, values)
<1>1. /\ ParamsOf(route) = ParamsFirst(part) \cup {i + 1 : i \in ParamsOf(others)}
      /\ ParamsOf(others) \subseteq 1..Len(others) /\ Len(others) \in Nat
  BY ParamsSplit DEF Joins
<1>2. \A i \in ParamsOf(others) : i + 1 # 1 /\ (i + 1) - 1 = i /\ i + 1 \in ParamsOf(route)
  BY <1>1
<1>3. \A i \in ParamsOf(others) : together[i + 1] = values[i]
  BY <1>2 DEF Together
<1>4. part.param => 1 \in ParamsOf(route) /\ together[1] = value
  BY <1>1 DEF ParamsFirst, Together
<1>5. \A i \in ParamsOf(route) : together[i] \in T
  BY <1>1, <1>3, <1>4 DEF ParamsFirst
<1>6. together \in [ParamsOf(route) -> T]
  BY <1>5 DEF Together
<1>7. Later(together, others) = values
  BY <1>3 DEF Later
<1> QED
  BY <1>3, <1>4, <1>6, <1>7, Zenon DEF Unites

(* A set that has the empty route, and every route whose rest it has, has    *)
(* all routes.                                                               *)
LEMMA RouteInduction ==
    ASSUME NEW T, <<>> \in T,
           \A route, part, others : Joins(route, part, others) /\ others \in T => route \in T
    PROVE  \A route : IsRoute(route) => route \in T
<1> DEFINE S == {route \in Seq(Parts) : IsRoute(route)}
           rank == [route \in S |-> Len(route)]
<1>1. rank \in [S -> Nat]
  <2>1. \A route \in Seq(Parts) : Len(route) \in Nat
    OBVIOUS
  <2> QED
    BY <2>1
<1>2. ASSUME NEW route \in S, \A y \in S : rank[y] < rank[route] => y \in T PROVE route \in T
  <2>1. CASE route = <<>>
    BY <2>1
  <2>2. CASE route # <<>>
    <3>1. PICK part, others : Joins(route, part, others)
      BY <2>2, RouteCases, Zenon
    <3>2. others \in S /\ Len(others) < Len(route)
      BY <3>1 DEF Joins
    <3>3. rank[others] < rank[route]
      BY <3>2
    <3> QED
      BY <1>2, <3>1, <3>2, <3>3, Zenon
  <2> QED
    BY <2>1, <2>2
<1>3. \A route \in S : (\A y \in S : rank[y] < rank[route] => y \in T) => route \in T
  BY <1>2
<1> HIDE DEF rank, S
<1>4. S \subseteq T
  BY <1>1, <1>3, RankInduction
<1>5. \A route : IsRoute(route) => route \in S
  BY Zenon DEF S, IsRoute, Parts
<1> QED
  BY <1>4, <1>5, Zenon

(* The expression and the names of a route by its parts.                     *)
Regex(route) == rewrite[Written(route)].regex

(* The names that createRegexFromURI finds, and that it finds the resource   *)
(* valid.                                                                    *)
Names(route) == rewrite[Written(route)].paramNames
IsRewritten(route) ==
    /\ Written(route) \in Text /\ rewrite[Written(route)].valid = TRUE
    /\ Regex(route) \in Text /\ Names(route) \in Seq(Text)

(* A parameter is rewritten to a group and its name, a symbol to itself.     *)
RewrittenByParts(route, part, others) ==
    IF part.param
    THEN Regex(route) = <<Group>> \o Regex(others) /\ Names(route) = <<part.text>> \o Names(others)
    ELSE Regex(route) = <<part.text[1]>> \o Regex(others) /\ Names(route) = Names(others)

(* The results of createRegexFromURI are texts.                              *)
LEMMA RewriteTyped ==
    \A text \in Text : rewrite[text].regex \in Text /\ rewrite[text].paramNames \in Seq(Text)
BY RewriteEquation DEF Resources

(* What is known of a part by itself.                                        *)
LEMMA PartFacts ==
    ASSUME NEW part \in Parts, IsPart(part)
    PROVE  /\ part.text \in Text
           /\ part.param => \A i \in 1..Len(part.text) : part.text[i] # Close
           /\ ~ part.param => /\ part.text[1] \in Symbols /\ part.text[1] # Open
                              /\ part.text = <<part.text[1]>>
<1>1. part.text \in Text /\ part.param \in BOOLEAN
  BY DEF Parts
<1>2. CASE part.param
  BY <1>1, <1>2, Zenon DEF IsPart
<1>3. CASE ~ part.param
  <2>1. Len(part.text) = 1 /\ part.text[1] # Open
    BY <1>3, Zenon DEF IsPart
  <2>2. PICK t \in Text : t = part.text
    BY <1>1
  <2>3. t[1] \in Symbols /\ t = <<t[1]>>
    BY <2>1, <2>2, OneElement DEF Text
  <2> QED
    BY <1>1, <1>3, <2>1, <2>2, <2>3
<1> QED
  BY <1>2, <1>3

(* One round of createRegexFromURI on a written route.                       *)
LEMMA RouteRound ==
    ASSUME NEW route, NEW part, NEW others, Joins(route, part, others), IsRewritten(others)
    PROVE  IsRewritten(route) /\ RewrittenByParts(route, part, others)
<1> DEFINE t == Written(others)
           text == Written(route)
<1>1. part \in Parts /\ IsPart(part) /\ t \in Text /\ rewrite[t].valid = TRUE
  BY DEF Joins, IsRewritten
<1>2. text = Piece(part) \o t
  BY WrittenFirst, Zenon
<1>3. text \in Text
  BY <1>1, <1>2, PieceIsText, Joined, Zenon
<1>4. CASE part.param
  <2>1. Piece(part) = <<Open>> \o part.text \o <<Close>>
    BY <1>4, Zenon DEF Piece
  <2>2. Rewritten((<<Open>> \o part.text \o <<Close>>) \o t, rewrite[t].valid,
                     <<Group>> \o rewrite[t].regex, <<part.text>> \o rewrite[t].paramNames)
    BY <1>1, <1>4, PartFacts, RewriteParam, Zenon
  <2>3. Rewritten(text, rewrite[t].valid,
                     <<Group>> \o rewrite[t].regex, <<part.text>> \o rewrite[t].paramNames)
    BY <1>2, <2>1, <2>2, Zenon
  <2>4. rewrite[text].valid = TRUE /\ RewrittenByParts(route, part, others)
    BY <1>1, <1>4, <2>3, Zenon DEF Rewritten, RewrittenByParts, Regex, Names
  <2> QED
    BY <1>3, <2>4, RewriteTyped, Zenon DEF IsRewritten, Regex, Names
<1>5. CASE ~ part.param
  <2>1. Piece(part) = part.text
    BY <1>5, Zenon DEF Piece
  <2>2. /\ part.text[1] \in Symbols /\ part.text[1] # Open
        /\ part.text = <<part.text[1]>>
    BY <1>1, <1>5, PartFacts, Zenon
  <2>3. Rewritten(<<part.text[1]>> \o t, TRUE, <<part.text[1]>> \o rewrite[t].regex, rewrite[t].paramNames)
    BY <1>1, <2>2, RewriteLiteral, Zenon
  <2>4. text = <<part.text[1]>> \o t
    BY <1>2, <2>1, <2>2, Zenon
  <2>5. Rewritten(text, TRUE, <<part.text[1]>> \o rewrite[t].regex, rewrite[t].paramNames)
    BY <2>3, <2>4, Zenon
  <2>6. rewrite[text].valid = TRUE /\ RewrittenByParts(route, part, others)
    BY <1>5, <2>5, Zenon DEF Rewritten, RewrittenByParts, Regex, Names
  <2> QED
    BY <1>3, <2>6, RewriteTyped, Zenon DEF IsRewritten, Regex, Names
<1> QED
  BY <1>4, <1>5

(* The route of no parts.                                                    *)
LEMMA EmptyRoute ==
    /\ Written(<<>>) = <<>> /\ IsRewritten(<<>>)
    /\ Regex(<<>>) = <<>> /\ Names(<<>>) = <<>>
<1>1. Written(<<>>) = <<>>
  <2>1. [i \in DOMAIN <<>> |-> Piece(<<>>[i])] = <<>>
    OBVIOUS
  <2>2. Written(<<>>) = FlattenSeq([i \in DOMAIN <<>> |-> Piece(<<>>[i])])
    BY Zenon DEF Written, Piece
  <2> QED
    BY <2>1, <2>2, FlattenEmpty, Zenon
<1>2. <<>> \in Text /\ Missing(<<>>, Open, 1)
  BY TextFacts DEF Missing
<1>3. Rewritten(<<>>, TRUE, <<>>, <<>>)
  BY <1>2, RewriteNothing, Zenon
<1> QED
  BY <1>1, <1>2, <1>3, RewriteTyped, Zenon DEF Rewritten, IsRewritten, Regex, Names

(* Every route is rewritten, and none is found invalid.                      *)
LEMMA RouteRewritten == \A route : IsRoute(route) => IsRewritten(route)
<1> DEFINE T == {route \in Seq(Parts) : IsRewritten(route)}
<1>1. <<>> \in T
  BY EmptyRoute, EmptySeq, Zenon
<1>2. \A route, part, others : Joins(route, part, others) /\ others \in T => route \in T
  BY RouteRound, Zenon DEF Joins
<1> HIDE DEF T
<1>3. \A route : IsRoute(route) => route \in T
  BY <1>1, <1>2, RouteInduction
<1> QED
  BY <1>3 DEF T

(* What follows a text has its parts at higher positions.                    *)
LEMMA PartBehind ==
    ASSUME NEW S, NEW a \in Seq(S), NEW b \in Seq(S), NEW i \in 0..Len(b), NEW j \in 0..Len(b)
    PROVE  SubSeq(b, i + 1, j) = SubSeq(a \o b, (Len(a) + i) + 1, Len(a) + j)
<1> DEFINE c == a \o b
           d == SubSeq(b, i + 1, j)
           e == SubSeq(c, (Len(a) + i) + 1, Len(a) + j)
<1>1. /\ c \in Seq(S) /\ Len(c) = Len(a) + Len(b) /\ Len(a) \in Nat /\ Len(b) \in Nat
      /\ \A k \in 1..Len(b) : c[Len(a) + k] = b[k]
  OBVIOUS
<1> HIDE DEF c
<1>2. CASE i < j
  <2>1. d \in Seq(S) /\ Len(d) = j - i /\ \A k \in 1..(j - i) : d[k] = b[i + k]
    BY <1>2
  <2>2. e \in Seq(S) /\ Len(e) = j - i /\ \A k \in 1..(j - i) : e[k] = c[Len(a) + (i + k)]
    BY <1>1, <1>2
  <2> HIDE DEF d, e
  <2>3. \A k \in 1..(j - i) : i + k \in 1..Len(b)
    BY <1>1, <1>2
  <2>4. \A k \in 1..Len(d) : d[k] = e[k]
    BY <1>1, <2>1, <2>2, <2>3
  <2>5. d = e
    BY <2>1, <2>2, <2>4, SeqEqual
  <2> QED
    BY <2>5 DEF d, e, c
<1>3. CASE ~ (i < j)
  <2>1. d = <<>>
    BY <1>1, <1>3
  <2>2. e = <<>>
    BY <1>1, <1>3
  <2> QED
    BY <2>1, <2>2 DEF c
<1> QED
  BY <1>2, <1>3

(* The texts in a URI that a group takes.                                    *)
ValuesIn(uri) == {part \in SubSeqs(uri) : part # <<>> /\ "/" \notin ToSet(part)}

-----------------------------------------------------------------------------
(* What matches is meant                                                     *)

(* Subsequences are what stands between two positions.                       *)
LEMMA SubSeqsAre ==
    ASSUME NEW s, NEW x
    PROVE  x \in SubSeqs(s) <=> \E i, j \in 0..Len(s) : x = SubSeq(s, i + 1, j)
BY DEF SubSeqs

(* Values are texts that a group takes.                                      *)
LEMMA ValuesAreTexts ==
    ASSUME NEW uri \in Text
    PROVE  ValuesIn(uri) \subseteq Text /\ \A v \in ValuesIn(uri) : GroupTakes(v)
<1>1. \A i, j \in 0..Len(uri) : SubSeq(uri, i + 1, j) \in Text
  BY DEF Text
<1>2. ASSUME NEW x \in SubSeqs(uri) PROVE x \in Text
  <2>1. PICK i, j \in 0..Len(uri) : x = SubSeq(uri, i + 1, j)
    BY SubSeqsAre, Zenon
  <2> QED
    BY <1>1, <2>1, Zenon
<1>3. ASSUME NEW v \in ValuesIn(uri) PROVE v \in Text /\ GroupTakes(v)
  BY <1>2, Zenon DEF ValuesIn, GroupTakes
<1> QED
  BY <1>3, Zenon

(* What is a value in the rest of a URI is one in the URI, and so is its     *)
(* beginning if a group takes it.                                            *)
LEMMA ValuesBehind ==
    ASSUME NEW v \in Text, NEW u \in Text
    PROVE  ValuesIn(u) \subseteq ValuesIn(v \o u) /\ (GroupTakes(v) => v \in ValuesIn(v \o u))
<1>1. /\ Len(v) \in Nat /\ Len(u) \in Nat /\ Len(v \o u) = Len(v) + Len(u)
      /\ SubSeq(v \o u, 1, Len(v)) = v
  BY TextFacts, Zenon
<1>2. SubSeqs(u) \subseteq SubSeqs(v \o u)
  <2> SUFFICES ASSUME NEW x \in SubSeqs(u) PROVE x \in SubSeqs(v \o u)
    OBVIOUS
  <2>1. PICK i, j \in 0..Len(u) : x = SubSeq(u, i + 1, j)
    BY SubSeqsAre, Zenon
  <2>2. Len(v) + i \in 0..Len(v \o u) /\ Len(v) + j \in 0..Len(v \o u)
    BY <1>1
  <2>3. SubSeq(u, i + 1, j) = SubSeq(v \o u, (Len(v) + i) + 1, Len(v) + j)
    BY PartBehind, Zenon DEF Text
  <2> QED
    BY <2>1, <2>2, <2>3, SubSeqsAre, Zenon
<1>3. v \in SubSeqs(v \o u)
  <2>1. 0 \in 0..Len(v \o u) /\ Len(v) \in 0..Len(v \o u) /\ 0 + 1 = 1
    BY <1>1
  <2>2. v = SubSeq(v \o u, 0 + 1, Len(v))
    BY <1>1, <2>1, Zenon
  <2> QED
    BY <2>1, <2>2, SubSeqsAre, Zenon
<1> QED
  BY <1>2, <1>3, Zenon DEF ValuesIn, GroupTakes

(* What the arguments of a request become when a route's parameters get      *)
(* values: of parameters with the same name the last one counts.             *)
Counts(route, i) ==
    /\ i \in ParamsOf(route)
    /\ \A j \in ParamsOf(route) : route[j].text = route[i].text => j <= i

(* The arguments after are those from before and those that the values give; *)
(* of parameters with the same name the last one counts.                     *)
Assigns(route, values, before, after) ==
    /\ DOMAIN after = DOMAIN before \cup {route[i].text : i \in ParamsOf(route)}
    /\ \A name \in DOMAIN after :
          \/ /\ name \in DOMAIN before /\ after[name] = before[name]
             /\ \A i \in ParamsOf(route) : route[i].text # name
          \/ \E i : Counts(route, i) /\ route[i].text = name /\ after[name] = values[i]

(* What counts among the others counts in the route.                         *)
LEMMA CountsLater ==
    ASSUME NEW route, NEW part, NEW others, Joins(route, part, others),
           NEW i, Counts(others, i)
    PROVE  Counts(route, i + 1) /\ route[i + 1].text = others[i].text
<1>1. /\ Len(others) \in Nat /\ Len(route) = Len(others) + 1
      /\ route[1] = part /\ \A j \in 1..Len(others) : route[j + 1] = others[j]
  BY DEF Joins
<1>2. /\ ParamsOf(route) = ParamsFirst(part) \cup {j + 1 : j \in ParamsOf(others)}
      /\ ParamsOf(others) \subseteq 1..Len(others)
  BY ParamsSplit
<1>3. i \in ParamsOf(others) /\ i \in 1..Len(others) /\ route[i + 1].text = others[i].text
  BY <1>1, <1>2 DEF Counts
<1>4. ASSUME NEW j \in ParamsOf(route), route[j].text = route[i + 1].text PROVE j <= i + 1
  <2>1. CASE j \in ParamsFirst(part)
    BY <1>3, <2>1 DEF ParamsFirst
  <2>2. CASE j \in {k + 1 : k \in ParamsOf(others)}
    <3>1. PICK k \in ParamsOf(others) : j = k + 1
      BY <2>2
    <3>2. k \in 1..Len(others) /\ route[k + 1].text = others[k].text
      BY <1>1, <1>2
    <3>3. k <= i
      BY <1>3, <1>4, <3>1, <3>2 DEF Counts
    <3> QED
      BY <1>3, <3>1, <3>2, <3>3
  <2> QED
    BY <1>2, <2>1, <2>2
<1> QED
  BY <1>2, <1>3, <1>4 DEF Counts

(* The arguments are set part by part.                                       *)
LEMMA AssignsFirst ==
    ASSUME NEW route, NEW part, NEW others, Joins(route, part, others),
           NEW values, NEW later, \A i \in ParamsOf(others) : values[i + 1] = later[i],
           NEW before, NEW middle, NEW after, Assigns(others, later, middle, after),
           IF part.param THEN middle = Put(before, part.text, values[1]) ELSE middle = before
    PROVE  Assigns(route, values, before, after)
<1>1. /\ Len(others) \in Nat /\ Len(route) = Len(others) + 1 /\ part \in Parts
      /\ route[1] = part /\ \A j \in 1..Len(others) : route[j + 1] = others[j]
  BY DEF Joins
<1>2. /\ ParamsOf(route) = ParamsFirst(part) \cup {j + 1 : j \in ParamsOf(others)}
      /\ ParamsOf(others) \subseteq 1..Len(others)
  BY ParamsSplit
<1>3. \A j \in ParamsOf(others) : route[j + 1].text = others[j].text /\ j + 1 \in ParamsOf(route)
  BY <1>1, <1>2
<1>4. {route[i].text : i \in ParamsOf(route)} =
         {route[i].text : i \in ParamsFirst(part)} \cup {others[i].text : i \in ParamsOf(others)}
  BY <1>2, <1>3
<1>5. DOMAIN after = DOMAIN middle \cup {others[i].text : i \in ParamsOf(others)}
  BY DEF Assigns
<1>6. \A name \in DOMAIN after :
          \/ /\ name \in DOMAIN middle /\ after[name] = middle[name]
             /\ \A i \in ParamsOf(others) : others[i].text # name
          \/ \E i : Counts(others, i) /\ others[i].text = name /\ after[name] = later[i]
  BY DEF Assigns
<1>7. DOMAIN middle = DOMAIN before \cup {route[i].text : i \in ParamsFirst(part)}
  <2>1. CASE part.param
    BY <1>1, <2>1 DEF Put, ParamsFirst
  <2>2. CASE ~ part.param
    BY <2>2 DEF ParamsFirst
  <2> QED
    BY <2>1, <2>2
<1>8. ASSUME NEW name \in DOMAIN after
      PROVE  \/ /\ name \in DOMAIN before /\ after[name] = before[name]
                /\ \A i \in ParamsOf(route) : route[i].text # name
             \/ \E i : Counts(route, i) /\ route[i].text = name /\ after[name] = values[i]
  <2>1. CASE \E i : Counts(others, i) /\ others[i].text = name /\ after[name] = later[i]
    <3>1. PICK i : Counts(others, i) /\ others[i].text = name /\ after[name] = later[i]
      BY <2>1
    <3>2. i \in ParamsOf(others)
      BY <3>1 DEF Counts
    <3>3. values[i + 1] = later[i] /\ Counts(route, i + 1) /\ route[i + 1].text = name
      BY <3>1, <3>2, CountsLater
    <3> QED
      BY <3>1, <3>3
  <2>2. ASSUME name \in DOMAIN middle, after[name] = middle[name],
               \A i \in ParamsOf(others) : others[i].text # name
        PROVE  \/ /\ name \in DOMAIN before /\ after[name] = before[name]
                  /\ \A i \in ParamsOf(route) : route[i].text # name
               \/ \E i : Counts(route, i) /\ route[i].text = name /\ after[name] = values[i]
    <3>1. CASE part.param /\ name = part.text
      <4>1. middle[name] = values[1] /\ 1 \in ParamsOf(route)
        BY <1>2, <2>2, <3>1 DEF Put, ParamsFirst
      <4>2. \A j \in ParamsOf(route) : route[j].text = part.text => j <= 1
        BY <1>2, <1>3, <2>2, <3>1 DEF ParamsFirst
      <4>3. Counts(route, 1)
        BY <1>1, <4>1, <4>2 DEF Counts
      <4> QED
        BY <1>1, <2>2, <3>1, <4>1, <4>3
    <3>2. CASE ~ (part.param /\ name = part.text)
      <4>1. name \in DOMAIN before /\ middle[name] = before[name]
        BY <2>2, <3>2 DEF Put
      <4>2. \A i \in ParamsOf(route) : route[i].text # name
        BY <1>1, <1>2, <1>3, <2>2, <3>2 DEF ParamsFirst
      <4> QED
        BY <2>2, <4>1, <4>2
    <3> QED
      BY <3>1, <3>2
  <2> QED
    BY <1>6, <2>1, <2>2
<1>9. DOMAIN after = DOMAIN before \cup {route[i].text : i \in ParamsOf(route)}
  BY <1>4, <1>5, <1>7
<1> QED
  BY <1>8, <1>9, Zenon DEF Assigns

(* A route without the symbol that stands for a group.                       *)
Plain(route) == \A i \in DOMAIN route : ~ route[i].param => route[i].text[1] # Group

(* A plain route goes on as a plain route.                                   *)
LEMMA PlainFirst ==
    ASSUME NEW route, NEW part, NEW others, Joins(route, part, others), Plain(route)
    PROVE  Plain(others) /\ (~ part.param => part.text[1] # Group)
<1>1. /\ Len(others) \in Nat /\ Len(route) = Len(others) + 1
      /\ route[1] = part /\ \A j \in 1..Len(others) : route[j + 1] = others[j]
  BY DEF Joins
<1>2. DOMAIN route = 1..Len(route) /\ DOMAIN others = 1..Len(others)
  BY ParamsSplit
<1>3. 1 \in 1..Len(route) /\ \A j \in 1..Len(others) : j + 1 \in 1..Len(route)
  BY <1>1
<1> QED
  BY <1>1, <1>2, <1>3 DEF Plain

(* A route without a "." has none in its parts.                              *)
LEMMA DotFirst ==
    ASSUME NEW route, NEW part, NEW others, Joins(route, part, others),
           Literal(".") \notin ToSet(route)
    PROVE  Literal(".") \notin ToSet(others) /\ part # Literal(".")
<1>1. /\ Len(others) \in Nat /\ Len(route) = Len(others) + 1
      /\ route[1] = part /\ \A j \in 1..Len(others) : route[j + 1] = others[j]
  BY DEF Joins
<1>2. DOMAIN route = 1..Len(route) /\ DOMAIN others = 1..Len(others)
  BY ParamsSplit
<1>3. 1 \in 1..Len(route) /\ \A j \in 1..Len(others) : j + 1 \in 1..Len(route)
  BY <1>1
<1> HIDE DEF Literal
<1> QED
  BY <1>1, <1>2, <1>3 DEF ToSet

(* What the groups take gives values that give the URI, and the loop over    *)
(* the groups gives each argument the value of its parameter.                *)
Gives(route, uri, groups, values) ==
    /\ values \in [ParamsOf(route) -> ValuesIn(uri)]
    /\ Literal(".") \notin ToSet(route) => Filled(route, values) = uri
    /\ \A request : IsRequest(request) =>
          Assigns(route, values, request.args, SetArgs(request, Names(route), groups).args)

(* The groups are the values of the route's parameters in the URI.           *)
Fits(route, uri, groups) ==
    /\ groups \in Seq(Text) /\ Len(groups) = Len(Names(route))
    /\ \E values : Gives(route, uri, groups, values)

(* Every match of the regular expression fits the route.                     *)
Sound(route) ==
    \A uri \in Text : \A groups \in match[Regex(route)][uri] : Fits(route, uri, groups)

(* A match that begins with a group fits if the rest does.                   *)
LEMMA SoundParam ==
    ASSUME NEW route, NEW part, NEW others, Joins(route, part, others), part.param,
           IsRewritten(others), NEW v \in Text, GroupTakes(v), NEW u \in Text,
           NEW later, NEW rest, Fits(others, u, rest), Gives(others, u, rest, later)
    PROVE  Fits(route, v \o u, <<v>> \o rest)
<1> DEFINE uri == v \o u
           groups == <<v>> \o rest
           values == Together(route, v, later)
           names == Names(others)
<1>1. part \in Parts /\ part.text \in Text /\ names \in Seq(Text) /\ uri \in Text
  BY TextFacts DEF Joins, Parts, IsRewritten
<1>2. Names(route) = <<part.text>> \o names
  BY RouteRound, Zenon DEF RewrittenByParts
<1>3. /\ rest \in Seq(Text) /\ Len(rest) = Len(names)
      /\ later \in [ParamsOf(others) -> ValuesIn(u)]
      /\ Literal(".") \notin ToSet(others) => Filled(others, later) = u
  BY Zenon DEF Fits, Gives
<1>4. /\ groups \in Seq(Text) /\ Len(groups) = Len(rest) + 1
      /\ <<part.text>> \o names \in Seq(Text)
      /\ Len(<<part.text>> \o names) = Len(names) + 1
  BY <1>1, <1>3, Prepended
<1> HIDE DEF groups, names
<1>5. groups \in Seq(Text) /\ Len(groups) = Len(Names(route))
  BY <1>2, <1>3, <1>4, Zenon
<1>6. v \in ValuesIn(uri) /\ later \in [ParamsOf(others) -> ValuesIn(uri)]
  <2>1. ValuesIn(u) \subseteq ValuesIn(uri) /\ v \in ValuesIn(uri)
    BY ValuesBehind, Zenon
  <2> HIDE DEF uri
  <2> QED
    BY <1>3, <2>1
<1>7. /\ values \in [ParamsOf(route) -> ValuesIn(uri)] /\ Later(values, others) = later
      /\ values[1] = v /\ \A i \in ParamsOf(others) : values[i + 1] = later[i]
  <2>1. Unites(values, route, part, others, ValuesIn(uri), v, later)
    BY <1>6, ValuesTogether, Zenon
  <2> QED
    BY <2>1, Zenon DEF Unites
<1> HIDE DEF values
<1>8. values \in [ParamsOf(route) -> Text]
  <2>1. ValuesIn(uri) \subseteq Text
    BY <1>1, ValuesAreTexts, Zenon
  <2> HIDE DEF uri
  <2> QED
    BY <1>7, <2>1
<1>9. ASSUME Literal(".") \notin ToSet(route) PROVE Filled(route, values) = uri
  <2>1. Filled(route, values) = Value(part, values) \o Filled(others, Later(values, others))
    BY <1>8, FilledFirst
  <2>2. Filled(others, later) = u
    BY <1>3, <1>9, DotFirst, Zenon
  <2>3. Value(part, values) = v
    BY <1>7, Zenon DEF Value
  <2> QED
    BY <1>7, <2>1, <2>2, <2>3, Zenon
<1>10. ASSUME NEW request, IsRequest(request)
       PROVE  Assigns(route, values, request.args, SetArgs(request, Names(route), groups).args)
  <2> DEFINE second == setArg(request, part.text, v)
             after == SetArgs(second, names, rest)
  <2>1. second \in WithArguments(request) /\ second.args = Put(request.args, part.text, v)
    <3>1. request \in WithArguments(request) /\ part.text \in Text
      BY <1>1, <1>10, Zenon DEF IsRequest
    <3>2. PICK name \in Text : name = part.text
      BY <3>1
    <3>3. setArg(request, name, v) \in WithArguments(request)
      BY <3>1, ArgumentSet, Zenon
    <3>4. setArg(request, name, v).args = Put(request.args, name, v)
      BY <3>1, ArgumentSet
    <3> QED
      BY <3>2, <3>3, <3>4, Zenon
  <2>2. SetArgs(request, <<part.text>> \o names, groups) = after
    BY <1>1, <1>3, <1>10, SetArgsFirst DEF groups
  <2> HIDE DEF second
  <2>3. IsRequest(second)
    BY <2>1 DEF IsRequest, WithArguments
  <2>4. Assigns(others, later, second.args, after.args)
    BY <2>3, Zenon DEF Gives, names
  <2>5. second.args = Put(request.args, part.text, values[1])
    BY <1>7, <2>1, Zenon
  <2> HIDE DEF after
  <2>6. IF part.param THEN second.args = Put(request.args, part.text, values[1])
        ELSE second.args = request.args
    BY <2>5, Zenon
  <2>7. Assigns(route, values, request.args, after.args)
    BY <1>7, <2>4, <2>6, AssignsFirst, Zenon
  <2> QED
    BY <1>2, <2>2, <2>7, Zenon
<1>11. Gives(route, uri, groups, values)
  BY <1>7, <1>9, <1>10, Zenon DEF Gives
<1> QED
  BY <1>5, <1>11, Zenon DEF Fits, groups

(* A match that begins with a symbol fits if the rest does.                  *)
LEMMA SoundLiteral ==
    ASSUME NEW route, NEW part, NEW others, Joins(route, part, others), ~ part.param,
           IsRewritten(others), NEW c \in Symbols, part.text[1] \in {c, "."}, NEW u \in Text,
           NEW groups, NEW later, Fits(others, u, groups), Gives(others, u, groups, later)
    PROVE  Fits(route, <<c>> \o u, groups)
<1> DEFINE uri == <<c>> \o u
           values == Together(route, c, later)
           names == Names(others)
<1>1. part \in Parts /\ <<c>> \in Text /\ uri \in Text
  BY TextFacts DEF Joins
<1>2. Names(route) = names
  BY RouteRound, Zenon DEF RewrittenByParts
<1>3. /\ groups \in Seq(Text) /\ Len(groups) = Len(names)
      /\ later \in [ParamsOf(others) -> ValuesIn(u)]
      /\ Literal(".") \notin ToSet(others) => Filled(others, later) = u
  BY Zenon DEF Fits, Gives
<1>4. later \in [ParamsOf(others) -> ValuesIn(uri)]
  <2>1. ValuesIn(u) \subseteq ValuesIn(uri)
    BY <1>1, ValuesBehind, Zenon
  <2> HIDE DEF uri
  <2> QED
    BY <1>3, <2>1
<1>5. /\ values \in [ParamsOf(route) -> ValuesIn(uri)] /\ Later(values, others) = later
      /\ \A i \in ParamsOf(others) : values[i + 1] = later[i]
  <2>1. part.param => c \in ValuesIn(uri)
    BY Zenon
  <2>2. Unites(values, route, part, others, ValuesIn(uri), c, later)
    BY <1>4, <2>1, ValuesTogether, Zenon
  <2> QED
    BY <2>2, Zenon DEF Unites
<1> HIDE DEF values
<1>6. values \in [ParamsOf(route) -> Text]
  <2>1. ValuesIn(uri) \subseteq Text
    BY <1>1, ValuesAreTexts, Zenon
  <2> HIDE DEF uri
  <2> QED
    BY <1>5, <2>1
<1>7. ASSUME Literal(".") \notin ToSet(route) PROVE Filled(route, values) = uri
  <2>1. Filled(route, values) = Value(part, values) \o Filled(others, Later(values, others))
    BY <1>6, FilledFirst
  <2>2. Filled(others, later) = u /\ part # Literal(".")
    BY <1>3, <1>7, DotFirst, Zenon
  <2>3. part.text = <<part.text[1]>> /\ part.param = FALSE
    BY <1>1, PartFacts DEF Joins, Parts
  <2>4. part.text[1] # "."
    <3>1. ASSUME part.text = <<".">> PROVE part = Literal(".")
      BY <1>1, <2>3, <3>1 DEF Parts, Literal
    <3> QED
      BY <2>2, <2>3, <3>1
  <2>5. Value(part, values) = <<c>>
    BY <2>3, <2>4, Zenon DEF Value
  <2> QED
    BY <1>5, <2>1, <2>2, <2>5, Zenon
<1>8. ASSUME NEW request, IsRequest(request)
       PROVE  Assigns(route, values, request.args, SetArgs(request, Names(route), groups).args)
  <2>1. Assigns(others, later, request.args, SetArgs(request, names, groups).args)
    BY <1>8, Zenon DEF Gives
  <2>2. IF part.param THEN request.args = Put(request.args, part.text, values[1])
        ELSE request.args = request.args
    OBVIOUS
  <2> QED
    BY <1>2, <1>5, <2>1, <2>2, AssignsFirst
<1>9. Gives(route, uri, groups, values)
  BY <1>5, <1>7, <1>8, Zenon DEF Gives
<1> QED
  BY <1>2, <1>3, <1>9, Zenon DEF Fits

(* Soundness, part by part.                                                  *)
LEMMA SoundRound ==
    ASSUME NEW route, NEW part, NEW others, Joins(route, part, others), Plain(route),
           IsRewritten(others), Sound(others)
    PROVE  Sound(route)
<1> SUFFICES ASSUME NEW uri \in Text, NEW x \in match[Regex(route)][uri]
             PROVE  Fits(route, uri, x)
  BY Zenon DEF Sound
<1>1. RewrittenByParts(route, part, others) /\ Regex(others) \in Text
  BY RouteRound, Zenon DEF IsRewritten
<1> PICK r \in Text : r = Regex(others)
  BY <1>1
<1>2. CASE part.param
  <2>1. x \in match[<<Group>> \o r][uri]
    BY <1>1, <1>2, Zenon DEF RewrittenByParts
  <2>2. ByGroup(r, uri, x)
    BY <2>1, MatchGroup, Zenon
  <2>3. PICK v, u \in Text : \E rest \in match[r][u] :
                  uri = v \o u /\ GroupTakes(v) /\ x = <<v>> \o rest
    BY <2>2, Zenon DEF ByGroup
  <2>4. PICK rest \in match[r][u] : uri = v \o u /\ GroupTakes(v) /\ x = <<v>> \o rest
    BY <2>3, Zenon
  <2>5. Fits(others, u, rest)
    BY Zenon DEF Sound
  <2>6. PICK later : Gives(others, u, rest, later)
    BY <2>5, Zenon DEF Fits
  <2> QED
    BY <1>2, <2>4, <2>5, <2>6, SoundParam, Zenon
<1>3. CASE ~ part.param
  <2>1. part.text[1] \in Symbols /\ part.text[1] # Group
    BY <1>3, PartFacts, PlainFirst, Zenon DEF Joins
  <2> PICK s \in Symbols : s = part.text[1]
    BY <2>1
  <2>2. x \in match[<<s>> \o r][uri] /\ s # Group
    BY <1>1, <1>3, <2>1, Zenon DEF RewrittenByParts
  <2>3. PICK c \in Symbols, u \in Text :
                  uri = <<c>> \o u /\ s \in {c, "."} /\ x \in match[r][u]
    <3>1. s \in Symbols \ {Group}
      BY <2>2
    <3>2. BySymbol(s, r, uri, x)
      BY <2>2, <3>1, MatchSymbol, Zenon
    <3> QED
      BY <3>2, Zenon DEF BySymbol
  <2>4. Fits(others, u, x)
    BY <2>3, Zenon DEF Sound
  <2>5. PICK later : Gives(others, u, x, later)
    BY <2>4, Zenon DEF Fits
  <2> QED
    BY <1>3, <2>3, <2>4, <2>5, SoundLiteral, Zenon
<1> QED
  BY <1>2, <1>3

(* The route of no parts matches the empty URI only.                         *)
LEMMA EmptySound == Sound(<<>>)
<1> SUFFICES ASSUME NEW uri \in Text, NEW x \in match[<<>>][uri] PROVE Fits(<<>>, uri, x)
  BY EmptyRoute, Zenon DEF Sound
<1>1. uri = <<>> /\ x = <<>>
  BY MatchNone
<1>2. Names(<<>>) = <<>> /\ ParamsOf(<<>>) = {}
  BY EmptyRoute DEF ParamsOf
<1> DEFINE values == [i \in {} |-> <<>>]
<1>3. values \in [{} -> ValuesIn(uri)]
  OBVIOUS
<1>4. Filled(<<>>, values) = uri
  <2>1. [i \in DOMAIN <<>> |-> Chosen(<<>>, values, i)] = <<>>
    OBVIOUS
  <2>2. Filled(<<>>, values) = FlattenSeq([i \in DOMAIN <<>> |-> Chosen(<<>>, values, i)])
    BY Zenon DEF Filled, Chosen
  <2> QED
    BY <1>1, <2>1, <2>2, FlattenEmpty, Zenon
<1>5. ASSUME NEW request, IsRequest(request)
      PROVE  Assigns(<<>>, values, request.args, SetArgs(request, <<>>, <<>>).args)
  <2>1. SetArgs(request, <<>>, <<>>) = request
    BY <1>5, SetArgsNone, Zenon
  <2>2. Assigns(<<>>, values, request.args, request.args)
    BY <1>2 DEF Assigns
  <2> QED
    BY <2>1, <2>2, Zenon
<1>6. Gives(<<>>, uri, x, values)
  BY <1>1, <1>2, <1>3, <1>4, <1>5, Zenon DEF Gives
<1>7. <<>> \in Seq(Text) /\ Len(<<>>) = Len(<<>>)
  OBVIOUS
<1> QED
  BY <1>1, <1>2, <1>6, <1>7, Zenon DEF Fits

(* Whatever a route's expression matches, the route stands for.              *)
LEMMA RouteSound == \A route : IsRoute(route) => (Plain(route) => Sound(route))
<1> DEFINE T == {route \in Seq(Parts) : IsRewritten(route) /\ (Plain(route) => Sound(route))}
<1>1. <<>> \in T
  BY EmptyRoute, EmptySound, EmptySeq, Zenon
<1>2. \A route, part, others : Joins(route, part, others) /\ others \in T => route \in T
  BY RouteRound, SoundRound, PlainFirst, Zenon DEF Joins
<1> HIDE DEF T
<1>3. \A route : IsRoute(route) => route \in T
  BY <1>1, <1>2, RouteInduction
<1> QED
  BY <1>3 DEF T

(* The greatest of finitely many numbers.                                    *)
LEMMA MaxExists ==
    ASSUME NEW n \in Nat, NEW S, S \subseteq 0..n, S # {}
    PROVE  \E m \in S : \A k \in S : k <= m
<1> DEFINE D == {n - k : k \in S}
<1>1. \A k \in S : k \in Nat /\ n - k \in Nat /\ n - (n - k) = k
  OBVIOUS
<1>2. D \subseteq Nat /\ D # {}
  BY <1>1
<1>3. Min(D) \in D /\ \A d \in D : Min(D) <= d
  <2> HIDE DEF D
  <2> QED
    BY <1>2, MinIsLeast
<1>4. PICK m \in S : Min(D) = n - m
  BY <1>3
<1>5. \A k \in S : n - m <= n - k
  BY <1>3, <1>4
<1> QED
  BY <1>1, <1>5

-----------------------------------------------------------------------------
(* What is meant matches                                                     *)

(* Max is the greatest element.                                              *)
LEMMA MaxIs ==
    ASSUME NEW S, S \subseteq Nat, NEW m \in S, \A k \in S : k <= m
    PROVE  Max(S) = m
<1>1. Max(S) \in S /\ \A k \in S : Max(S) >= k
  <2>1. \E x \in S : \A y \in S : x >= y
    OBVIOUS
  <2> QED
    BY <2>1 DEF Max
<1>2. PICK x \in S : x = Max(S) /\ \A k \in S : x >= k
  BY <1>1, Zenon
<1>3. x \in Nat /\ m \in Nat /\ x <= m /\ x >= m
  BY <1>2
<1>4. x = m
  BY <1>3
<1> QED
  BY <1>2, <1>4, Zenon

(* Values for its parameters give a URI that the route's expression matches. *)
Complete(route) ==
    \A values \in [ParamsOf(route) -> Text] :
        (\A i \in ParamsOf(route) : GroupTakes(values[i])) =>
            Filled(route, values) \in Text /\ match[Regex(route)][Filled(route, values)] # {}

(* Completeness, part by part.                                               *)
LEMMA CompleteRound ==
    ASSUME NEW route, NEW part, NEW others, Joins(route, part, others), Plain(route),
           IsRewritten(others), Complete(others)
    PROVE  Complete(route)
<1> SUFFICES ASSUME NEW values \in [ParamsOf(route) -> Text],
                    \A i \in ParamsOf(route) : GroupTakes(values[i])
             PROVE  /\ Filled(route, values) \in Text
                    /\ match[Regex(route)][Filled(route, values)] # {}
  BY Zenon DEF Complete
<1> DEFINE later == Later(values, others)
           v == Value(part, values)
           u == Filled(others, later)
           uri == Filled(route, values)
<1>1. RewrittenByParts(route, part, others) /\ Regex(others) \in Text /\ part \in Parts
  BY RouteRound, Zenon DEF IsRewritten, Joins
<1>2. uri = v \o u /\ later \in [ParamsOf(others) -> Text] /\ v \in Text
  BY FilledFirst
<1>3. \A i \in ParamsOf(others) : GroupTakes(later[i])
  BY ParamsSplit DEF Later
<1> HIDE DEF later
<1>4. u \in Text /\ match[Regex(others)][u] # {}
  BY <1>2, <1>3, Zenon DEF Complete
<1>5. PICK rest : rest \in match[Regex(others)][u]
  BY <1>4
<1>6. uri \in Text
  BY <1>2, <1>4, Joined, Zenon
<1> PICK r \in Text : r = Regex(others)
  BY <1>1
<1>7. CASE part.param
  <2>1. v = values[1] /\ 1 \in ParamsOf(route)
    BY <1>7, ParamsSplit DEF Value, ParamsFirst
  <2>2. GroupTakes(v)
    BY <2>1, Zenon
  <2>3. ByGroup(r, uri, <<v>> \o rest)
    BY <1>2, <1>4, <1>5, <2>2, Zenon DEF ByGroup
  <2>4. <<v>> \o rest \in match[<<Group>> \o r][uri]
    BY <1>6, <2>3, MatchGroup, Zenon
  <2>5. Regex(route) = <<Group>> \o r
    BY <1>1, <1>7, Zenon DEF RewrittenByParts
  <2> QED
    BY <1>6, <2>4, <2>5, Zenon
<1>8. CASE ~ part.param
  <2>1. part.text[1] \in Symbols /\ part.text[1] # Group /\ part.text = <<part.text[1]>>
    BY <1>1, <1>8, PartFacts, PlainFirst, Zenon DEF Joins
  <2> PICK s \in Symbols \ {Group} : s = part.text[1]
    BY <2>1
  <2>2. v = <<s>>
    BY <1>8, <2>1, Zenon DEF Value
  <2>3. BySymbol(s, r, uri, rest)
    BY <1>2, <1>4, <1>5, <2>2, Zenon DEF BySymbol
  <2>4. rest \in match[<<s>> \o r][uri]
    BY <1>6, <2>3, MatchSymbol, Zenon
  <2>5. Regex(route) = <<s>> \o r
    BY <1>1, <1>8, Zenon DEF RewrittenByParts
  <2> QED
    BY <1>6, <2>4, <2>5, Zenon
<1> QED
  BY <1>7, <1>8

(* The route of no parts stands for the empty URI, and matches it.           *)
LEMMA EmptyComplete == Complete(<<>>)
<1> SUFFICES ASSUME NEW values \in [ParamsOf(<<>>) -> Text]
             PROVE  Filled(<<>>, values) \in Text /\ match[<<>>][Filled(<<>>, values)] # {}
  BY EmptyRoute, Zenon DEF Complete
<1>1. Filled(<<>>, values) = <<>>
  <2>1. [i \in DOMAIN <<>> |-> Chosen(<<>>, values, i)] = <<>>
    OBVIOUS
  <2>2. Filled(<<>>, values) = FlattenSeq([i \in DOMAIN <<>> |-> Chosen(<<>>, values, i)])
    BY Zenon DEF Filled, Chosen
  <2> QED
    BY <2>1, <2>2, FlattenEmpty, Zenon
<1>2. <<>> \in Text /\ match[<<>>][<<>>] = {<<>>}
  BY MatchNone, TextFacts, Zenon
<1> QED
  BY <1>1, <1>2

(* Every URI that a plain route stands for is matched by its regular         *)
(* expression.                                                               *)
LEMMA RouteComplete == \A route : IsRoute(route) => (Plain(route) => Complete(route))
<1> DEFINE T == {route \in Seq(Parts) : IsRewritten(route) /\ (Plain(route) => Complete(route))}
<1>1. <<>> \in T
  BY EmptyRoute, EmptyComplete, EmptySeq, Zenon
<1>2. \A route, part, others : Joins(route, part, others) /\ others \in T => route \in T
  BY RouteRound, CompleteRound, PlainFirst, Zenon DEF Joins
<1> HIDE DEF T
<1>3. \A route : IsRoute(route) => route \in T
  BY <1>1, <1>2, RouteInduction
<1> QED
  BY <1>3 DEF T

(* Of the matches that there are, one has the longest text for the first     *)
(* group in which it differs from any other.                                 *)
Longer(found, other) ==
    \E i \in DOMAIN found :
        /\ Len(found[i]) > Len(other[i])
        /\ \A j \in 1..(i - 1) : found[j] = other[j]

-----------------------------------------------------------------------------
(* The match that is chosen                                                  *)

(* A match of which the earlier groups are longer than in any other.         *)
Longest(matches, found) ==
    found \in matches /\ \A other \in matches \ {found} : Longer(found, other)

(* All matches have the same number of groups, and if there are any one of   *)
(* them is the longest.                                                      *)
HasLongest(regex) ==
    /\ \E n \in Nat : \A uri \in Text : match[regex][uri] \subseteq [1..n -> Text]
    /\ \A uri \in Text : match[regex][uri] # {} => \E found : Longest(match[regex][uri], found)

(* Matches are compared by the first group, then by the others.              *)
LEMMA LongerFirst ==
    ASSUME NEW v \in Text, NEW w \in Text, NEW n \in Nat,
           NEW found \in [1..n -> Text], NEW other \in [1..n -> Text]
    PROVE  /\ <<v>> \o found \in [1..(n + 1) -> Text]
           /\ Len(w) < Len(v) => Longer(<<v>> \o found, <<w>> \o other)
           /\ w = v /\ Longer(found, other) => Longer(<<v>> \o found, <<w>> \o other)
<1> DEFINE a == <<v>> \o found
           b == <<w>> \o other
<1>1. found \in Seq(Text) /\ Len(found) = n /\ other \in Seq(Text) /\ Len(other) = n
  OBVIOUS
<1>2. /\ a \in Seq(Text) /\ Len(a) = n + 1 /\ a[1] = v
      /\ \A i \in 1..n : a[i + 1] = found[i]
  BY <1>1, Prepended
<1>3. b[1] = w /\ \A i \in 1..n : b[i + 1] = other[i]
  BY <1>1, Prepended
<1>4. Len(v) \in Nat /\ Len(w) \in Nat
  BY TextLength
<1> HIDE DEF a, b
<1>5. a \in [1..(n + 1) -> Text] /\ DOMAIN a = 1..(n + 1)
  BY <1>2
<1>6. ASSUME Len(w) < Len(v) PROVE Longer(a, b)
  <2>1. 1 \in DOMAIN a /\ 1..(1 - 1) = {}
    BY <1>5
  <2> QED
    BY <1>2, <1>3, <1>4, <1>6, <2>1 DEF Longer
<1>7. ASSUME w = v, Longer(found, other) PROVE Longer(a, b)
  <2>1. PICK i \in 1..n : /\ Len(found[i]) > Len(other[i])
                         /\ \A j \in 1..(i - 1) : found[j] = other[j]
    BY <1>7 DEF Longer
  <2>2. i + 1 \in DOMAIN a /\ Len(a[i + 1]) > Len(b[i + 1])
    BY <1>2, <1>3, <1>5, <2>1
  <2>3. ASSUME NEW j \in 1..((i + 1) - 1) PROVE a[j] = b[j]
    <3>1. CASE j = 1
      BY <1>2, <1>3, <1>7, <3>1
    <3>2. CASE j # 1
      <4>1. j - 1 \in 1..(i - 1) /\ j - 1 \in 1..n /\ (j - 1) + 1 = j
        BY <2>1, <3>2
      <4> QED
        BY <1>2, <1>3, <2>1, <4>1
    <3> QED
      BY <3>1, <3>2
  <2> QED
    BY <2>2, <2>3 DEF Longer
<1> QED
  BY <1>5, <1>6, <1>7 DEF a, b

(* The longest match of a group: take the longest beginning that leaves a    *)
(* match of the rest.                                                        *)
LEMMA LongestByGroup ==
    ASSUME NEW r \in Text, HasLongest(r)
    PROVE  HasLongest(<<Group>> \o r)
<1> DEFINE regex == <<Group>> \o r
<1>1. PICK n \in Nat : \A uri \in Text : match[r][uri] \subseteq [1..n -> Text]
  BY Zenon DEF HasLongest
<1>2. ASSUME NEW uri \in Text, NEW x \in match[regex][uri]
      PROVE  x \in [1..(n + 1) -> Text]
  <2>1. ByGroup(r, uri, x)
    BY <1>2, MatchGroup, Zenon
  <2>2. PICK v, u \in Text : \E rest \in match[r][u] :
                uri = v \o u /\ GroupTakes(v) /\ x = <<v>> \o rest
    BY <2>1, Zenon DEF ByGroup
  <2>3. PICK rest \in match[r][u] : x = <<v>> \o rest
    BY <2>2, Zenon
  <2>4. rest \in [1..n -> Text]
    BY <1>1
  <2> QED
    BY <2>3, <2>4, LongerFirst, Zenon
<1>3. ASSUME NEW uri \in Text, match[regex][uri] # {}
      PROVE  \E found : Longest(match[regex][uri], found)
  <2> DEFINE Ends == {e \in 0..Len(uri) :
                        \E v, u \in Text : uri = v \o u /\ GroupTakes(v) /\ Len(v) = e /\ match[r][u] # {}}
  <2>1. ASSUME NEW x \in match[regex][uri]
        PROVE  \E v, u \in Text : \E rest \in match[r][u] :
                   uri = v \o u /\ GroupTakes(v) /\ x = <<v>> \o rest
    <3>1. ByGroup(r, uri, x)
      BY <2>1, MatchGroup, Zenon
    <3> QED
      BY <3>1, Zenon DEF ByGroup
  <2>2. \A v, u \in Text : /\ Len(v) \in Nat /\ Len(u) \in Nat /\ Len(v \o u) = Len(v) + Len(u)
                          /\ SubSeq(v \o u, 1, Len(v)) = v
                          /\ SubSeq(v \o u, Len(v) + 1, Len(v \o u)) = u
    BY TextFacts, Zenon
  <2>3. \A v, u \in Text : uri = v \o u /\ GroupTakes(v) /\ match[r][u] # {} => Len(v) \in Ends
    <3> SUFFICES ASSUME NEW v \in Text, NEW u \in Text, uri = v \o u, GroupTakes(v), match[r][u] # {}
                 PROVE  Len(v) \in Ends
      BY Zenon
    <3>1. Len(v) \in 0..Len(uri)
      BY <2>2
    <3> QED
      BY <3>1, Zenon
  <2>4. Ends # {} /\ Ends \subseteq 0..Len(uri) /\ Len(uri) \in Nat
    <3>1. PICK x : x \in match[regex][uri]
      BY <1>3
    <3>2. PICK v, u \in Text : \E rest \in match[r][u] :
                  uri = v \o u /\ GroupTakes(v) /\ x = <<v>> \o rest
      BY <2>1, <3>1, Zenon
    <3>3. Len(v) \in Ends
      BY <2>3, <3>2, Zenon
    <3> QED
      BY <3>3, TextLength, Zenon
  <2>5. PICK e \in Ends : \A k \in Ends : k <= e
    <3> HIDE DEF Ends
    <3> QED
      BY <2>4, MaxExists
  <2>6. PICK v, u \in Text : uri = v \o u /\ GroupTakes(v) /\ Len(v) = e /\ match[r][u] # {}
    BY <2>5, Zenon
  <2> HIDE DEF Ends
  <2>7. PICK rest : Longest(match[r][u], rest)
    BY <2>6, Zenon DEF HasLongest
  <2> DEFINE found == <<v>> \o rest
  <2>8. rest \in match[r][u] /\ rest \in [1..n -> Text]
    BY <1>1, <2>7 DEF Longest
  <2>9. found \in match[regex][uri]
    <3>1. ByGroup(r, uri, found)
      BY <2>6, <2>8, Zenon DEF ByGroup
    <3> QED
      BY <3>1, MatchGroup, Zenon
  <2>10. ASSUME NEW other \in match[regex][uri] \ {found} PROVE Longer(found, other)
    <3>1. PICK w, t \in Text : \E gs \in match[r][t] :
                  uri = w \o t /\ GroupTakes(w) /\ other = <<w>> \o gs
      BY <2>1, <2>10, Zenon
    <3>2. PICK gs \in match[r][t] : uri = w \o t /\ GroupTakes(w) /\ other = <<w>> \o gs
      BY <3>1, Zenon
    <3>3. gs \in [1..n -> Text] /\ Len(w) \in Ends
      BY <1>1, <2>3, <3>2, Zenon
    <3>4. Len(w) <= Len(v) /\ Len(w) \in Nat /\ Len(v) \in Nat
      BY <2>2, <2>5, <2>6, <3>3
    <3>5. CASE Len(w) < Len(v)
      BY <2>8, <3>2, <3>3, <3>5, LongerFirst, Zenon
    <3>6. CASE Len(w) = Len(v)
      <4>1. w = v /\ t = u
        <5>1. SubSeq(uri, 1, Len(v)) = v /\ SubSeq(uri, Len(v) + 1, Len(uri)) = u
          BY <2>2, <2>6, Zenon
        <5>2. SubSeq(uri, 1, Len(w)) = w /\ SubSeq(uri, Len(w) + 1, Len(uri)) = t
          BY <2>2, <3>2, Zenon
        <5> QED
          BY <3>6, <5>1, <5>2, Zenon
      <4>2. gs # rest
        BY <2>10, <3>2, <4>1, Zenon
      <4>3. gs \in match[r][u] \ {rest}
        BY <4>1, <4>2
      <4>4. Longer(rest, gs)
        BY <2>7, <4>3, Zenon DEF Longest
      <4> QED
        BY <2>8, <3>2, <3>3, <4>1, <4>4, LongerFirst, Zenon
    <3> QED
      BY <3>4, <3>5, <3>6
  <2> QED
    BY <2>9, <2>10, Zenon DEF Longest
<1>4. n + 1 \in Nat /\ \A uri \in Text : match[regex][uri] \subseteq [1..(n + 1) -> Text]
  BY <1>2
<1> HIDE DEF regex
<1>5. HasLongest(regex)
  BY <1>3, <1>4, Zenon DEF HasLongest
<1> QED
  BY <1>5 DEF regex

(* The longest match of a symbol is the longest of the rest.                 *)
LEMMA LongestBySymbol ==
    ASSUME NEW s \in Symbols \ {Group}, NEW r \in Text, HasLongest(r)
    PROVE  HasLongest(<<s>> \o r)
<1> DEFINE regex == <<s>> \o r
<1>1. PICK n \in Nat : \A uri \in Text : match[r][uri] \subseteq [1..n -> Text]
  BY Zenon DEF HasLongest
<1>2. ASSUME NEW uri \in Text, NEW x \in match[regex][uri]
      PROVE  \E u \in Text : x \in match[r][u] /\ match[regex][uri] = match[r][u]
  <2>1. BySymbol(s, r, uri, x)
    BY <1>2, MatchSymbol, Zenon
  <2>2. PICK c \in Symbols, u \in Text : uri = <<c>> \o u /\ s \in {c, "."} /\ x \in match[r][u]
    BY <2>1, Zenon DEF BySymbol
  <2>3. ASSUME NEW y \in match[r][u] PROVE y \in match[regex][uri]
    <3>1. BySymbol(s, r, uri, y)
      BY <2>2, <2>3, Zenon DEF BySymbol
    <3> QED
      BY <3>1, MatchSymbol, Zenon
  <2>4. ASSUME NEW y \in match[regex][uri] PROVE y \in match[r][u]
    <3>1. BySymbol(s, r, uri, y)
      BY <2>4, MatchSymbol, Zenon
    <3>2. PICK d \in Symbols, t \in Text : uri = <<d>> \o t /\ y \in match[r][t]
      BY <3>1, Zenon DEF BySymbol
    <3>3. Tail(uri) = t /\ Tail(uri) = u
      BY <2>2, <3>2, TextPrepended, Zenon
    <3> QED
      BY <3>2, <3>3, Zenon
  <2>5. match[regex][uri] = match[r][u]
    BY <2>3, <2>4
  <2> QED
    BY <2>2, <2>5, Zenon
<1> HIDE DEF regex
<1>3. \A uri \in Text : match[regex][uri] \subseteq [1..n -> Text]
  BY <1>1, <1>2
<1>4. ASSUME NEW uri \in Text, match[regex][uri] # {}
      PROVE  \E found : Longest(match[regex][uri], found)
  <2>1. PICK u \in Text : match[regex][uri] = match[r][u]
    BY <1>2, <1>4
  <2>2. \E found : Longest(match[r][u], found)
    BY <1>4, <2>1, Zenon DEF HasLongest
  <2> QED
    BY <2>1, <2>2, Zenon
<1>5. HasLongest(regex)
  BY <1>3, <1>4, Zenon DEF HasLongest
<1> QED
  BY <1>5 DEF regex

(* The empty expression has one match.                                       *)
LEMMA LongestOfNone == HasLongest(<<>>)
<1>1. \A uri \in Text : match[<<>>][uri] \subseteq {<<>>}
  BY MatchNone
<1>2. 0 \in Nat /\ <<>> \in [1..0 -> Text]
  OBVIOUS
<1>3. \A uri \in Text : match[<<>>][uri] \subseteq [1..0 -> Text]
  BY <1>1, <1>2
<1>4. \A uri \in Text : match[<<>>][uri] # {} => Longest(match[<<>>][uri], <<>>)
  BY <1>1 DEF Longest
<1> QED
  BY <1>2, <1>3, <1>4, Zenon DEF HasLongest

(* regex_match always has a result to choose: some match is the longest.     *)
LEMMA LongestExists == \A regex \in Text : HasLongest(regex)
<1> DEFINE T == {regex \in Text : HasLongest(regex)}
<1>1. ASSUME NEW regex \in Text, \A y \in Text : Lengths[y] < Lengths[regex] => y \in T
      PROVE  HasLongest(regex)
  <2>1. CASE regex = <<>>
    BY <2>1, LongestOfNone, Zenon
  <2>2. CASE regex # <<>>
    <3>1. /\ Head(regex) \in Symbols /\ Tail(regex) \in Text /\ regex = <<Head(regex)>> \o Tail(regex)
          /\ Len(Tail(regex)) = Len(regex) - 1 /\ Len(regex) \in Nat \ {0}
      BY <2>2, HeadAndTail, Zenon DEF Text
    <3>2. Lengths[Tail(regex)] < Lengths[regex]
      BY <3>1 DEF Lengths
    <3>3. HasLongest(Tail(regex))
      BY <1>1, <3>1, <3>2, Zenon
    <3>4. Head(regex) = Group \/ Head(regex) \in Symbols \ {Group}
      BY <3>1
    <3> QED
      BY <3>1, <3>3, <3>4, LongestByGroup, LongestBySymbol, Zenon
  <2> QED
    BY <2>1, <2>2
<1>2. \A regex \in Text : (\A y \in Text : Lengths[y] < Lengths[regex] => y \in T) => regex \in T
  BY <1>1
<1> HIDE DEF T
<1>3. Text \subseteq T
  BY <1>2, LengthsAreNat, RankInduction
<1> QED
  BY <1>3 DEF T

(* What is in one of two texts is in both together.                          *)
LEMMA SymbolsJoined ==
    ASSUME NEW S, NEW a \in Seq(S), NEW b \in Seq(S)
    PROVE  ToSet(a \o b) = ToSet(a) \cup ToSet(b)
<1> DEFINE c == a \o b
<1>1. /\ DOMAIN a = 1..Len(a) /\ DOMAIN b = 1..Len(b) /\ DOMAIN c = 1..Len(c)
      /\ Len(a) \in Nat /\ Len(b) \in Nat /\ Len(c) = Len(a) + Len(b)
      /\ \A i \in 1..Len(a) : c[i] = a[i]
      /\ \A i \in 1..Len(b) : c[Len(a) + i] = b[i]
  OBVIOUS
<1> HIDE DEF c
<1>2. /\ \A i \in 1..Len(a) : i \in 1..Len(c)
      /\ \A i \in 1..Len(b) : Len(a) + i \in 1..Len(c)
      /\ \A i \in 1..Len(c) : i \in 1..Len(a) \/ (i - Len(a) \in 1..Len(b) /\ Len(a) + (i - Len(a)) = i)
  BY <1>1
<1>3. \A s, x : x \in ToSet(s) <=> \E i \in DOMAIN s : s[i] = x
  BY DEF ToSet
<1>4. ASSUME NEW x PROVE x \in ToSet(c) <=> x \in ToSet(a) \/ x \in ToSet(b)
  <2>1. x \in ToSet(c) => x \in ToSet(a) \/ x \in ToSet(b)
    <3> SUFFICES ASSUME NEW i \in 1..Len(c), c[i] = x PROVE x \in ToSet(a) \/ x \in ToSet(b)
      BY <1>1, <1>3
    <3>1. CASE i \in 1..Len(a)
      <4>1. a[i] = x /\ i \in DOMAIN a
        BY <1>1, <3>1
      <4> QED
        BY <1>3, <4>1, Zenon
    <3>2. CASE i \notin 1..Len(a)
      <4>1. b[i - Len(a)] = x /\ i - Len(a) \in DOMAIN b
        BY <1>1, <1>2, <3>2
      <4> QED
        BY <1>3, <4>1, Zenon
    <3> QED
      BY <3>1, <3>2
  <2>2. x \in ToSet(a) => x \in ToSet(c)
    <3> SUFFICES ASSUME NEW i \in 1..Len(a), a[i] = x PROVE x \in ToSet(c)
      BY <1>1, <1>3
    <3>1. c[i] = x /\ i \in DOMAIN c
      BY <1>1, <1>2
    <3> QED
      BY <1>3, <3>1, Zenon
  <2>3. x \in ToSet(b) => x \in ToSet(c)
    <3> SUFFICES ASSUME NEW i \in 1..Len(b), b[i] = x PROVE x \in ToSet(c)
      BY <1>1, <1>3
    <3>1. c[Len(a) + i] = x /\ Len(a) + i \in DOMAIN c
      BY <1>1, <1>2
    <3> QED
      BY <1>3, <3>1, Zenon
  <2> QED
    BY <2>1, <2>2, <2>3
<1> QED
  BY <1>4 DEF c

-----------------------------------------------------------------------------
(* matchUrl                                                                  *)

(* A route written without the group symbol is plain, part by part.          *)
LEMMA PlainRound ==
    ASSUME NEW route, NEW part, NEW others, Joins(route, part, others), IsRewritten(others),
           Group \notin ToSet(Written(route))
    PROVE  /\ Group \notin ToSet(Written(others))
           /\ Plain(others) => Plain(route)
<1>1. /\ Len(others) \in Nat /\ Len(route) = Len(others) + 1 /\ part \in Parts
      /\ route[1] = part /\ \A j \in 1..Len(others) : route[j + 1] = others[j]
  BY DEF Joins
<1>2. DOMAIN route = 1..Len(route) /\ DOMAIN others = 1..Len(others)
  BY ParamsSplit
<1>3. ToSet(Written(route)) = ToSet(Piece(part)) \cup ToSet(Written(others))
  <2>1. Piece(part) \in Text /\ Written(others) \in Text
    BY <1>1, PieceIsText, Zenon DEF IsRewritten
  <2>2. Written(route) = Piece(part) \o Written(others)
    BY WrittenFirst, Zenon
  <2> QED
    BY <2>1, <2>2, SymbolsJoined DEF Text
<1>4. ASSUME ~ part.param PROVE part.text[1] # Group
  <2>1. part.text[1] \in ToSet(part.text)
    <3>1. Len(part.text) = 1 /\ part.text \in Text
      BY <1>1, <1>4 DEF Joins, IsPart, Parts
    <3>2. 1 \in DOMAIN part.text
      BY <3>1 DEF Text
    <3> QED
      BY <3>2 DEF ToSet
  <2>2. Piece(part) = part.text
    BY <1>4, Zenon DEF Piece
  <2> QED
    BY <1>3, <2>1, <2>2
<1>5. ASSUME Plain(others), NEW i \in DOMAIN route, ~ route[i].param PROVE route[i].text[1] # Group
  <2>1. CASE i = 1
    BY <1>1, <1>4, <1>5, <2>1
  <2>2. CASE i # 1
    <3>1. i - 1 \in DOMAIN others /\ (i - 1) + 1 = i
      BY <1>1, <1>2, <2>2
    <3>2. route[i] = others[i - 1]
      BY <1>1, <1>2, <3>1
    <3> QED
      BY <1>5, <3>1, <3>2 DEF Plain
  <2> QED
    BY <2>1, <2>2
<1> QED
  BY <1>3, <1>5 DEF Plain

(* A route written without the group symbol is plain.                        *)
LEMMA WrittenPlain == \A route : IsRoute(route) => (Group \notin ToSet(Written(route)) => Plain(route))
<1> DEFINE T == {route \in Seq(Parts) : /\ IsRewritten(route)
                                        /\ Group \notin ToSet(Written(route)) => Plain(route)}
<1>1. <<>> \in T
  <2>1. Plain(<<>>)
    BY DEF Plain
  <2> QED
    BY <2>1, EmptyRoute, EmptySeq, Zenon
<1>2. \A route, part, others : Joins(route, part, others) /\ others \in T => route \in T
  BY RouteRound, PlainRound, Zenon DEF Joins
<1> HIDE DEF T
<1>3. \A route : IsRoute(route) => route \in T
  BY <1>1, <1>2, RouteInduction
<1> QED
  BY <1>3 DEF T

(* matchUrl for a resource that is no route, and for a route.                *)
LEMMA MalformedUnmatched ==
    ASSUME NEW text \in Text, LacksBrace(text), NEW request
    PROVE  matchUrl(request, createRegexFromURI(text)) = {}
<1>1. rewrite[text].valid = FALSE
  BY RewriteMalformed
<1> QED
  BY <1>1, Zenon DEF matchUrl, createRegexFromURI

(* The loop over the groups changes arguments only.                          *)
LEMMA SetArgsTyped ==
    ASSUME NEW request, IsRequest(request), NEW names \in Seq(Text), NEW groups \in Seq(Text),
           Len(groups) = Len(names)
    PROVE  SetArgs(request, names, groups) \in WithArguments(request)
<1>1. PICK partial \in [0..Len(groups) -> WithArguments(request)] :
         Sets(partial, request, names, groups)
  BY SetArgsPartial
<1>2. Len(groups) \in 0..Len(groups)
  OBVIOUS
<1>3. partial[Len(groups)] \in WithArguments(request)
  BY <1>1, <1>2
<1>4. SetArgs(request, names, groups) = partial[Len(groups)]
  BY <1>1, Zenon DEF Sets
<1> QED
  BY <1>3, <1>4

(* The values are what the route's parameters have in the URI.               *)
Meant(route, uri, values) ==
    /\ values \in [ParamsOf(route) -> ValuesIn(uri)]
    /\ Literal(".") \notin ToSet(route) => Filled(route, values) = uri

(* What matchUrl accepts is meant: the route stands for the URI, and the     *)
(* arguments are the values of its parameters.                               *)
LEMMA MatchedIsMeant ==
    ASSUME NEW route, IsRoute(route), Plain(route),
           NEW request, IsRequest(request), request.uri \in Text,
           NEW r \in matchUrl(request, createRegexFromURI(Written(route)))
    PROVE  /\ r \in WithArguments(request)
           /\ \E values : /\ Meant(route, request.uri, values)
                          /\ Assigns(route, values, request.args, r.args)
<1>1. IsRewritten(route) /\ Sound(route)
  BY RouteRewritten, RouteSound, Zenon
<1>2. createRegexFromURI(Written(route)) = rewrite[Written(route)]
  BY Zenon DEF createRegexFromURI
<1>3. PICK groups \in regex_match(request.uri, Regex(route)) :
         r = SetArgs(request, Names(route), groups)
  BY <1>1, <1>2, Zenon DEF matchUrl, IsRewritten, Regex, Names
<1>4. groups \in match[Regex(route)][request.uri]
  BY Zenon DEF regex_match, Matches
<1>5. Fits(route, request.uri, groups)
  BY <1>1, <1>4, Zenon DEF Sound
<1>6. PICK values : Gives(route, request.uri, groups, values)
  BY <1>5, Zenon DEF Fits
<1>7. Names(route) \in Seq(Text) /\ groups \in Seq(Text) /\ Len(groups) = Len(Names(route))
  BY <1>1, <1>5, Zenon DEF Fits, IsRewritten
<1>8. r \in WithArguments(request)
  BY <1>3, <1>7, SetArgsTyped, Zenon
<1>9. Meant(route, request.uri, values) /\ Assigns(route, values, request.args, r.args)
  BY <1>3, <1>6, Zenon DEF Gives, Meant
<1> QED
  BY <1>8, <1>9

(* What matchUrl rejects is not meant: the route does not stand for the URI. *)
LEMMA MeantIsMatched ==
    ASSUME NEW route, IsRoute(route), Plain(route),
           NEW request, request.uri \in Text,
           matchUrl(request, createRegexFromURI(Written(route))) = {}
    PROVE  Fillings(route, request.uri) = {}
<1> SUFFICES ASSUME NEW values \in Fillings(route, request.uri) PROVE FALSE
  OBVIOUS
<1> DEFINE uri == request.uri
<1>1. IsRewritten(route) /\ Complete(route) /\ HasLongest(Regex(route))
  BY RouteRewritten, RouteComplete, LongestExists, Zenon DEF IsRewritten
<1>2. values \in [ParamsOf(route) -> ValuesIn(uri)] /\ Filled(route, values) = uri
  BY Zenon DEF Fillings, ValuesIn
<1>3. ValuesIn(uri) \subseteq Text /\ \A v \in ValuesIn(uri) : GroupTakes(v)
  BY ValuesAreTexts, Zenon
<1> HIDE DEF uri
<1>4. values \in [ParamsOf(route) -> Text] /\ \A i \in ParamsOf(route) : GroupTakes(values[i])
  BY <1>2, <1>3
<1>5. match[Regex(route)][uri] # {}
  BY <1>1, <1>2, <1>4, Zenon DEF Complete
<1>6. uri \in Text
  BY DEF uri
<1>7. PICK found : Longest(match[Regex(route)][uri], found)
  BY <1>1, <1>5, <1>6, Zenon DEF HasLongest
<1>8. found \in regex_match(uri, Regex(route))
  BY <1>7, Zenon DEF regex_match, Matches, Longest, Longer
<1>9. SetArgs(request, Names(route), found) \in matchUrl(request, rewrite[Written(route)])
  BY <1>1, <1>8, Zenon DEF matchUrl, IsRewritten, Regex, Names, uri
<1> QED
  BY <1>9, Zenon DEF createRegexFromURI
=============================================================================
