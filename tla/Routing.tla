------------------------------- MODULE Routing -------------------------------
(***************************************************************************)
(* The routes of the resources: createRegexFromURI turns the text of a     *)
(* route into a regular expression and the names of its parameters, and    *)
(* matchUrl matches a request's URI against it.  For comparison, a route   *)
(* is also given a meaning of its own: it is a sequence of literal symbols *)
(* and parameters, and it stands for the URIs that one gets by writing a   *)
(* value for each parameter.                                               *)
(***************************************************************************)
EXTENDS Message

(* The group that replaces a parameter, as one symbol.                       *)
Group == "([^/]+)"

(* What a parameter stands between.                                          *)
Open == "{"
Close == "}"

ASSUME RoutingAssumption == {Group, Open, Close, "."} \subseteq Symbols

(* What the loop makes of the rest of the route that it has yet to rewrite.  *)
(* The search goes on behind the group, so no text is rewritten twice.  Of   *)
(* an invalid resource neither expression nor names are used.                *)
rewrite[rest \in Text] ==
    LET pos == Find(rest, <<Open>>, 1)
        endPos == Find(rest, <<Close>>, pos)
        others == rewrite[SubSeq(rest, endPos + 1, Len(rest))]
    IN  IF pos = 0 THEN [valid |-> TRUE, regex |-> rest, paramNames |-> <<>>]
        ELSE IF endPos = 0 THEN [valid |-> FALSE, regex |-> <<>>, paramNames |-> <<>>]
        ELSE [valid |-> others.valid,
              regex |-> SubSeq(rest, 1, pos - 1) \o <<Group>> \o others.regex,
              paramNames |-> <<SubSeq(rest, pos + 1, endPos - 1)>> \o others.paramNames]

createRegexFromURI(uri) == rewrite[uri]

(* Mutant: the group is (.+).                                                *)
GroupTakesAny(text) == text # <<>>

(* What the group matches.                                                   *)
GroupTakes(text) == text # <<>> /\ "/" \notin ToSet(text)

(* The ways in which an expression made of symbols, "." and groups matches   *)
(* the whole of a text: for each, what the groups take.                      *)
match[regex \in Text] ==
    [uri \in Text |->
        IF regex = <<>> THEN IF uri = <<>> THEN {<<>>} ELSE {}
        ELSE IF Head(regex) = Group
        THEN UNION {{<<SubSeq(uri, 1, e)>> \o groups :
                        groups \in match[Tail(regex)][SubSeq(uri, e + 1, Len(uri))]} :
                       e \in {i \in 1..Len(uri) : GroupTakes(SubSeq(uri, 1, i))}}
        ELSE IF uri # <<>> /\ Head(regex) \in {Head(uri), "."}
        THEN match[Tail(regex)][Tail(uri)]
        ELSE {}]

Matches(uri, regex) == match[regex][uri]

(* std::regex_match tries a longer text for a group before a shorter one,    *)
(* from the first group on: the match it finds, if there is any.             *)
regex_match(uri, regex) ==
    {found \in Matches(uri, regex) :
        \A other \in Matches(uri, regex) \ {found} :
            \E i \in DOMAIN found :
                /\ Len(found[i]) > Len(other[i])
                /\ \A j \in 1..(i - 1) : found[j] = other[j]}

(* The loop over what the groups took.                                       *)
SetArgs(request, names, groups) ==
    LET after[i \in 0..Len(groups)] ==
            IF i = 0 THEN request ELSE setArg(after[i - 1], names[i], groups[i])
    IN  after[Len(groups)]

(* The request with its arguments set, or none if the route does not match.  *)
matchUrl(request, resource) ==
    {SetArgs(request, resource.paramNames, groups) :
        groups \in IF resource.valid THEN regex_match(request.uri, resource.regex) ELSE {}}

-----------------------------------------------------------------------------
(* What a route means                                                        *)

Literal(symbol) == [param |-> FALSE, text |-> <<symbol>>]
Param(name) == [param |-> TRUE, text |-> name]
ParamsOf(route) == {i \in DOMAIN route : route[i].param}

(* The name of a parameter ends with the first closing brace.                *)
IsRoute(route) ==
    /\ route \in Seq([param : BOOLEAN, text : Text])
    /\ \A i \in DOMAIN route :
          IF route[i].param THEN Close \notin ToSet(route[i].text)
          ELSE Len(route[i].text) = 1 /\ route[i].text[1] # Open

(* A text with an opening brace that no closing one follows.                 *)
LacksBrace(text) ==
    \E i \in DOMAIN text : text[i] = Open /\ \A j \in i..Len(text) : text[j] # Close

(* The route as the application writes it.                                   *)
Written(route) ==
    FlattenSeq([i \in DOMAIN route |->
                   IF route[i].param THEN <<Open>> \o route[i].text \o <<Close>> ELSE route[i].text])

(* The URI that it stands for, given values for its parameters.              *)
Filled(route, values) ==
    FlattenSeq([i \in DOMAIN route |-> IF route[i].param THEN values[i] ELSE route[i].text])

(* The values that give the URI: texts that are not empty and have no slash. *)
Fillings(route, uri) ==
    LET parts == {part \in SubSeqs(uri) : part # <<>> /\ "/" \notin ToSet(part)}
    IN  {values \in [ParamsOf(route) -> parts] : Filled(route, values) = uri}
=============================================================================
