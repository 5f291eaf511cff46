----------------------------- MODULE MCDispatch -----------------------------
(* Instances of Dispatch for TLC.  Symbols of URIs are characters: "t"       *)
(* stands for the "test" of the tests.                                       *)
EXTENDS Dispatch

AnySymbol == STRING
CodeAsMessage == [code \in HttpStatusCode |-> ToString(code)]
Id == Param(<<"i", "d">>)
Slash == Literal("/")
TestRoute == <<Slash, Literal("t")>>

(* "/t" and "/t/{id}" as in the tests; "/{a}/{a}" overlaps with the second   *)
(* and repeats a name; "/{a}-{b}" has parameters inside a part, and more     *)
(* than one way to fill them; "/t.x" is a regular expression; "/t/{id" lacks *)
(* its brace.  "/t" has no handler.                                          *)
OverlappingRoutes ==
    { TestRoute,
      TestRoute \o <<Slash, Id>>,
      <<Slash, Param(<<"a">>), Slash, Param(<<"a">>)>>,
      <<Slash, Param(<<"a">>), Literal("-"), Param(<<"b">>)>>,
      TestRoute \o <<Literal("."), Literal("x")>> }
LeftOpen == {<<"/", "t", "/", "{", "i", "d">>}
WithHandler == {Written(route) : route \in OverlappingRoutes \ {TestRoute}} \cup LeftOpen

Asks(method, uri, headers, body) ==
    [method |-> method, uri |-> uri, headers |-> headers, body |-> body]
Received(message, length) == [message |-> message, length |-> length]
Whole(message) == Received(message, Len(Composed(message)))

Uris ==
    { <<>>, <<"/">>, <<"/", "t">>, <<"/", "t", "/">>, <<"/", "t", "/", "1", "-", "2">>,
      <<"/", "1", "/", "2">>, <<"/", "t", "/", "1", "/", "2">>, <<"/", "t", "/", "{", "i", "d">>, <<"/", "t", "/", "/">>,
      <<"/", "/", "1">>, <<"/", "1", "-", "2", "-", "t">>, <<"/", "-", "1">>,
      <<"/", "t", ".", "x">>, <<"/", "t", "-", "x">>, <<"/", "t", "?", "x", "=", "1">>,
      <<"/", "t", "/", "?", "x">> }

(* A message of which any part may arrive, with a blank line in its body,    *)
(* and one that has no headers.                                              *)
Upload == Asks("POST", <<"/", "t", "/", "1">>, <<<<"Host">>, <<"X", ": ", "y">>>>,
               <<"a">> \o Eol \o Eol \o <<"b">>)
Bare == Asks("PUT", <<"/", "t", "/", "1">>, <<>>, <<"a">>)

RoutingRequests ==
    {Whole(Asks("GET", uri, <<<<"Host">>>>, <<>>)) : uri \in Uris}
    \cup {Received(Upload, length) : length \in 0..Len(Composed(Upload))}
    \cup {Whole(Bare), Whole(Asks("HEAD", <<"/", "t", "/", "1">>, <<>>, <<>>))}

\* The second does not fit 16 bits: 65536 + 200.
RenderCodes == {201, 65736}
RenderTexts == {<<"x">>}
RenderHeaders == {"X-Test"}

(* No URI matches both "/t" and "/t.x", and the invalid resource matches     *)
(* none: their places matter less than those of the others.                  *)
Place(pattern) == CHOOSE i \in DOMAIN order : order[i] = pattern
RoutingInit ==
    /\ DispatchInit
    /\ Place(<<"/", "t">>) < Place(<<"/", "t", ".", "x">>)
    /\ {order[1], order[Count]} \cap LeftOpen # {}

RoutingSpec == RoutingInit /\ [][DispatchNext]_dispatchVars /\ WF_dispatchVars(IoNext)

(* Two resources whose tables are shared with the application: one is asked  *)
(* for while either of them is changed.                                      *)
OtherRoute == <<Slash, Literal("x")>>
TwoRoutes == {TestRoute, OtherRoute}
TwoPatterns == {Written(TestRoute), Written(OtherRoute)}
MethodRequests ==
    {Whole(Asks(m, <<"/", "t">>, <<>>, <<>>)) : m \in {"GET", "HEAD"}}
OneCode == {200}
None == {}

(* The loop meets the other resource first.                                  *)
TableInit == DispatchInit /\ order[1] = Written(OtherRoute)
TableSpec == TableInit /\ [][DispatchNext]_dispatchVars
=============================================================================
