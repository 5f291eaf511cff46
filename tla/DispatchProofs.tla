---------------------------- MODULE DispatchProofs ----------------------------
(***************************************************************************)
(* Whatever the resources, the requests, the responses of user code and    *)
(* the changes that the application makes to the tables: the tables are    *)
(* obeyed, an Allow header names what they allow, requests are routed as   *)
(* the routes mean and reach user code as they were sent, and clients can  *)
(* read the responses.  Each of these has its invariant, and a lemma that  *)
(* every step keeps it.                                                    *)
(***************************************************************************)
EXTENDS Dispatch, RoutingProofs, FiniteSetTheorems

(* A response that user code made; its status is none that the server gives. *)
OwnResponse(r) ==
    /\ DOMAIN r = {"statusCode", "body", "headers"}
    /\ r.statusCode \in Codes

(* The status of the responses that the server makes itself.                 *)
LEMMA OwnStatus ==
    /\ createBadRequestResponse.statusCode = 400
    /\ createNotFoundResponse.statusCode = 404
    /\ empty_render.statusCode = 200
BY DEF createBadRequestResponse, createNotFoundResponse, empty_render, HttpResponse

(* What user code does to a response leaves it one of its own.               *)
LEMMA SettersKeep ==
    ASSUME NEW r, OwnResponse(r)
    PROVE  /\ \A code \in Codes : OwnResponse(setStatusCode(r, code))
           /\ \A name, value : OwnResponse(setHeader(r, name, value))
           /\ \A value : OwnResponse(setContentType(r, value))
           /\ \A body : OwnResponse(setBody(r, body)) /\ OwnResponse(addBody(r, body))
BY DEF OwnResponse, setStatusCode, setHeader, setContentType, setBody, addBody

-----------------------------------------------------------------------------
(* The types of requests and responses                                       *)

(* A key of m_resourceMap has no braces, or is a plain route as it is        *)
(* written.                                                                  *)
LEMMA PatternKinds ==
    \A p \in Patterns :
        \/ p \in Text /\ LacksBrace(p)
        \/ \E route \in Routes : Written(route) = p /\ IsRoute(route) /\ Plain(route)
<1> SUFFICES ASSUME NEW p \in Patterns
             PROVE  \/ p \in Text /\ LacksBrace(p)
                    \/ \E route \in Routes : Written(route) = p /\ IsRoute(route) /\ Plain(route)
  OBVIOUS
<1>1. CASE p \in Malformed
  BY <1>1, DispatchAssumption, Zenon
<1>2. CASE p \in {Written(route) : route \in Routes}
  <2>1. PICK route \in Routes : p = Written(route)
    BY <1>2
  <2>2. Group \notin ToSet(p)
    <3>1. (RegexSyntax \cup {Group}) \cap ToSet(p) = {}
      BY DispatchAssumption, Zenon
    <3> QED
      BY <3>1
  <2>3. IsRoute(route)
    BY DispatchAssumption, Zenon
  <2>4. Plain(route)
    BY <2>1, <2>2, <2>3, WrittenPlain, Zenon
  <2> QED
    BY <2>1, <2>3, <2>4, Zenon
<1> QED
  BY <1>1, <1>2 DEF Patterns

(* All routes are plain.                                                     *)
LEMMA PlainRoutes == \A route \in Routes : IsRoute(route) /\ Plain(route) /\ Written(route) \in Patterns
<1> SUFFICES ASSUME NEW route \in Routes
             PROVE  IsRoute(route) /\ Plain(route) /\ Written(route) \in Patterns
  OBVIOUS
<1>1. Written(route) \in Patterns
  BY DEF Patterns
<1>2. IsRoute(route)
  BY DispatchAssumption, Zenon
<1>3. Group \notin ToSet(Written(route))
  <2>1. (RegexSyntax \cup {Group}) \cap ToSet(Written(route)) = {}
    BY <1>1, DispatchAssumption, Zenon
  <2> QED
    BY <2>1
<1> QED
  BY <1>1, <1>2, <1>3, WrittenPlain, Zenon

(* A typed request has a URI, and stays typed whatever its arguments are.    *)
LEMMA RequestFacts ==
    ASSUME NEW r \in RequestType
    PROVE  IsRequest(r) /\ r.uri \in Text /\ WithArguments(r) \subseteq RequestType
BY DEF RequestType, IsRequest, WithArguments

(* matchUrl changes the arguments of a request only, and leaves it typed.    *)
LEMMA MatchUrlType ==
    ASSUME NEW p \in Patterns, NEW r \in RequestType, NEW x \in matchUrl(r, createRegexFromURI(p))
    PROVE  x \in RequestType /\ x \in WithArguments(r)
<1>1. ~ (p \in Text /\ LacksBrace(p))
  BY MalformedUnmatched
<1>2. PICK route \in Routes : Written(route) = p /\ IsRoute(route) /\ Plain(route)
  BY <1>1, PatternKinds, Zenon
<1>3. x \in matchUrl(r, createRegexFromURI(Written(route)))
  BY <1>2
<1>4. x \in WithArguments(r)
  BY <1>2, <1>3, RequestFacts, MatchedIsMeant, Zenon
<1> QED
  BY <1>4, RequestFacts, Zenon

(* Headers are a finite map of texts by names.                               *)
NameSets == {names \in SUBSET Symbols : IsFiniteSet(names)}
HeaderMaps == UNION {[names -> Text] : names \in NameSets}
ResponseType == [statusCode : Nat, body : Text, headers : HeaderMaps]

(* One more header.                                                          *)
LEMMA HeaderPut ==
    ASSUME NEW headers \in HeaderMaps, NEW name \in Symbols, NEW value \in Text
    PROVE  Put(headers, name, value) \in HeaderMaps
<1>1. PICK names \in NameSets : headers \in [names -> Text]
  BY DEF HeaderMaps
<1>2. Put(headers, name, value) \in [names \cup {name} -> Text]
  BY <1>1 DEF Put
<1>3. names \cup {name} \in NameSets
  <2>1. IsFiniteSet({name}) /\ IsFiniteSet(names)
    BY FS_Singleton DEF NameSets
  <2>2. IsFiniteSet(names \cup {name})
    BY <2>1, FS_Union
  <2> QED
    BY <2>2 DEF NameSets
<1> QED
  BY <1>2, <1>3, Zenon DEF HeaderMaps

(* A response made without headers.                                          *)
LEMMA NoHeaders == <<>> \in HeaderMaps
<1>1. <<>> \in [{} -> Text] /\ {} \in NameSets
  BY FS_EmptySet DEF NameSets
<1> QED
  BY <1>1, Zenon DEF HeaderMaps

(* The constructor makes a typed response.                                   *)
LEMMA MadeType ==
    ASSUME NEW code \in Nat, NEW body \in Text, NEW headers \in HeaderMaps
    PROVE  HttpResponse(code, body, headers) \in ResponseType
<1>1. "Content-Type" \in Symbols /\ <<"text/plain">> \in Text
  <2>1. "text/plain" \in Symbols /\ "Content-Type" \in Symbols
    BY WordsAreSymbols
  <2> QED
    BY <2>1, TextFacts, Zenon
<1>2. Put(headers, "Content-Type", <<"text/plain">>) \in HeaderMaps
  BY <1>1, HeaderPut, Zenon
<1> QED
  BY <1>2 DEF HttpResponse, ResponseType

(* What user code may do to a response leaves it typed.                      *)
LEMMA SetterTypes ==
    ASSUME NEW r \in ResponseType
    PROVE  /\ \A code \in Nat : setStatusCode(r, code) \in ResponseType
           /\ \A name \in Symbols, value \in Text : setHeader(r, name, value) \in ResponseType
           /\ \A value \in Text : setContentType(r, value) \in ResponseType
           /\ \A body \in Text : setBody(r, body) \in ResponseType /\ addBody(r, body) \in ResponseType
<1>1. \A code \in Nat : setStatusCode(r, code) \in ResponseType
  BY DEF setStatusCode, ResponseType
<1>2. ASSUME NEW name \in Symbols, NEW value \in Text PROVE setHeader(r, name, value) \in ResponseType
  <2>1. Put(r.headers, name, value) \in HeaderMaps
    BY HeaderPut DEF ResponseType
  <2> QED
    BY <2>1 DEF setHeader, ResponseType
<1>3. \A value \in Text : setContentType(r, value) \in ResponseType
  <2>1. "Content-Type" \in Symbols
    BY WordsAreSymbols
  <2> QED
    BY <1>2, <2>1, Zenon DEF setContentType
<1>4. ASSUME NEW body \in Text
      PROVE  setBody(r, body) \in ResponseType /\ addBody(r, body) \in ResponseType
  <2>1. r.body \o body \in Text
    <3>1. r.body \in Text
      BY DEF ResponseType
    <3> QED
      BY <3>1, Joined, Zenon
  <2> QED
    BY <2>1 DEF setBody, addBody, ResponseType
<1> QED
  BY <1>1, <1>2, <1>3, <1>4

(* The responses of the server itself are typed.                             *)
LEMMA ServerTypes ==
    /\ createBadRequestResponse \in ResponseType /\ createNotFoundResponse \in ResponseType
    /\ empty_render \in ResponseType
    /\ \A methods \in Text : createMethodNotAllowed(methods) \in ResponseType
<1>1. /\ <<"Bad Request">> \in Text /\ <<"Not Found">> \in Text /\ <<"Method not allowed">> \in Text
      /\ "Allow" \in Symbols /\ <<>> \in Text
  <2>1. "Bad Request" \in Symbols /\ "Not Found" \in Symbols /\ "Method not allowed" \in Symbols /\ "Allow" \in Symbols
    BY WordsAreSymbols
  <2> QED
    BY <2>1, TextFacts, Zenon
<1>2. 200 \in Nat /\ 400 \in Nat /\ 404 \in Nat /\ 405 \in Nat
  OBVIOUS
<1>3. \A methods \in Text : createMethodNotAllowed(methods) \in ResponseType
  <2>1. HttpResponse(405, <<"Method not allowed">>, <<>>) \in ResponseType
    BY <1>1, <1>2, NoHeaders, MadeType, Zenon
  <2> QED
    BY <1>1, <2>1, SetterTypes, Zenon DEF createMethodNotAllowed
<1>4. createBadRequestResponse \in ResponseType
  BY <1>1, <1>2, NoHeaders, MadeType, Zenon DEF createBadRequestResponse
<1>5. createNotFoundResponse \in ResponseType
  BY <1>1, <1>2, NoHeaders, MadeType, Zenon DEF createNotFoundResponse
<1>6. empty_render \in ResponseType
  BY <1>1, <1>2, NoHeaders, MadeType, Zenon DEF empty_render
<1> QED
  BY <1>3, <1>4, <1>5, <1>6

(* The routes are finitely many, and the loop visits each of them.           *)
LEMMA PatternCount == IsFiniteSet(Patterns) /\ Count \in Nat
<1> DEFINE w == [route \in Routes |-> Written(route)]
           S == {Written(route) : route \in Routes}
<1>1. IsFiniteSet(Routes) /\ IsFiniteSet(Malformed)
  BY DispatchAssumption, Zenon
<1>2. w \in Surjection(Routes, S)
  BY DEF Surjection
<1>3. IsFiniteSet(S)
  BY <1>1, <1>2, FS_Surjection
<1>4. IsFiniteSet(Patterns)
  BY <1>1, <1>3, FS_Union DEF Patterns
<1> QED
  BY <1>4, FS_CardinalityType DEF Count

(* The loop over m_resourceMap visits every resource.                        *)
LEMMA OrderVisitsAll ==
    ASSUME NEW f \in SetToSeqs(Patterns)
    PROVE  /\ f \in [1..Count -> Patterns]
           /\ \A p \in Patterns : \E i \in 1..Count : f[i] = p
<1>1. /\ f \in [1..Count -> Patterns]
      /\ \A i, j \in 1..Count : i # j => f[i] # f[j]
  BY DEF SetToSeqs, Count
<1>2. f \in Injection(1..Count, Patterns)
  BY <1>1 DEF Injection, IsInjective
<1>3. Cardinality(1..Count) = Count /\ Cardinality(1..Count) = Cardinality(Patterns)
  <2>1. Cardinality(1..Count) = IF 1 > Count THEN 0 ELSE Count - 1 + 1
    BY PatternCount, FS_Interval
  <2> QED
    BY <2>1, PatternCount DEF Count
<1>4. f \in Surjection(1..Count, Patterns)
  BY <1>2, <1>3, PatternCount, FS_Injection
<1> QED
  BY <1>1, <1>4 DEF Surjection

-----------------------------------------------------------------------------
(* Type correctness                                                          *)

(* The types of the tables, of the loop and of the answer.  A resource is    *)
(* what its constructor made of its URI.                                     *)
TablesType ==
    /\ resource = [p \in Patterns |-> createRegexFromURI(p)]
    /\ order \in [1..Count -> Patterns]
    /\ allowed \in [Patterns -> [Methods -> BOOLEAN]]
    /\ writer \in [value : BOOLEAN, left : SUBSET (Shared \X Methods)]
    /\ changes \in 0..MaxChanges
    /\ seen \in [Patterns -> [Methods -> SUBSET BOOLEAN]]

LoopType ==
    /\ pc \in Labels
    /\ next \in 1..(Count + 1)
    /\ pc \in {"method", "allow", "render", "build"} => next \in 1..Count
    /\ rest \subseteq Methods

AnswerType ==
    /\ input \in Requests \cup {NoInput}
    /\ request \in RequestType
    /\ allow \in Text
    /\ response \in ResponseType
    /\ received \in 0..MaxRequests

(* The resources are what the constructor made of the routes, so that what   *)
(* matchUrl returns is known; requests and responses have their fields.      *)
TypeInv == TablesType /\ LoopType /\ AnswerType

(* The types hold at first.                                                  *)
LEMMA TypeInit == DispatchInit => TypeInv
<1> SUFFICES ASSUME DispatchInit PROVE TypeInv
  OBVIOUS
<1>1. TablesType
  <2>1. order \in [1..Count -> Patterns]
    BY OrderVisitsAll, Zenon DEF DispatchInit
  <2>2. MaxChanges \in Nat
    BY DispatchAssumption
  <2>3. changes \in 0..MaxChanges
    BY <2>2 DEF DispatchInit
  <2>4. allowed \in [Patterns -> [Methods -> BOOLEAN]]
    BY DEF DispatchInit
  <2>5. writer \in [value : BOOLEAN, left : SUBSET (Shared \X Methods)]
    BY DEF DispatchInit
  <2>6. /\ resource = [p \in Patterns |-> createRegexFromURI(p)]
        /\ seen \in [Patterns -> [Methods -> SUBSET BOOLEAN]]
    BY Zenon DEF DispatchInit
  <2> QED
    BY <2>1, <2>3, <2>4, <2>5, <2>6, Zenon DEF TablesType
<1>2. LoopType
  <2>1. pc = "idle" /\ next = 1 /\ rest = {}
    BY Zenon DEF DispatchInit
  <2> QED
    BY <2>1, PatternCount DEF LoopType, Labels
<1>3. AnswerType
  <2>1. input = NoInput /\ request = NoRequest /\ allow = <<>> /\ response = empty_render /\ received = 0
    BY Zenon DEF DispatchInit
  <2>2. MaxRequests \in Nat
    BY DispatchAssumption
  <2>3. received \in 0..MaxRequests
    BY <2>1, <2>2
  <2> QED
    BY <2>1, <2>3, NoRequestType, TextFacts, ServerTypes, Zenon DEF AnswerType
<1> QED
  BY <1>1, <1>2, <1>3, Zenon DEF TypeInv

(* The headers that user code may give to the constructor of a response.     *)
LEMMA FirstHeaders ==
    {<<>>} \cup {Put(<<>>, name, value) : name \in HeaderNames, value \in Texts} \subseteq HeaderMaps
<1> SUFFICES ASSUME NEW name \in HeaderNames, NEW value \in Texts
             PROVE  Put(<<>>, name, value) \in HeaderMaps
  BY NoHeaders
<1>1. name \in Symbols /\ value \in Text
  BY DispatchAssumption
<1> QED
  BY <1>1, NoHeaders, HeaderPut, Zenon

(* What has been received is text, and is parsed to a request.               *)
Data(r) == SubSeq(Composed(r.message), 1, r.length)

(* What has been received is a text, and what is parsed of it is typed.      *)
LEMMA DataType ==
    ASSUME NEW r \in Requests
    PROVE  /\ Data(r) \in Text /\ RequestLine(Data(r)) \in Seq(Text)
           /\ Len(RequestLine(Data(r))) >= 3 =>
                 ParseRequest(Data(r)) \in RequestType /\ ParseRequest(Data(r)).args = <<>>
<1>1. IsMessage(r.message) /\ r.length \in 0..Len(Composed(r.message))
  BY DispatchAssumption, Zenon
<1>2. Composed(r.message) \in Text
  BY <1>1, ComposedType, Zenon
<1>3. r.length \in Int /\ r.length <= Len(Composed(r.message)) /\ 1 \in Nat \ {0}
  BY <1>1
<1>4. Data(r) \in Text
  BY <1>2, <1>3, TextPart, Zenon DEF Data
<1>5. Len(RequestLine(Data(r))) >= 3 =>
                 ParseRequest(Data(r)) \in RequestType /\ ParseRequest(Data(r)).args = <<>>
  BY <1>4, ParsedType
<1> QED
  BY <1>4, <1>5, LineText, Zenon

(* Which variables an action changes, and to what: the shape that the proofs *)
(* about the loop and the request need of it.                                *)
LEMMA ReceiveShape ==
    ASSUME NEW r \in Requests, Receive(r)
    PROVE  /\ pc = "idle" /\ UNCHANGED <<resource, order, allowed, writer, changes, next, rest, allow>>
           /\ input' = r /\ received < MaxRequests /\ received' = received + 1
           /\ seen' = [p \in Patterns |-> [m \in Methods |-> {allowed[p][m]}]]
           /\ \/ pc' = "send" /\ response' = createBadRequestResponse /\ request' = request
              \/ /\ pc' = "match" /\ request' = ParseRequest(Data(r)) /\ response' = response
                 /\ Len(RequestLine(Data(r))) >= 3
              \/ pc' = "crashed" /\ UNCHANGED <<request, response>>
BY Zenon DEF Receive, Respond, Data

(* Every step keeps the types.                                               *)
LEMMA TypeStep == TypeInv /\ [DispatchNext]_dispatchVars => TypeInv'
<1> SUFFICES ASSUME TypeInv, [DispatchNext]_dispatchVars PROVE TypeInv'
  OBVIOUS
<1> USE DEF TypeInv
<1>1. CASE UNCHANGED dispatchVars \/ DispatchDone
  BY <1>1 DEF dispatchVars, tables, answer, DispatchDone, TablesType, LoopType, AnswerType
<1>2. ASSUME NEW r \in Requests, Receive(r) PROVE TypeInv'
  <2>1. TablesType'
    BY <1>2, ReceiveShape DEF TablesType
  <2>2. LoopType'
    BY <1>2, ReceiveShape DEF LoopType, Labels
  <2>3. AnswerType'
    <3>1. request' \in RequestType /\ response' \in ResponseType
      BY <1>2, ReceiveShape, DataType, ServerTypes, Zenon DEF AnswerType
    <3>2. MaxRequests \in Nat
      BY DispatchAssumption
    <3>3. received < MaxRequests /\ received' = received + 1
      BY <1>2, ReceiveShape, Zenon
    <3>4. received \in 0..MaxRequests
      BY DEF AnswerType
    <3>5. received' \in 0..MaxRequests
      BY <3>2, <3>3, <3>4
    <3> QED
      BY <1>2, <3>1, <3>5, ReceiveShape DEF AnswerType
  <2> QED
    BY <2>1, <2>2, <2>3
<1>3. CASE TryRoute
  <2>1. /\ pc = "match" /\ next <= Count
        /\ UNCHANGED <<tables, input, rest, allow, response, received>>
        /\ \/ pc' = "method" /\ request' \in matchUrl(request, resource[Matched]) /\ UNCHANGED next
           \/ next' = next + 1 /\ UNCHANGED <<pc, request>>
    BY <1>3, Zenon DEF TryRoute
  <2>2. next \in 1..Count /\ Count \in Nat
    BY <2>1, PatternCount DEF LoopType
  <2>3. Matched \in Patterns /\ resource[Matched] = createRegexFromURI(Matched)
    BY <2>2 DEF TablesType, Matched
  <2>4. request' \in RequestType
    BY <2>1, <2>3, MatchUrlType, Zenon DEF AnswerType
  <2>5. TablesType'
    BY <2>1 DEF tables, TablesType
  <2>6. LoopType'
    BY <2>1, <2>2 DEF LoopType, Labels
  <2>7. AnswerType'
    BY <2>1, <2>4 DEF AnswerType
  <2> QED
    BY <2>5, <2>6, <2>7
<1>4. ASSUME UNCHANGED <<tables, next, input, received>>, request' \in RequestType,
             rest' \subseteq Methods, allow' \in Text, response' \in ResponseType,
             pc' \in Labels,
             pc' \in {"method", "allow", "render", "build"} => next \in 1..Count
      PROVE  TypeInv'
  BY <1>4 DEF tables, TablesType, LoopType, AnswerType
<1>5. CASE NoRoute
  BY <1>4, <1>5, ServerTypes DEF NoRoute, Respond, Labels, LoopType, AnswerType
<1>6. CASE CheckMethod
  BY <1>4, <1>6, ServerTypes DEF CheckMethod, Respond, Labels, LoopType, AnswerType
<1>7. CASE ListEnd
  BY <1>4, <1>7, ServerTypes DEF ListEnd, Respond, Labels, LoopType, AnswerType
<1>8. ASSUME NEW m \in Methods, ListMethod(m) PROVE TypeInv'
  <2>1. /\ pc = "allow" /\ rest' = rest \ {m}
        /\ allow' = allow \o (IF allow = <<>> THEN <<>> ELSE <<", ">>)
                         \o (IF allowed[Matched][m] THEN <<m>> ELSE <<>>)
        /\ UNCHANGED <<tables, pc, next, input, request, response, received>>
    BY <1>8, Zenon DEF ListMethod
  <2>2. allow' \in Text
    <3>1. allow \in Text /\ <<>> \in Text /\ <<", ">> \in Text /\ <<m>> \in Text
      BY WordsAreSymbols, TextFacts DEF AnswerType
    <3>2. (IF allow = <<>> THEN <<>> ELSE <<", ">>) \in Text
          /\ (IF allowed[Matched][m] THEN <<m>> ELSE <<>>) \in Text
      BY <3>1, Zenon
    <3>3. allow \o (IF allow = <<>> THEN <<>> ELSE <<", ">>) \in Text
      BY <3>1, <3>2, Joined, Zenon
    <3> QED
      BY <2>1, <3>2, <3>3, Joined, Zenon
  <2> QED
    BY <1>4, <2>1, <2>2 DEF Labels, LoopType, AnswerType
<1>9. CASE RenderDefault
  BY <1>4, <1>9, ServerTypes DEF RenderDefault, Respond, Labels, LoopType, AnswerType
<1>10. CASE RenderBegins
  <2>1. response' \in ResponseType
    <3>1. \E code \in Codes : \E body \in Texts \cup {<<>>} : \E headers \in HeaderMaps :
             response' = HttpResponse(code, body, headers)
      BY <1>10, FirstHeaders DEF RenderBegins
    <3>2. PICK code \in Codes : \E body \in Texts \cup {<<>>} : \E headers \in HeaderMaps :
             response' = HttpResponse(code, body, headers)
      BY <3>1, Zenon
    <3>3. PICK body \in Texts \cup {<<>>} : \E headers \in HeaderMaps :
             response' = HttpResponse(code, body, headers)
      BY <3>2, Zenon
    <3>4. PICK headers \in HeaderMaps : response' = HttpResponse(code, body, headers)
      BY <3>3, Zenon
    <3>5. code \in Nat /\ body \in Text
      BY DispatchAssumption, TextFacts
    <3> QED
      BY <3>4, <3>5, MadeType, Zenon
  <2> QED
    BY <1>4, <1>10, <2>1 DEF RenderBegins, Labels, LoopType, AnswerType
<1>11. CASE RenderBuilds
  <2>1. response' \in ResponseType
    <3>1. Codes \subseteq Nat /\ Texts \subseteq Text /\ HeaderNames \subseteq Symbols /\ <<>> \in Text
      BY DispatchAssumption, TextFacts
    <3>2. response \in ResponseType
      BY DEF AnswerType
    <3>3. \/ \E code \in Codes : response' = setStatusCode(response, code)
          \/ \E name \in HeaderNames, value \in Texts : response' = setHeader(response, name, value)
          \/ \E value \in Texts : response' = setContentType(response, value)
          \/ \E body \in Texts \cup {<<>>} : response' = setBody(response, body)
          \/ \E body \in Texts : response' = addBody(response, body)
      BY <1>11, Zenon DEF RenderBuilds
    <3> QED
      BY <3>1, <3>2, <3>3, SetterTypes
  <2> QED
    BY <1>4, <1>11, <2>1 DEF RenderBuilds, Labels, LoopType, AnswerType
<1>12. CASE RenderReturns
  BY <1>4, <1>12 DEF RenderReturns, Respond, Labels, LoopType, AnswerType
<1>13. CASE RenderFails
  BY <1>4, <1>13, ServerTypes DEF RenderFails, Respond, Labels, LoopType, AnswerType
<1>14. CASE Send
  <2>1. /\ pc' = "idle" /\ input' = NoInput /\ request' = NoRequest /\ next' = 1
        /\ allow' = <<>> /\ response' = empty_render /\ UNCHANGED <<tables, rest, received>>
    BY <1>14, Zenon DEF Send
  <2>2. TablesType'
    BY <2>1 DEF tables, TablesType
  <2>3. LoopType'
    BY <2>1, PatternCount DEF LoopType, Labels
  <2>4. AnswerType'
    BY <2>1, NoRequestType, TextFacts, ServerTypes, Zenon DEF AnswerType
  <2> QED
    BY <2>2, <2>3, <2>4
<1>15. ASSUME NEW p \in Shared,
              \/ \E m \in Methods \cup {"UNKNOWN"}, value \in BOOLEAN : setAllowing(p, m, value)
              \/ disallowAll(p)
              \/ allowAll(p)
       PROVE  TypeInv'
  <2>1. p \in Patterns /\ DOMAIN allowed[p] = Methods
    BY DispatchAssumption DEF TablesType
  <2>2. PICK value \in BOOLEAN, methods \in SUBSET Methods : ChangeTable(p, value, methods)
    <3>1. CASE \E m \in Methods \cup {"UNKNOWN"}, value \in BOOLEAN : setAllowing(p, m, value)
      <4>1. PICK m \in Methods \cup {"UNKNOWN"}, value \in BOOLEAN : setAllowing(p, m, value)
        BY <3>1, Zenon
      <4>2. {m} \cap DOMAIN allowed[p] \in SUBSET Methods
        BY <2>1
      <4> QED
        BY <4>1, <4>2, Zenon DEF setAllowing
    <3>2. CASE disallowAll(p) \/ allowAll(p)
      BY <2>1, <3>2 DEF disallowAll, allowAll
    <3> QED
      BY <1>15, <3>1, <3>2
  <2>3. /\ changes < MaxChanges /\ changes' = changes + 1
        /\ writer' = [value |-> value, left |-> {p} \X methods]
        /\ UNCHANGED <<resource, order, allowed, seen, pc, answer>>
    BY <2>2, Zenon DEF ChangeTable
  <2>4. writer' \in [value : BOOLEAN, left : SUBSET (Shared \X Methods)]
    BY <2>3
  <2>5. changes' \in 0..MaxChanges
    <3>1. MaxChanges \in Nat
      BY DispatchAssumption
    <3> QED
      BY <2>3, <3>1 DEF TablesType
  <2> QED
    BY <2>3, <2>4, <2>5 DEF answer, TablesType, LoopType, AnswerType
<1>16. ASSUME NEW entry \in writer.left, WriteEntry(entry[1], entry[2]) PROVE TypeInv'
  <2>1. PICK p \in Patterns, m \in Methods : p = entry[1] /\ m = entry[2]
    BY DispatchAssumption DEF TablesType
  <2>2. /\ writer' = [writer EXCEPT !.left = @ \ {<<p, m>>}]
        /\ allowed' = [allowed EXCEPT ![p] = Put(@, m, writer.value)]
        /\ seen' = [seen EXCEPT ![p][m] = @ \cup {writer.value}]
        /\ UNCHANGED <<resource, order, changes, pc, answer>>
    BY <1>16, <2>1, Zenon DEF WriteEntry
  <2>3. writer.value \in BOOLEAN /\ writer' \in [value : BOOLEAN, left : SUBSET (Shared \X Methods)]
    BY <2>2 DEF TablesType
  <2>4. Put(allowed[p], m, writer.value) \in [Methods -> BOOLEAN]
    <3>1. allowed[p] \in [Methods -> BOOLEAN]
      BY DEF TablesType
    <3> QED
      BY <2>3, <3>1 DEF Put
  <2>5. allowed' \in [Patterns -> [Methods -> BOOLEAN]]
    BY <2>2, <2>4 DEF TablesType
  <2> QED
    BY <2>2, <2>3, <2>5 DEF answer, TablesType, LoopType, AnswerType
<1> QED
  BY <1>1, <1>2, <1>3, <1>5, <1>6, <1>7, <1>8, <1>9, <1>10, <1>11, <1>12, <1>13,
     <1>14, <1>15, <1>16, Zenon DEF DispatchNext, IoNext

(* The types as Dispatch states them.                                        *)
LEMMA TypeImplies == TypeInv => DispatchTypeOK
<1> SUFFICES ASSUME TypeInv PROVE DispatchTypeOK
  OBVIOUS
<1>1. \A p \in Patterns : createRegexFromURI(p) \in [valid : BOOLEAN, regex : Text, paramNames : Seq(Text)]
  <2> SUFFICES ASSUME NEW p \in Patterns
               PROVE  createRegexFromURI(p) \in [valid : BOOLEAN, regex : Text, paramNames : Seq(Text)]
    OBVIOUS
  <2>1. p \in Text
    BY PatternKinds, RouteRewritten, Zenon DEF IsRewritten
  <2> QED
    BY <2>1, RewriteEquation, Zenon DEF createRegexFromURI, Resources
<1>2. resource \in [Patterns -> [valid : BOOLEAN, regex : Text, paramNames : Seq(Text)]]
  BY <1>1 DEF TypeInv, TablesType
<1>3. /\ request.method \in Methods \cup {"UNKNOWN", "HTTP_METHOD_MAX"}
      /\ {request.uri, request.headers, request.body} \subseteq Text
      /\ request.args \in Arguments
  BY DEF TypeInv, AnswerType, RequestType
<1>4. /\ DOMAIN request.args \subseteq Text
      /\ \A name \in DOMAIN request.args : request.args[name] \in Text
  BY <1>3 DEF Arguments
<1>5. response.statusCode \in Nat /\ response.body \in Text /\ response.headers \in HeaderMaps
  BY DEF TypeInv, AnswerType, ResponseType
<1>6. \A name \in DOMAIN response.headers : response.headers[name] \in Text
  BY <1>5 DEF HeaderMaps
<1> QED
  BY <1>2, <1>3, <1>4, <1>5, <1>6, Zenon DEF DispatchTypeOK, TypeInv, TablesType, LoopType, AnswerType

(* Every state has the types that DispatchTypeOK gives: no step of the Io    *)
(* thread or the application leaves them.                                    *)
THEOREM DispatchIsTyped == DispatchSpec => []DispatchTypeOK
BY TypeInit, TypeStep, TypeImplies, PTL DEF DispatchSpec

-----------------------------------------------------------------------------
(* The tables of allowed methods                                             *)

(* The values of an entry since the request came in include its present one. *)
SeenCurrent == \A p \in Patterns, m \in Methods : allowed[p][m] \in seen[p][m]

(* They become more.                                                         *)
SeenGrows == \A p \in Patterns, m \in Methods : seen[p][m] \subseteq seen'[p][m]

(* What a write does to every entry.                                         *)
LEMMA EntryWritten ==
    ASSUME TypeInv, NEW p \in Patterns, NEW m \in Methods, WriteEntry(p, m)
    PROVE  /\ \A q \in Patterns, n \in Methods :
                 IF q = p /\ n = m
                 THEN allowed'[q][n] = writer.value /\ seen'[q][n] = seen[q][n] \cup {writer.value}
                 ELSE allowed'[q][n] = allowed[q][n] /\ seen'[q][n] = seen[q][n]
           /\ UNCHANGED <<resource, order, changes, pc, answer>>
<1>1. /\ allowed' = [allowed EXCEPT ![p] = Put(@, m, writer.value)]
      /\ seen' = [seen EXCEPT ![p][m] = @ \cup {writer.value}]
      /\ UNCHANGED <<resource, order, changes, pc, answer>>
  BY Zenon DEF WriteEntry
<1>2. /\ allowed \in [Patterns -> [Methods -> BOOLEAN]]
      /\ seen \in [Patterns -> [Methods -> SUBSET BOOLEAN]]
  BY DEF TypeInv, TablesType
<1>3. ASSUME NEW q \in Patterns, NEW n \in Methods
      PROVE  IF q = p /\ n = m THEN allowed'[q][n] = writer.value
             ELSE allowed'[q][n] = allowed[q][n]
  BY <1>1, <1>2 DEF Put
<1>4. ASSUME NEW q \in Patterns, NEW n \in Methods
      PROVE  IF q = p /\ n = m THEN seen'[q][n] = seen[q][n] \cup {writer.value}
             ELSE seen'[q][n] = seen[q][n]
  BY <1>1, <1>2
<1> QED
  BY <1>1, <1>3, <1>4

(* A change that has begun writes entries of resources, for methods.         *)
LEMMA WriterEntries ==
    TypeInv => \A entry \in writer.left : entry[1] \in Patterns /\ entry[2] \in Methods
BY DispatchAssumption DEF TypeInv, TablesType

(* A step of the application: one that begins a change, or one that writes.  *)
LEMMA TableCalled ==
    ASSUME NEW p \in Shared,
           \/ \E m \in Methods \cup {"UNKNOWN"}, value \in BOOLEAN : setAllowing(p, m, value)
           \/ disallowAll(p)
           \/ allowAll(p)
    PROVE  UNCHANGED <<resource, order, allowed, seen, pc, answer>>
BY DEF setAllowing, disallowAll, allowAll, ChangeTable

(* Only a request that comes in makes the values of an entry fewer.          *)
LEMMA SeenStep ==
    TypeInv /\ SeenCurrent /\ [DispatchNext]_dispatchVars
        => SeenCurrent' /\ (pc # "idle" => SeenGrows)
<1> SUFFICES ASSUME TypeInv, SeenCurrent, [DispatchNext]_dispatchVars
             PROVE  SeenCurrent' /\ (pc # "idle" => SeenGrows)
  OBVIOUS
<1>1. ASSUME UNCHANGED <<allowed, seen>> PROVE SeenCurrent' /\ SeenGrows
  BY <1>1 DEF SeenCurrent, SeenGrows
<1>2. CASE UNCHANGED tables
  BY <1>1, <1>2 DEF tables
<1>3. ASSUME NEW r \in Requests, Receive(r) PROVE SeenCurrent' /\ pc = "idle"
  BY <1>3, ReceiveShape DEF SeenCurrent
<1>4. ASSUME NEW p \in Shared,
             \/ \E m \in Methods \cup {"UNKNOWN"}, value \in BOOLEAN : setAllowing(p, m, value)
             \/ disallowAll(p)
             \/ allowAll(p)
      PROVE  SeenCurrent' /\ SeenGrows
  BY <1>1, <1>4, TableCalled
<1>5. ASSUME NEW entry \in writer.left, WriteEntry(entry[1], entry[2])
      PROVE  SeenCurrent' /\ SeenGrows
  <2>1. entry[1] \in Patterns /\ entry[2] \in Methods
    BY <1>5, WriterEntries
  <2> QED
    BY <1>5, <2>1, EntryWritten DEF SeenCurrent, SeenGrows
<1>6. IoNext \/ RenderBuilds \/ DispatchDone \/ UNCHANGED dispatchVars => UNCHANGED tables
  <2>1. TryRoute \/ NoRoute \/ CheckMethod => UNCHANGED tables
    BY DEF TryRoute, NoRoute, CheckMethod
  <2>2. ListEnd \/ (\E m \in Methods : ListMethod(m)) => UNCHANGED tables
    BY DEF ListEnd, ListMethod
  <2>3. RenderDefault \/ RenderBegins \/ RenderBuilds => UNCHANGED tables
    BY DEF RenderDefault, RenderBegins, RenderBuilds
  <2>4. RenderReturns \/ RenderFails \/ Send => UNCHANGED tables
    BY DEF RenderReturns, RenderFails, Send
  <2>5. UNCHANGED dispatchVars => UNCHANGED tables
    BY DEF dispatchVars
  <2> QED
    BY <2>1, <2>2, <2>3, <2>4, <2>5, Zenon DEF IoNext, DispatchDone
<1> QED
  BY <1>1, <1>2, <1>3, <1>4, <1>5, <1>6, Zenon DEF DispatchNext

(* The resource was found, and the entry that is asked about has been TRUE,  *)
(* or FALSE, since the request came in.                                      *)
Admitted ==
    next \in 1..Count /\ request.method \in Methods /\ TRUE \in seen[Matched][request.method]
Denied ==
    next \in 1..Count /\ (request.method \in Methods => FALSE \in seen[Matched][request.method])

(* Between isAllowed and sendResponse.  The table is read in "method" only,  *)
(* so what it said then has to be carried through the listing of the methods *)
(* and through user code, whatever is written meanwhile; and a 405 has to be *)
(* known for one of the server's own, which is why user code gives no such   *)
(* status here.                                                              *)
TableInv ==
    /\ SeenCurrent
    /\ pc = "allow" => Denied
    /\ pc \in {"render", "build"} => Admitted
    /\ pc = "build" => OwnResponse(response)
    /\ pc = "send" /\ response.statusCode = 405 => Denied

(* The loop has a resource at hand.                                          *)
LEMMA MatchedKnown == TypeInv /\ next \in 1..Count => Matched \in Patterns
BY DEF TypeInv, TablesType, Matched

(* What was known of the entry stays known while the request is answered.    *)
LEMMA KnownStays ==
    ASSUME TypeInv, SeenGrows, UNCHANGED <<order, next, request>>
    PROVE  (Admitted => Admitted') /\ (Denied => Denied')
BY MatchedKnown DEF SeenGrows, Admitted, Denied, Matched

(* Every step keeps TableInv.                                                *)
LEMMA TableStep == TypeInv /\ TableInv /\ [DispatchNext]_dispatchVars => TableInv'
<1> SUFFICES ASSUME TypeInv, TableInv, [DispatchNext]_dispatchVars PROVE TableInv'
    OBVIOUS
<1>1. SeenCurrent' /\ (pc # "idle" => SeenGrows)
  BY SeenStep DEF TableInv
<1>2. /\ pc = "allow" => Denied
      /\ pc \in {"render", "build"} => Admitted
      /\ pc = "build" => OwnResponse(response)
      /\ pc = "send" /\ response.statusCode = 405 => Denied
  BY DEF TableInv
<1>3. ASSUME UNCHANGED <<order, next, request, pc, response>> PROVE TableInv'
  <2>1. CASE pc = "idle"
    BY <1>1, <1>3, <2>1 DEF TableInv
  <2>2. CASE pc # "idle"
    BY <1>1, <1>2, <1>3, <2>2, KnownStays DEF TableInv
  <2> QED
    BY <2>1, <2>2
<1>4. ASSUME pc # "idle", UNCHANGED <<order, next, request>>
      PROVE  (Admitted => Admitted') /\ (Denied => Denied')
  BY <1>1, <1>4, KnownStays
<1>5. ASSUME pc' \in {"idle", "match", "method", "crashed"} PROVE TableInv'
  BY <1>1, <1>5 DEF TableInv
<1>6. ASSUME pc' = "send", response'.statusCode # 405 PROVE TableInv'
  BY <1>1, <1>6 DEF TableInv
<1>7. CASE UNCHANGED dispatchVars \/ DispatchDone
  BY <1>3, <1>7 DEF dispatchVars, tables, answer, DispatchDone
<1>8. ASSUME NEW r \in Requests, Receive(r) PROVE TableInv'
  <2>1. pc' \in {"match", "crashed"} \/ (pc' = "send" /\ response' = createBadRequestResponse)
    BY <1>8, ReceiveShape, Zenon
  <2> QED
    BY <1>5, <1>6, <2>1, OwnStatus
<1>9. CASE TryRoute
  <2>1. pc' \in {"match", "method"}
    BY <1>9 DEF TryRoute
  <2> QED
    BY <1>5, <2>1
<1>10. CASE NoRoute
  BY <1>6, <1>10, OwnStatus DEF NoRoute, Respond
<1>11. CASE CheckMethod
  <2>1. /\ pc = "method" /\ UNCHANGED <<order, seen, next, request>>
        /\ \/ ~ isAllowed(Matched, request.method) /\ pc' = "allow"
           \/ isAllowed(Matched, request.method) /\ pc' = "render"
           \/ pc' = "send" /\ response' = createBadRequestResponse
    BY <1>11 DEF CheckMethod, Respond, tables
  <2>2. next \in 1..Count
    BY <2>1 DEF TypeInv, LoopType
  <2>3. request.method \in Methods => allowed[Matched][request.method] \in seen[Matched][request.method]
    BY <2>2, MatchedKnown DEF TableInv, SeenCurrent
  <2>4. CASE ~ isAllowed(Matched, request.method) /\ pc' = "allow"
    <3>1. Matched \in Patterns /\ allowed \in [Patterns -> [Methods -> BOOLEAN]]
      BY <2>2, MatchedKnown DEF TypeInv, TablesType
    <3>2. Denied
      BY <2>2, <2>3, <2>4, <3>1 DEF Denied, isAllowed
    <3> QED
      BY <1>1, <2>1, <2>4, <3>2 DEF TableInv, Denied, Matched
  <2>5. CASE isAllowed(Matched, request.method) /\ pc' = "render"
    <3>1. Matched \in Patterns /\ allowed \in [Patterns -> [Methods -> BOOLEAN]]
      BY <2>2, MatchedKnown DEF TypeInv, TablesType
    <3>2. Admitted
      BY <2>2, <2>3, <2>5, <3>1 DEF Admitted, isAllowed
    <3> QED
      BY <1>1, <2>1, <2>5, <3>2 DEF TableInv, Admitted, Matched
  <2>6. CASE pc' = "send" /\ response' = createBadRequestResponse
    BY <1>6, <2>6, OwnStatus
  <2> QED
    BY <2>1, <2>4, <2>5, <2>6
<1>12. CASE ListEnd
  <2>1. pc = "allow" /\ pc' = "send" /\ UNCHANGED <<order, next, request>>
    BY <1>12 DEF ListEnd, Respond, tables
  <2> QED
    BY <1>1, <1>2, <1>4, <2>1 DEF TableInv
<1>13. ASSUME NEW m \in Methods, ListMethod(m) PROVE TableInv'
  BY <1>3, <1>13 DEF ListMethod, tables
<1>14. CASE RenderDefault
  BY <1>6, <1>14, OwnStatus DEF RenderDefault, Respond
<1>15. CASE RenderBegins
  <2>1. OwnResponse(response')
    BY <1>15 DEF RenderBegins, OwnResponse, HttpResponse
  <2>2. pc = "render" /\ pc' = "build" /\ UNCHANGED <<order, next, request>>
    BY <1>15 DEF RenderBegins, tables
  <2> QED
    BY <1>1, <1>2, <1>4, <2>1, <2>2 DEF TableInv
<1>16. CASE RenderBuilds
  <2>1. pc = "build" /\ pc' = "build" /\ UNCHANGED <<order, next, request>>
    BY <1>16 DEF RenderBuilds, tables
  <2>2. OwnResponse(response')
    BY <1>2, <1>16, <2>1, SettersKeep DEF RenderBuilds
  <2> QED
    BY <1>1, <1>2, <1>4, <2>1, <2>2 DEF TableInv
<1>17. CASE RenderReturns
  <2>1. pc = "build" /\ pc' = "send" /\ response' = response
    BY <1>17 DEF RenderReturns, Respond
  <2>2. response'.statusCode # 405
    BY <1>2, <2>1, DispatchAssumption DEF OwnResponse
  <2> QED
    BY <1>6, <2>1, <2>2
<1>18. CASE RenderFails
  <2>1. pc' = "crashed" \/ (pc' = "send" /\ response' = createBadRequestResponse)
    BY <1>18 DEF RenderFails, Respond
  <2> QED
    BY <1>5, <1>6, <2>1, OwnStatus
<1>19. CASE Send
  BY <1>5, <1>19 DEF Send
<1>20. ASSUME NEW p \in Shared,
              \/ \E m \in Methods \cup {"UNKNOWN"}, value \in BOOLEAN : setAllowing(p, m, value)
              \/ disallowAll(p)
              \/ allowAll(p)
       PROVE  TableInv'
  BY <1>3, <1>20, TableCalled DEF answer
<1>21. ASSUME NEW entry \in writer.left, WriteEntry(entry[1], entry[2]) PROVE TableInv'
  <2>1. UNCHANGED <<order, pc, answer>>
    BY <1>21, WriterEntries, EntryWritten
  <2> QED
    BY <1>3, <2>1 DEF answer
<1> QED
  BY <1>7, <1>8, <1>9, <1>10, <1>11, <1>12, <1>13, <1>14, <1>15, <1>16, <1>17, <1>18,
     <1>19, <1>20, <1>21, Zenon DEF DispatchNext, IoNext

(* TableInv holds at first.                                                  *)
LEMMA TableInit == DispatchInit => TableInv
BY DEF DispatchInit, TableInv, SeenCurrent

(* A method that was disallowed when the request came in, and ever since, is *)
(* never rendered, and one that was allowed ever since is never refused:     *)
(* CheckMethod and what follows it, for any resources and any calls of the   *)
(* application, about the entry that is asked for or any others.             *)
THEOREM TableAlwaysObeyed == DispatchSpec => []TableObeyed
<1>1. TableInv => TableObeyed
  BY DEF TableInv, Admitted, Denied, TableObeyed
<1> QED
  BY <1>1, TypeInit, TypeStep, TableInit, TableStep, PTL DEF DispatchSpec

-----------------------------------------------------------------------------
(* The Allow header                                                          *)

(* No method is taken for a separator.                                       *)
LEMMA NoMethodSeparates == \A m \in Methods : m # ", "
BY DEF Methods

(* The text names the methods of one set, and some of another, each of them  *)
(* once, and keeps them apart by separators.                                 *)
Lists(text, sure, possible) ==
    LET named == {i \in DOMAIN text : text[i] # ", "}
        names == {text[i] : i \in named}
    IN  /\ text \in Text
        /\ sure \subseteq names /\ names \subseteq possible
        /\ \A i, j \in named : text[i] = text[j] => i = j
        /\ \A i \in named : i + 1 \notin named

(* The empty text names no methods.                                          *)
LEMMA ListsEmpty == Lists(<<>>, {}, {})
BY DEF Lists, Text

(* Methods that need not be named any more, and others that may be.          *)
LEMMA ListsWeaken ==
    ASSUME NEW text, NEW sure, NEW possible, Lists(text, sure, possible),
           NEW fewer \in SUBSET sure, NEW more, possible \subseteq more
    PROVE  Lists(text, fewer, more)
BY DEF Lists

(* A text with one symbol more.                                              *)
LEMMA SymbolAppended ==
    ASSUME NEW text \in Text, NEW s \in Symbols
    PROVE  \E n \in Nat :
              /\ DOMAIN text = 1..n /\ DOMAIN (text \o <<s>>) = 1..(n + 1)
              /\ (text \o <<s>>)[n + 1] = s /\ \A i \in 1..n : (text \o <<s>>)[i] = text[i]
              /\ text \o <<s>> \in Text
<1>1. /\ DOMAIN text = 1..Len(text) /\ DOMAIN (text \o <<s>>) = 1..(Len(text) + 1)
      /\ (text \o <<s>>)[Len(text) + 1] = s /\ \A i \in 1..Len(text) : (text \o <<s>>)[i] = text[i]
      /\ text \o <<s>> \in Text /\ Len(text) \in Nat
  BY DEF Text
<1> QED
  BY <1>1, Zenon

(* A name may follow: the text is empty, or ends with a separator.           *)
NameMayFollow(text) == \A i \in DOMAIN text : i + 1 \in DOMAIN text \/ text[i] = ", "

(* A separator names no method.                                              *)
LEMMA ListsSeparator ==
    ASSUME NEW text, NEW sure, NEW possible, Lists(text, sure, possible)
    PROVE  Lists(text \o <<", ">>, sure, possible) /\ NameMayFollow(text \o <<", ">>)
<1> DEFINE longer == text \o <<", ">>
           named == {i \in DOMAIN text : text[i] # ", "}
<1>1. PICK n \in Nat :
         /\ DOMAIN text = 1..n /\ DOMAIN longer = 1..(n + 1)
         /\ longer[n + 1] = ", " /\ \A i \in 1..n : longer[i] = text[i]
         /\ longer \in Text
  <2>1. ", " \in Symbols /\ text \in Text
    BY WordsAreSymbols DEF Lists
  <2> QED
    BY <2>1, SymbolAppended, Zenon
<1> HIDE DEF longer
<1>2. 1..(n + 1) = 1..n \cup {n + 1}
  OBVIOUS
<1>3. {i \in DOMAIN longer : longer[i] # ", "} = named
  BY <1>1, <1>2
<1>4. \A i \in named : longer[i] = text[i]
  BY <1>1
<1>5. /\ sure \subseteq {text[i] : i \in named} /\ {text[i] : i \in named} \subseteq possible
      /\ \A i, j \in named : text[i] = text[j] => i = j
      /\ \A i \in named : i + 1 \notin named
  BY DEF Lists
<1> HIDE DEF named
<1>6. {longer[i] : i \in named} = {text[i] : i \in named}
  BY <1>4
<1>7. \A i, j \in named : longer[i] = longer[j] => i = j
  BY <1>4, <1>5
<1>8. Lists(longer, sure, possible)
  BY <1>1, <1>3, <1>5, <1>6, <1>7 DEF Lists
<1>9. NameMayFollow(longer)
  <2>1. \A i \in 1..(n + 1) : i = n + 1 \/ i + 1 \in 1..(n + 1)
    OBVIOUS
  <2> QED
    BY <1>1, <2>1, Zenon DEF NameMayFollow
<1> QED
  BY <1>8, <1>9 DEF longer

(* A method that was not named yet is named once.                            *)
LEMMA ListsMethod ==
    ASSUME NEW text, NEW sure, NEW possible, NEW m \in Methods \ possible,
           Lists(text, sure, possible), NameMayFollow(text)
    PROVE  Lists(text \o <<m>>, sure \cup {m}, possible \cup {m})
<1> DEFINE longer == text \o <<m>>
           named == {i \in DOMAIN text : text[i] # ", "}
<1>1. PICK n \in Nat :
         /\ DOMAIN text = 1..n /\ DOMAIN longer = 1..(n + 1)
         /\ longer[n + 1] = m /\ \A i \in 1..n : longer[i] = text[i]
         /\ longer \in Text
  <2>1. m \in Symbols /\ text \in Text
    BY WordsAreSymbols DEF Lists
  <2> QED
    BY <2>1, SymbolAppended, Zenon
<1>2. n = 0 \/ text[n] = ", "
  <2>1. n = 0 \/ (n \in 1..n /\ n + 1 \notin 1..n)
    OBVIOUS
  <2> QED
    BY <1>1, <2>1 DEF NameMayFollow
<1> HIDE DEF longer
<1>3. 1..(n + 1) = 1..n \cup {n + 1}
  OBVIOUS
<1>4. {i \in DOMAIN longer : longer[i] # ", "} = named \cup {n + 1}
  BY <1>1, <1>3, NoMethodSeparates
<1>5. \A i \in named : longer[i] = text[i] /\ i \in 1..n
  BY <1>1
<1>6. /\ sure \subseteq {text[i] : i \in named} /\ {text[i] : i \in named} \subseteq possible
      /\ \A i, j \in named : text[i] = text[j] => i = j
      /\ \A i \in named : i + 1 \notin named
  BY DEF Lists
<1>7. n \notin named
  <2>1. n = 0 => n \notin 1..n
    OBVIOUS
  <2> QED
    BY <1>1, <1>2, <2>1, Zenon
<1> HIDE DEF named
<1>8. {longer[i] : i \in named \cup {n + 1}} = {text[i] : i \in named} \cup {m}
  BY <1>1, <1>5
<1>9. \A i, j \in named \cup {n + 1} : longer[i] = longer[j] => i = j
  <2>1. \A i \in named : longer[i] # m
    BY <1>5, <1>6
  <2> QED
    BY <1>1, <1>5, <1>6, <2>1
<1>10. \A i \in named \cup {n + 1} : i + 1 \notin named \cup {n + 1}
  <2>1. \A i \in 1..n : i + 1 = n + 1 => i = n
    OBVIOUS
  <2>2. n + 1 + 1 \notin 1..n /\ n + 1 + 1 # n + 1
    OBVIOUS
  <2>3. \A i \in named : i + 1 \notin named /\ i + 1 # n + 1
    BY <1>5, <1>6, <1>7, <2>1, Zenon
  <2>4. n + 1 + 1 \notin named
    BY <1>5, <2>2, Zenon
  <2> QED
    BY <2>2, <2>3, <2>4, Zenon
<1>11. Lists(longer, sure \cup {m}, possible \cup {m})
  BY <1>1, <1>4, <1>6, <1>8, <1>9, <1>10 DEF Lists
<1> QED
  BY <1>11 DEF longer

(* What getAllowedMethodsAsString appends in one round.                      *)
LEMMA ListsRound ==
    ASSUME NEW text, NEW sure, NEW possible, NEW m \in Methods \ possible,
           Lists(text, sure, possible), NEW b
    PROVE  LET more == text \o (IF text = <<>> THEN <<>> ELSE <<", ">>)
                            \o (IF b THEN <<m>> ELSE <<>>)
           IN  IF b THEN Lists(more, sure \cup {m}, possible \cup {m})
               ELSE Lists(more, sure, possible)
<1> DEFINE start == text \o (IF text = <<>> THEN <<>> ELSE <<", ">>)
<1>1. \A t \in Text : t \o <<>> = t
  BY ConcatEmptySeq DEF Text
<1>2. text \in Text
  BY DEF Lists
<1>3. Lists(start, sure, possible) /\ NameMayFollow(start)
  <2>1. NameMayFollow(<<>>)
    <3>1. DOMAIN <<>> = {}
      OBVIOUS
    <3> QED
      BY <3>1, Zenon DEF NameMayFollow
  <2>2. Lists(text \o <<", ">>, sure, possible) /\ NameMayFollow(text \o <<", ">>)
    BY ListsSeparator
  <2>3. text = <<>> => start = text
    BY <1>1, <1>2, Zenon
  <2>4. text # <<>> => start = text \o <<", ">>
    BY Zenon
  <2> QED
    BY <2>1, <2>2, <2>3, <2>4, Zenon
<1> HIDE DEF start
<1>4. Lists(start \o <<m>>, sure \cup {m}, possible \cup {m})
  BY <1>3, ListsMethod, Zenon
<1>5. start \o <<>> = start
  BY <1>1, <1>3 DEF Lists
<1>6. IF b THEN Lists(start \o (IF b THEN <<m>> ELSE <<>>), sure \cup {m}, possible \cup {m})
      ELSE Lists(start \o (IF b THEN <<m>> ELSE <<>>), sure, possible)
  BY <1>3, <1>4, <1>5, Zenon
<1> QED
  BY <1>6, Zenon DEF start

(* Of some methods, those that were allowed ever since the request came in,  *)
(* and those that were at some time since.                                   *)
Sure(methods) == {m \in methods : seen[Matched][m] = {TRUE}}
Possible(methods) == {m \in methods : TRUE \in seen[Matched][m]}

(* The string is empty until the loop begins, and then lists what it has     *)
(* visited; the response keeps it.                                           *)
AllowInv ==
    /\ pc \notin {"allow", "send"} => allow = <<>>
    /\ pc = "allow" => Lists(allow, Sure(Methods \ rest), Possible(Methods \ rest))
    /\ pc = "send" /\ response.statusCode = 405 =>
          Lists(response.headers["Allow"], Sure(Methods), Possible(Methods))

(* What createMethodNotAllowed returns.                                      *)
LEMMA Refused ==
    ASSUME NEW methods
    PROVE  /\ createMethodNotAllowed(methods).statusCode = 405
           /\ createMethodNotAllowed(methods).headers["Allow"] = methods
<1>1. Put(Put(<<>>, "Content-Type", <<"text/plain">>), "Allow", methods)["Allow"] = methods
  BY DEF Put
<1> QED
  BY <1>1 DEF createMethodNotAllowed, setHeader, HttpResponse

(* A list of the table stays one when the table is written.                  *)
LEMMA ListStays ==
    ASSUME TypeInv, SeenCurrent, SeenGrows, UNCHANGED <<order, next>>, next \in 1..Count,
           NEW methods \in SUBSET Methods, NEW text,
           Lists(text, Sure(methods), Possible(methods))
    PROVE  Lists(text, Sure(methods)', Possible(methods)')
<1>1. Matched \in Patterns /\ Matched' = Matched
  BY MatchedKnown DEF Matched
<1>2. Possible(methods) \subseteq Possible(methods)'
  BY <1>1 DEF SeenGrows, Possible
<1>3. Sure(methods)' \subseteq Sure(methods)
  <2> SUFFICES ASSUME NEW m \in methods, seen'[Matched][m] = {TRUE}
               PROVE  seen[Matched][m] = {TRUE}
    BY <1>1 DEF Sure
  <2>1. seen[Matched][m] \subseteq {TRUE} /\ allowed[Matched][m] \in seen[Matched][m]
    BY <1>1 DEF SeenGrows, SeenCurrent
  <2> QED
    BY <2>1
<1> QED
  BY <1>2, <1>3, ListsWeaken, Zenon

(* Every step keeps AllowInv.                                                *)
LEMMA AllowStep ==
    TypeInv /\ TableInv /\ AllowInv /\ [DispatchNext]_dispatchVars => AllowInv'
<1> SUFFICES ASSUME TypeInv, TableInv, AllowInv, [DispatchNext]_dispatchVars PROVE AllowInv'
    OBVIOUS
<1>1. SeenCurrent /\ (pc # "idle" => SeenGrows)
  BY SeenStep DEF TableInv
<1>2. /\ pc = "allow" => next \in 1..Count
      /\ pc = "send" /\ response.statusCode = 405 => next \in 1..Count
  BY DEF TypeInv, LoopType, TableInv, Denied
<1>3. ASSUME UNCHANGED <<order, next, pc, rest, allow, response>> PROVE AllowInv'
  <2>1. pc' \notin {"allow", "send"} => allow' = <<>>
    BY <1>3 DEF AllowInv
  <2>2. ASSUME pc = "allow"
        PROVE  Lists(allow', Sure(Methods \ rest)', Possible(Methods \ rest)')
    <3> DEFINE methods == Methods \ rest
    <3>1. /\ SeenCurrent /\ SeenGrows /\ UNCHANGED <<order, next>> /\ next \in 1..Count
          /\ Lists(allow, Sure(methods), Possible(methods)) /\ methods \in SUBSET Methods
          /\ allow' = allow /\ methods' = methods
      BY <1>1, <1>2, <1>3, <2>2 DEF AllowInv
    <3> HIDE DEF methods
    <3>2. Lists(allow, {m \in methods : seen'[Matched'][m] = {TRUE}},
                       {m \in methods : TRUE \in seen'[Matched'][m]})
      BY <3>1, ListStays, Zenon DEF Sure, Possible
    <3>3. Lists(allow', {m \in methods' : seen'[Matched'][m] = {TRUE}},
                        {m \in methods' : TRUE \in seen'[Matched'][m]})
      BY <3>1, <3>2, Zenon
    <3> QED
      BY <3>3, Zenon DEF methods, Sure, Possible
  <2>3. ASSUME pc = "send", response.statusCode = 405
        PROVE  Lists(response'.headers["Allow"], Sure(Methods)', Possible(Methods)')
    <3>1. /\ SeenCurrent /\ SeenGrows /\ UNCHANGED <<order, next>> /\ next \in 1..Count
          /\ Lists(response.headers["Allow"], Sure(Methods), Possible(Methods))
          /\ Methods \in SUBSET Methods
      BY <1>1, <1>2, <1>3, <2>3 DEF AllowInv
    <3>2. Lists(response.headers["Allow"], Sure(Methods)', Possible(Methods)')
      BY <3>1, ListStays, Zenon
    <3> QED
      BY <1>3, <3>2, Zenon
  <2> QED
    BY <1>3, <2>1, <2>2, <2>3, Zenon DEF AllowInv
<1>4. ASSUME pc' \notin {"allow", "send"}, allow' = <<>> PROVE AllowInv'
  BY <1>4, Zenon DEF AllowInv
<1>5. ASSUME pc' = "send", response'.statusCode # 405 PROVE AllowInv'
  BY <1>5, Zenon DEF AllowInv
<1>6. pc \notin {"allow", "send"} => allow = <<>>
  BY DEF AllowInv
<1>7. CASE UNCHANGED dispatchVars \/ DispatchDone
  BY <1>3, <1>7 DEF dispatchVars, tables, answer, DispatchDone
<1>8. ASSUME NEW r \in Requests, Receive(r) PROVE AllowInv'
  <2>1. /\ pc = "idle" /\ allow' = allow
        /\ pc' \in {"match", "crashed"} \/ (pc' = "send" /\ response' = createBadRequestResponse)
    BY <1>8, ReceiveShape, Zenon
  <2> QED
    BY <1>4, <1>5, <1>6, <2>1, OwnStatus
<1>9. CASE TryRoute
  <2>1. pc = "match" /\ pc' \in {"match", "method"} /\ allow' = allow
    BY <1>9 DEF TryRoute
  <2> QED
    BY <1>4, <1>6, <2>1
<1>10. CASE NoRoute
  BY <1>5, <1>10, OwnStatus DEF NoRoute, Respond
<1>11. CASE CheckMethod
  <2>1. /\ pc = "method" /\ allow' = allow
        /\ \/ pc' = "allow" /\ rest' = Methods
           \/ pc' = "render"
           \/ pc' = "send" /\ response' = createBadRequestResponse
    BY <1>11 DEF CheckMethod, Respond
  <2>2. CASE pc' = "allow" /\ rest' = Methods
    <3>1. Sure(Methods \ rest)' = {} /\ Possible(Methods \ rest)' = {}
      BY <2>2 DEF Sure, Possible
    <3>2. allow' = <<>>
      BY <1>6, <2>1
    <3>3. Lists(allow', Sure(Methods \ rest)', Possible(Methods \ rest)')
      BY <3>1, <3>2, ListsEmpty, Zenon
    <3> QED
      BY <2>2, <3>3 DEF AllowInv
  <2> QED
    BY <1>4, <1>5, <1>6, <2>1, <2>2, OwnStatus
<1>12. CASE ListEnd
  <2>1. /\ pc = "allow" /\ rest = {} /\ pc' = "send" /\ response' = createMethodNotAllowed(allow)
        /\ UNCHANGED <<order, seen, next>>
    BY <1>12 DEF ListEnd, Respond, tables
  <2>2. Methods \ rest = Methods
    BY <2>1
  <2>3. Lists(allow, Sure(Methods), Possible(Methods))
    BY <2>1, <2>2, Zenon DEF AllowInv
  <2>4. response'.headers["Allow"] = allow
    BY <2>1, Refused, Zenon
  <2>5. Sure(Methods)' = Sure(Methods) /\ Possible(Methods)' = Possible(Methods)
    BY <2>1 DEF Sure, Possible, Matched
  <2>6. Lists(response'.headers["Allow"], Sure(Methods)', Possible(Methods)')
    BY <2>3, <2>4, <2>5, Zenon
  <2> QED
    BY <2>1, <2>6 DEF AllowInv
<1>13. ASSUME NEW m \in Methods, ListMethod(m) PROVE AllowInv'
  <2>1. /\ pc = "allow" /\ pc' = "allow" /\ m \in rest /\ rest' = rest \ {m}
        /\ allow' = allow \o (IF allow = <<>> THEN <<>> ELSE <<", ">>)
                         \o (IF allowed[Matched][m] THEN <<m>> ELSE <<>>)
        /\ UNCHANGED <<order, allowed, seen, next>>
    BY <1>13 DEF ListMethod, tables
  <2> DEFINE visited == Methods \ rest
  <2>2. /\ Lists(allow, Sure(visited), Possible(visited)) /\ m \in Methods \ Possible(visited)
        /\ (Methods \ rest)' = visited \cup {m}
    BY <2>1 DEF AllowInv, Possible
  <2>3. Matched \in Patterns /\ allowed[Matched][m] \in seen[Matched][m]
        /\ allowed \in [Patterns -> [Methods -> BOOLEAN]]
    BY <1>1, <1>2, <2>1, MatchedKnown DEF SeenCurrent, TypeInv, TablesType
  <2> HIDE DEF visited
  <2>4. ASSUME allowed[Matched][m]
        PROVE  Lists(allow', Sure(visited \cup {m}), Possible(visited \cup {m}))
    <3>1. Lists(allow', Sure(visited) \cup {m}, Possible(visited) \cup {m})
      BY <2>1, <2>2, <2>4, ListsRound, Zenon
    <3>2. TRUE \in seen[Matched][m]
      BY <2>3, <2>4
    <3>3. /\ Sure(visited \cup {m}) \in SUBSET (Sure(visited) \cup {m})
          /\ Possible(visited) \cup {m} \subseteq Possible(visited \cup {m})
      BY <3>2 DEF Sure, Possible
    <3> QED
      BY <3>1, <3>3, ListsWeaken
  <2>5. ASSUME ~ allowed[Matched][m]
        PROVE  Lists(allow', Sure(visited \cup {m}), Possible(visited \cup {m}))
    <3>1. Lists(allow', Sure(visited), Possible(visited))
      BY <2>1, <2>2, <2>5, ListsRound, Zenon
    <3>2. FALSE \in seen[Matched][m]
      BY <2>3, <2>5
    <3>3. /\ Sure(visited \cup {m}) \in SUBSET Sure(visited)
          /\ Possible(visited) \subseteq Possible(visited \cup {m})
      BY <3>2 DEF Sure, Possible
    <3> QED
      BY <3>1, <3>3, ListsWeaken
  <2>6. Lists(allow', Sure(visited \cup {m}), Possible(visited \cup {m}))
    BY <2>4, <2>5
  <2>7. /\ Sure(Methods \ rest)' = Sure(visited \cup {m})
        /\ Possible(Methods \ rest)' = Possible(visited \cup {m})
    BY <2>1, <2>2 DEF Sure, Possible, Matched
  <2> QED
    BY <2>1, <2>6, <2>7 DEF AllowInv
<1>14. CASE RenderDefault
  BY <1>5, <1>14, OwnStatus DEF RenderDefault, Respond
<1>15. CASE RenderBegins
  BY <1>4, <1>6, <1>15 DEF RenderBegins
<1>16. CASE RenderBuilds
  BY <1>4, <1>6, <1>16 DEF RenderBuilds
<1>17. CASE RenderReturns
  <2>1. pc = "build" /\ pc' = "send" /\ response' = response
    BY <1>17 DEF RenderReturns, Respond
  <2>2. response'.statusCode # 405
    BY <2>1, DispatchAssumption DEF TableInv, OwnResponse
  <2> QED
    BY <1>5, <2>1, <2>2
<1>18. CASE RenderFails
  <2>1. /\ pc \in {"render", "build"} /\ allow' = allow
        /\ pc' = "crashed" \/ (pc' = "send" /\ response' = createBadRequestResponse)
    BY <1>18 DEF RenderFails, Respond
  <2> QED
    BY <1>4, <1>5, <1>6, <2>1, OwnStatus
<1>19. CASE Send
  BY <1>4, <1>19 DEF Send
<1>20. ASSUME NEW p \in Shared,
              \/ \E m \in Methods \cup {"UNKNOWN"}, value \in BOOLEAN : setAllowing(p, m, value)
              \/ disallowAll(p)
              \/ allowAll(p)
       PROVE  AllowInv'
  BY <1>3, <1>20, TableCalled DEF answer
<1>21. ASSUME NEW entry \in writer.left, WriteEntry(entry[1], entry[2]) PROVE AllowInv'
  <2>1. UNCHANGED <<order, pc, answer>>
    BY <1>21, WriterEntries, EntryWritten
  <2> QED
    BY <1>3, <2>1 DEF answer
<1> QED
  BY <1>7, <1>8, <1>9, <1>10, <1>11, <1>12, <1>13, <1>14, <1>15, <1>16, <1>17, <1>18,
     <1>19, <1>20, <1>21, Zenon DEF DispatchNext, IoNext

(* The Allow header of a 405 names each method once, all that were allowed   *)
(* ever since the request came in and none that was not at any time since,   *)
(* and keeps the names apart, whatever the application changes meanwhile.    *)
THEOREM AllowAlwaysNamesTable == DispatchSpec => []AllowNamesTable
<1>1. DispatchInit => AllowInv
  BY DEF DispatchInit, AllowInv
<1>2. AllowInv => AllowNamesTable
  BY DEF AllowInv, AllowNamesTable, Lists, Sure, Possible
<1> QED
  BY <1>1, <1>2, TypeInit, TypeStep, TableInit, TableStep, AllowStep, PTL DEF DispatchSpec

-----------------------------------------------------------------------------
(* Routing                                                                   *)

(* The route that was found, and the values that its parameters got.         *)
Routed ==
    \E route \in Routes : \E values :
        /\ Written(route) = Matched
        /\ Meant(route, request.uri, values)
        /\ Assigns(route, values, <<>>, request.args)

(* What the resource at a position of the loop makes of the request.         *)
Tried(i) == matchUrl(request, createRegexFromURI(order[i]))

(* The loop visits every resource; those that it has left behind do not      *)
(* match; what it stops at does, and that remains so up to the call of user  *)
(* code; and a 404 is sent only at its end.                                  *)
RoutedInv ==
    /\ \A p \in Patterns : \E i \in 1..Count : order[i] = p
    /\ pc = "idle" => next = 1
    /\ pc = "match" =>
          request.args = <<>> /\ \A i \in 1..Count : i < next => Tried(i) = {}
    /\ pc \in {"method", "allow", "render", "build"} => Routed
    /\ pc = "send" /\ response.statusCode = 404 =>
          \A route \in Routes : Fillings(route, request.uri) = {}

(* A URI that no resource matches is one that no route stands for.           *)
LEMMA UnmatchedUnmeant ==
    ASSUME TypeInv, RoutedInv, \A i \in 1..Count : Tried(i) = {}
    PROVE  \A route \in Routes : Fillings(route, request.uri) = {}
<1> SUFFICES ASSUME NEW route \in Routes PROVE Fillings(route, request.uri) = {}
  OBVIOUS
<1>1. IsRoute(route) /\ Plain(route) /\ Written(route) \in Patterns
  BY PlainRoutes
<1>2. PICK i \in 1..Count : order[i] = Written(route)
  BY <1>1 DEF RoutedInv
<1>3. matchUrl(request, createRegexFromURI(Written(route))) = {}
  BY <1>2, Zenon DEF Tried
<1>4. request.uri \in Text
  BY RequestFacts, Zenon DEF TypeInv, AnswerType
<1> QED
  BY <1>1, <1>3, <1>4, MeantIsMatched, Zenon

(* A resource that matches is a route that was found.                        *)
LEMMA FoundIsRouted ==
    ASSUME NEW p \in Patterns, NEW r \in RequestType, r.args = <<>>,
           NEW x \in matchUrl(r, createRegexFromURI(p))
    PROVE  \E route \in Routes : \E values :
              /\ Written(route) = p
              /\ Meant(route, x.uri, values)
              /\ Assigns(route, values, <<>>, x.args)
<1>1. ~ (p \in Text /\ LacksBrace(p))
  BY MalformedUnmatched
<1>2. PICK route \in Routes : Written(route) = p /\ IsRoute(route) /\ Plain(route)
  BY <1>1, PatternKinds, Zenon
<1>3. x \in matchUrl(r, createRegexFromURI(Written(route)))
  BY <1>2
<1>4. IsRequest(r) /\ r.uri \in Text
  BY RequestFacts, Zenon
<1>5. x \in WithArguments(r)
  BY <1>2, <1>3, <1>4, MatchedIsMeant, Zenon
<1>6. \E values : Meant(route, r.uri, values) /\ Assigns(route, values, r.args, x.args)
  BY <1>2, <1>3, <1>4, MatchedIsMeant, Zenon
<1>7. x.uri = r.uri
  BY <1>5 DEF WithArguments, RequestType
<1> QED
  BY <1>2, <1>6, <1>7, Zenon

(* What the steps that do not route leave as it was.                         *)
Unrouted ==
    /\ UNCHANGED <<order, next, request>>
    /\ pc' \in {"idle", "match"} => pc' = pc
    /\ pc' \in {"method", "allow", "render", "build"} => pc \in {"method", "allow", "render", "build"}
    /\ pc' = "send" /\ response'.statusCode = 404 => pc = "send" /\ response.statusCode = 404

(* Steps that do not touch the loop keep RoutedInv.                          *)
LEMMA UnroutedKeeps == RoutedInv /\ Unrouted => RoutedInv'
<1> SUFFICES ASSUME RoutedInv, Unrouted PROVE RoutedInv'
  OBVIOUS
<1>1. order' = order /\ next' = next /\ request' = request
  BY DEF Unrouted
<1>2. \A p \in Patterns : \E i \in 1..Count : order'[i] = p
  BY <1>1, Zenon DEF RoutedInv
<1>3. pc' = "idle" => next' = 1
  BY <1>1 DEF RoutedInv, Unrouted
<1>4. ASSUME pc' = "match"
      PROVE  request'.args = <<>> /\ \A i \in 1..Count : i < next' => Tried(i)' = {}
  <2>1. pc = "match"
    BY <1>4 DEF Unrouted
  <2>2. request.args = <<>> /\ \A i \in 1..Count : i < next => Tried(i) = {}
    BY <2>1, Zenon DEF RoutedInv
  <2>3. \A i \in 1..Count : Tried(i)' = Tried(i)
    BY <1>1, Zenon DEF Tried
  <2> QED
    BY <1>1, <2>2, <2>3
<1>5. ASSUME pc' \in {"method", "allow", "render", "build"} PROVE Routed'
  <2>1. pc \in {"method", "allow", "render", "build"}
    BY <1>5, Zenon DEF Unrouted
  <2>2. Routed
    BY <2>1, Zenon DEF RoutedInv
  <2> QED
    BY <1>1, <2>2, Zenon DEF Routed, Matched
<1>6. ASSUME pc' = "send" /\ response'.statusCode = 404
      PROVE  \A route \in Routes : Fillings(route, request'.uri) = {}
  <2>1. pc = "send" /\ response.statusCode = 404
    BY <1>6, Zenon DEF Unrouted
  <2> QED
    BY <1>1, <2>1, Zenon DEF RoutedInv
<1> QED
  BY <1>2, <1>3, <1>4, <1>5, <1>6, Zenon DEF RoutedInv

(* RoutedInv holds at first.                                                 *)
LEMMA RoutedInit == DispatchInit => TypeInv /\ TableInv /\ RoutedInv
<1> SUFFICES ASSUME DispatchInit PROVE TypeInv /\ TableInv /\ RoutedInv
  OBVIOUS
<1>1. pc = "idle" /\ next = 1
  BY Zenon DEF DispatchInit
<1>2. \A p \in Patterns : \E i \in 1..Count : order[i] = p
  BY OrderVisitsAll, Zenon DEF DispatchInit
<1>3. RoutedInv
  BY <1>1, <1>2 DEF RoutedInv
<1>4. TableInv
  BY TableInit
<1> QED
  BY <1>3, <1>4, TypeInit, Zenon

(* Every step keeps RoutedInv.                                               *)
LEMMA RoutedStep ==
    TypeInv /\ TableInv /\ RoutedInv /\ [DispatchNext]_dispatchVars => RoutedInv'
<1> SUFFICES ASSUME TypeInv, TableInv, RoutedInv, [DispatchNext]_dispatchVars PROVE RoutedInv'
  OBVIOUS
<1>1. CASE UNCHANGED dispatchVars \/ DispatchDone
  <2>1. Unrouted
    BY <1>1 DEF Unrouted, dispatchVars, tables, answer, DispatchDone
  <2> QED
    BY <2>1, UnroutedKeeps, Zenon
<1>2. ASSUME NEW r \in Requests, Receive(r) PROVE RoutedInv'
  <2>1. pc = "idle" /\ order' = order /\ next' = next
    BY <1>2, ReceiveShape, Zenon
  <2>2. next' = 1
    BY <2>1 DEF RoutedInv
  <2>3. \A p \in Patterns : \E i \in 1..Count : order'[i] = p
    BY <2>1, Zenon DEF RoutedInv
  <2>4. \/ pc' = "send" /\ response' = createBadRequestResponse
        \/ pc' = "match" /\ request' = ParseRequest(Data(r)) /\ Len(RequestLine(Data(r))) >= 3
        \/ pc' = "crashed"
    BY <1>2, ReceiveShape, Zenon
  <2>5. pc' = "match" => \A i \in 1..Count : i < next' => Tried(i)' = {}
    BY <2>2
  <2>6. pc' = "match" => request'.args = <<>>
    <3>1. Len(RequestLine(Data(r))) >= 3 => ParseRequest(Data(r)).args = <<>>
      BY DataType, Zenon
    <3>2. "send" # "match" /\ "crashed" # "match"
      OBVIOUS
    <3> QED
      BY <2>4, <3>1, <3>2, Zenon
  <2>7. pc' = "send" => response'.statusCode = 400
    <3>1. "send" # "match" /\ "crashed" # "send"
      OBVIOUS
    <3> QED
      BY <2>4, <3>1, OwnStatus, Zenon
  <2>8. pc' \in {"match", "crashed", "send"}
    BY <2>4, Zenon
  <2>9. pc' \notin {"method", "allow", "render", "build"} /\ ~ (pc' = "send" /\ response'.statusCode = 404)
    BY <2>7, <2>8
  <2> QED
    BY <2>2, <2>3, <2>5, <2>6, <2>9, Zenon DEF RoutedInv
<1>3. CASE TryRoute
  <2>1. /\ pc = "match" /\ next <= Count /\ order' = order
        /\ \/ pc' = "method" /\ request' \in matchUrl(request, resource[Matched]) /\ next' = next
           \/ /\ matchUrl(request, resource[Matched]) = {}
              /\ next' = next + 1 /\ pc' = pc /\ request' = request
    BY <1>3, Zenon DEF TryRoute, tables
  <2>2. next \in 1..Count
    BY <2>1, PatternCount DEF TypeInv, LoopType
  <2>3. Matched \in Patterns /\ resource[Matched] = createRegexFromURI(Matched)
    BY <2>2 DEF TypeInv, TablesType, Matched
  <2>4. \A p \in Patterns : \E i \in 1..Count : order'[i] = p
    BY <2>1, Zenon DEF RoutedInv
  <2>5. request.args = <<>> /\ \A i \in 1..Count : i < next => Tried(i) = {}
    BY <2>1, Zenon DEF RoutedInv
  <2>6. CASE pc' = "method" /\ request' \in matchUrl(request, resource[Matched]) /\ next' = next
    <3>1. request \in RequestType /\ request' \in matchUrl(request, createRegexFromURI(Matched))
      BY <2>3, <2>6, Zenon DEF TypeInv, AnswerType
    <3>2. \E route \in Routes : \E values :
              /\ Written(route) = Matched
              /\ Meant(route, request'.uri, values)
              /\ Assigns(route, values, <<>>, request'.args)
      BY <2>3, <2>5, <3>1, FoundIsRouted, Zenon
    <3>3. Matched' = Matched
      BY <2>1, <2>6, Zenon DEF Matched
    <3>4. Routed'
      BY <3>2, <3>3, Zenon DEF Routed
    <3> QED
      BY <2>4, <2>6, <3>4 DEF RoutedInv
  <2>7. CASE /\ matchUrl(request, resource[Matched]) = {}
             /\ next' = next + 1 /\ pc' = pc /\ request' = request
    <3>1. Tried(next) = {}
      BY <2>3, <2>7, Zenon DEF Tried, Matched
    <3>2. \A i \in 1..Count : Tried(i)' = Tried(i)
      BY <2>1, <2>7, Zenon DEF Tried
    <3>3. ASSUME NEW i \in 1..Count, i < next' PROVE Tried(i)' = {}
      <4>1. i < next \/ i = next
        BY <2>2, <2>7, <3>3
      <4> QED
        BY <2>5, <3>1, <3>2, <4>1, Zenon
    <3>4. pc' = "match" /\ request'.args = <<>>
      BY <2>1, <2>5, <2>7, Zenon
    <3> QED
      BY <2>4, <3>3, <3>4 DEF RoutedInv
  <2> QED
    BY <2>1, <2>6, <2>7, Zenon
<1>4. CASE NoRoute
  <2>1. pc = "match" /\ next > Count /\ pc' = "send" /\ order' = order /\ request' = request
    BY <1>4, Zenon DEF NoRoute, Respond, tables
  <2>2. \A i \in 1..Count : i < next
    BY <2>1, PatternCount DEF TypeInv, LoopType
  <2>3. \A i \in 1..Count : Tried(i) = {}
    BY <2>1, <2>2, Zenon DEF RoutedInv
  <2>4. \A route \in Routes : Fillings(route, request'.uri) = {}
    BY <2>1, <2>3, UnmatchedUnmeant, Zenon
  <2>5. \A p \in Patterns : \E i \in 1..Count : order'[i] = p
    BY <2>1, Zenon DEF RoutedInv
  <2> QED
    BY <2>1, <2>4, <2>5 DEF RoutedInv
<1>5. CASE CheckMethod
  <2>1. Unrouted
    BY <1>5, OwnStatus DEF CheckMethod, Respond, Unrouted, tables
  <2> QED
    BY <2>1, UnroutedKeeps, Zenon
<1>6. CASE ListEnd
  <2>1. Unrouted
    BY <1>6, Refused DEF ListEnd, Respond, Unrouted, tables
  <2> QED
    BY <2>1, UnroutedKeeps, Zenon
<1>7. ASSUME NEW m \in Methods, ListMethod(m) PROVE RoutedInv'
  <2>1. Unrouted
    BY <1>7 DEF ListMethod, Unrouted, tables
  <2> QED
    BY <2>1, UnroutedKeeps, Zenon
<1>8. CASE RenderDefault
  <2>1. Unrouted
    BY <1>8, OwnStatus DEF RenderDefault, Respond, Unrouted, tables
  <2> QED
    BY <2>1, UnroutedKeeps, Zenon
<1>9. CASE RenderBegins
  <2>1. Unrouted
    BY <1>9 DEF RenderBegins, Unrouted, tables
  <2> QED
    BY <2>1, UnroutedKeeps, Zenon
<1>10. CASE RenderBuilds
  <2>1. Unrouted
    BY <1>10 DEF RenderBuilds, Unrouted, tables
  <2> QED
    BY <2>1, UnroutedKeeps, Zenon
<1>11. CASE RenderReturns
  <2>1. Unrouted
    BY <1>11, DispatchAssumption DEF RenderReturns, Respond, Unrouted, tables, TableInv, OwnResponse
  <2> QED
    BY <2>1, UnroutedKeeps, Zenon
<1>12. CASE RenderFails
  <2>1. Unrouted
    BY <1>12, OwnStatus DEF RenderFails, Respond, Unrouted, tables
  <2> QED
    BY <2>1, UnroutedKeeps, Zenon
<1>13. CASE Send
  <2>1. pc' = "idle" /\ next' = 1 /\ order' = order
    BY <1>13, Zenon DEF Send, tables
  <2>2. \A p \in Patterns : \E i \in 1..Count : order'[i] = p
    BY <2>1, Zenon DEF RoutedInv
  <2> QED
    BY <2>1, <2>2 DEF RoutedInv
<1>14. ASSUME NEW p \in Shared,
              \/ \E m \in Methods \cup {"UNKNOWN"}, value \in BOOLEAN : setAllowing(p, m, value)
              \/ disallowAll(p)
              \/ allowAll(p)
       PROVE  RoutedInv'
  <2>1. Unrouted
    BY <1>14 DEF setAllowing, disallowAll, allowAll, ChangeTable, answer, Unrouted
  <2> QED
    BY <2>1, UnroutedKeeps, Zenon
<1>15. ASSUME NEW p, NEW m, WriteEntry(p, m) PROVE RoutedInv'
  <2>1. Unrouted
    BY <1>15 DEF WriteEntry, answer, Unrouted
  <2> QED
    BY <2>1, UnroutedKeeps, Zenon
<1> QED
  BY <1>1, <1>2, <1>3, <1>4, <1>5, <1>6, <1>7, <1>8, <1>9, <1>10, <1>11, <1>12, <1>13,
     <1>14, <1>15, Zenon DEF DispatchNext, IoNext

(* The parameter that counts is the last one with the name.                  *)
LEMMA LastCounts ==
    ASSUME NEW route, IsRoute(route), NEW i, Counts(route, i)
    PROVE  Max({j \in ParamsOf(route) : route[j].text = route[i].text}) = i
<1> DEFINE S == {j \in ParamsOf(route) : route[j].text = route[i].text}
<1>1. S \subseteq Nat
  BY DEF IsRoute, ParamsOf
<1>2. i \in S /\ \A j \in S : j <= i
  BY DEF Counts
<1> HIDE DEF S
<1>3. Max(S) = i
  BY <1>1, <1>2, MaxIs
<1> QED
  BY <1>3 DEF S

(* The order covers all resources, so a 404 has seen each of them fail.      *)
LEMMA RoutedImplies == TypeInv /\ RoutedInv => RoutedAsMeant
<1> SUFFICES ASSUME TypeInv, RoutedInv PROVE RoutedAsMeant
  OBVIOUS
<1>1. ASSUME pc = "render"
      PROVE  \E route \in Routes :
                LET named(name) == {i \in ParamsOf(route) : route[i].text = name} IN
                /\ Written(route) = Matched
                /\ DOMAIN request.args = {route[i].text : i \in ParamsOf(route)}
                /\ Literal(".") \notin ToSet(route) =>
                      \E values \in Fillings(route, request.uri) :
                          \A name \in DOMAIN request.args :
                              getArg(request, name) = values[Max(named(name))]
  <2>1. Routed
    BY <1>1 DEF RoutedInv
  <2>2. PICK route \in Routes : \E values :
           /\ Written(route) = Matched
           /\ Meant(route, request.uri, values)
           /\ Assigns(route, values, <<>>, request.args)
    BY <2>1, Zenon DEF Routed
  <2>3. PICK values :
           /\ Written(route) = Matched
           /\ Meant(route, request.uri, values)
           /\ Assigns(route, values, <<>>, request.args)
    BY <2>2, Zenon
  <2> DEFINE named(name) == {i \in ParamsOf(route) : route[i].text = name}
  <2>4. DOMAIN request.args = {route[i].text : i \in ParamsOf(route)}
    <3>1. DOMAIN <<>> = {}
      OBVIOUS
    <3> QED
      BY <2>3, <3>1 DEF Assigns
  <2>5. IsRoute(route)
    BY PlainRoutes
  <2>6. ASSUME NEW name \in DOMAIN request.args
        PROVE  getArg(request, name) = values[Max(named(name))]
    <3>1. name \notin DOMAIN <<>>
      OBVIOUS
    <3>2. PICK i : Counts(route, i) /\ route[i].text = name /\ request.args[name] = values[i]
      BY <2>3, <2>6, <3>1, Zenon DEF Assigns
    <3>3. Max(named(name)) = i
      BY <2>5, <3>2, LastCounts
    <3> QED
      BY <3>2, <3>3, Zenon DEF getArg
  <2>7. Literal(".") \notin ToSet(route) => values \in Fillings(route, request.uri)
    BY <2>3 DEF Meant, Fillings, ValuesIn
  <2> QED
    BY <2>3, <2>4, <2>6, <2>7
<1>2. pc = "send" /\ response.statusCode = 404 =>
        \A route \in Routes : Fillings(route, request.uri) = {}
  BY DEF RoutedInv
<1> QED
  BY <1>1, <1>2 DEF RoutedAsMeant

(* Routing by the loop and the regular expressions agrees with what the      *)
(* routes mean, for any routes, any resources that are none, and any         *)
(* requests: matchUrl hands user code the values that give the URI, and 404  *)
(* is sent only when no route stands for it.                                 *)
THEOREM RoutedAlwaysAsMeant == DispatchSpec => []RoutedAsMeant
BY RoutedInit, RoutedStep, TypeStep, TableStep, RoutedImplies, PTL DEF DispatchSpec

-----------------------------------------------------------------------------
(* What user code is given                                                   *)

(* The request is the one that was sent, from handleRequestData to the call  *)
(* of user code, which only a method of the table comes to.                  *)
HandedInv ==
    /\ pc \in {"match", "method", "render"} =>
          input \in Requests /\ SentAs(input.message, input.length, request)
    /\ pc = "render" => request.method \in Methods

(* What the steps that do not touch the request leave as it was.             *)
Unhanded == UNCHANGED <<input, request>> /\ (pc' \in {"match", "method", "render"} => pc' = pc)

(* Steps that do not touch the request keep HandedInv.                       *)
LEMMA UnhandedKeeps == HandedInv /\ Unhanded => HandedInv'
<1> SUFFICES ASSUME HandedInv, Unhanded PROVE HandedInv'
  OBVIOUS
<1>1. input' = input /\ request' = request
  BY DEF Unhanded
<1>2. CASE pc' = pc
  BY <1>1, <1>2, Zenon DEF HandedInv
<1>3. CASE pc' \notin {"match", "method", "render"}
  BY <1>3 DEF HandedInv
<1> QED
  BY <1>2, <1>3 DEF Unhanded

(* What matchUrl leaves of a request.                                        *)
LEMMA ArgumentsOnly ==
    ASSUME NEW r, NEW x \in WithArguments(r), NEW message, NEW n, SentAs(message, n, r)
    PROVE  SentAs(message, n, x) /\ x.method = r.method
<1>1. x.method = r.method /\ x.uri = r.uri /\ x.headers = r.headers /\ x.body = r.body
  BY DEF WithArguments
<1> QED
  BY <1>1, Zenon DEF SentAs

(* Every step keeps HandedInv.                                               *)
LEMMA HandedStep == TypeInv /\ HandedInv /\ [DispatchNext]_dispatchVars => HandedInv'
<1> SUFFICES ASSUME TypeInv, HandedInv, [DispatchNext]_dispatchVars PROVE HandedInv'
  OBVIOUS
<1>1. CASE UNCHANGED dispatchVars \/ DispatchDone
  <2>1. Unhanded
    BY <1>1 DEF Unhanded, dispatchVars, tables, answer, DispatchDone
  <2> QED
    BY <2>1, UnhandedKeeps, Zenon
<1>2. ASSUME NEW r \in Requests, Receive(r) PROVE HandedInv'
  <2>1. input' = r
    BY <1>2, ReceiveShape, Zenon
  <2>2. \/ pc' = "send"
        \/ pc' = "match" /\ request' = ParseRequest(Data(r)) /\ Len(RequestLine(Data(r))) >= 3
        \/ pc' = "crashed"
    BY <1>2, ReceiveShape, Zenon
  <2>3. CASE pc' = "match" /\ request' = ParseRequest(Data(r)) /\ Len(RequestLine(Data(r))) >= 3
    <3>1. IsMessage(r.message) /\ r.length \in 0..Len(Composed(r.message))
      BY DispatchAssumption, Zenon
    <3>2. SentAs(r.message, r.length, ParseRequest(Data(r)))
      BY <2>3, <3>1, ParsedAsSent, Zenon DEF Data
    <3>3. input' \in Requests /\ SentAs(input'.message, input'.length, request')
      BY <2>1, <2>3, <3>2, Zenon
    <3> QED
      BY <2>3, <3>3 DEF HandedInv
  <2>4. CASE pc' = "send" \/ pc' = "crashed"
    BY <2>4 DEF HandedInv
  <2> QED
    BY <2>2, <2>3, <2>4, Zenon
<1>3. CASE TryRoute
  <2>1. /\ pc = "match" /\ next <= Count /\ input' = input
        /\ \/ pc' = "method" /\ request' \in matchUrl(request, resource[Matched])
           \/ pc' = pc /\ request' = request
    BY <1>3, Zenon DEF TryRoute
  <2>2. input \in Requests /\ SentAs(input.message, input.length, request)
    BY <2>1 DEF HandedInv
  <2>3. CASE pc' = "method" /\ request' \in matchUrl(request, resource[Matched])
    <3>1. next \in 1..Count
      BY <2>1, PatternCount DEF TypeInv, LoopType
    <3>2. Matched \in Patterns /\ resource[Matched] = createRegexFromURI(Matched)
      BY <3>1 DEF TypeInv, TablesType, Matched
    <3>3. request' \in WithArguments(request)
      BY <2>3, <3>2, MatchUrlType, Zenon DEF TypeInv, AnswerType
    <3>4. input' \in Requests /\ SentAs(input'.message, input'.length, request')
      BY <2>1, <2>2, <3>3, ArgumentsOnly, Zenon
    <3> QED
      BY <2>3, <3>4 DEF HandedInv
  <2>4. CASE pc' = pc /\ request' = request
    BY <2>1, <2>2, <2>4 DEF HandedInv
  <2> QED
    BY <2>1, <2>3, <2>4, Zenon
<1>4. CASE NoRoute
  <2>1. Unhanded
    BY <1>4 DEF NoRoute, Respond, Unhanded
  <2> QED
    BY <2>1, UnhandedKeeps, Zenon
<1>5. CASE CheckMethod
  <2>1. /\ pc = "method" /\ input' = input /\ request' = request
        /\ pc' \in {"allow", "send"} \/ (pc' = "render" /\ request.method \in Methods)
    BY <1>5 DEF CheckMethod, Respond, isAllowed
  <2>2. input \in Requests /\ SentAs(input.message, input.length, request)
    BY <2>1 DEF HandedInv
  <2> QED
    BY <2>1, <2>2 DEF HandedInv
<1>6. CASE ListEnd
  <2>1. Unhanded
    BY <1>6 DEF ListEnd, Respond, Unhanded
  <2> QED
    BY <2>1, UnhandedKeeps, Zenon
<1>7. ASSUME NEW m \in Methods, ListMethod(m) PROVE HandedInv'
  <2>1. Unhanded
    BY <1>7 DEF ListMethod, Unhanded
  <2> QED
    BY <2>1, UnhandedKeeps, Zenon
<1>8. CASE RenderDefault \/ RenderReturns
  <2>1. Unhanded
    BY <1>8 DEF RenderDefault, RenderReturns, Respond, Unhanded
  <2> QED
    BY <2>1, UnhandedKeeps, Zenon
<1>9. CASE RenderBegins \/ RenderBuilds
  <2>1. Unhanded
    BY <1>9 DEF RenderBegins, RenderBuilds, Unhanded
  <2> QED
    BY <2>1, UnhandedKeeps, Zenon
<1>10. CASE RenderFails
  <2>1. Unhanded
    BY <1>10 DEF RenderFails, Respond, Unhanded
  <2> QED
    BY <2>1, UnhandedKeeps, Zenon
<1>11. CASE Send
  <2>1. pc' = "idle"
    BY <1>11, Zenon DEF Send
  <2> QED
    BY <2>1 DEF HandedInv
<1>12. ASSUME NEW p \in Shared,
              \/ \E m \in Methods \cup {"UNKNOWN"}, value \in BOOLEAN : setAllowing(p, m, value)
              \/ disallowAll(p)
              \/ allowAll(p)
       PROVE  HandedInv'
  <2>1. Unhanded
    BY <1>12 DEF setAllowing, disallowAll, allowAll, ChangeTable, answer, Unhanded
  <2> QED
    BY <2>1, UnhandedKeeps, Zenon
<1>13. ASSUME NEW p, NEW m, WriteEntry(p, m) PROVE HandedInv'
  <2>1. Unhanded
    BY <1>13 DEF WriteEntry, answer, Unhanded
  <2> QED
    BY <2>1, UnhandedKeeps, Zenon
<1> QED
  BY <1>1, <1>2, <1>3, <1>4, <1>5, <1>6, <1>7, <1>8, <1>9, <1>10, <1>11, <1>12, <1>13,
     Zenon DEF DispatchNext, IoNext

(* A slash at the end is all that the URI loses.                             *)
LEMMA StrippedSlash ==
    ASSUME NEW uri \in Text
    PROVE  uri = StripSlash(uri) \/ uri = Append(StripSlash(uri), "/")
<1>1. CASE uri # <<>> /\ Last(uri) = "/"
  <2>1. StripSlash(uri) = Front(uri) /\ Front(uri) = SubSeq(uri, 1, Len(uri) - 1) /\ Last(uri) = uri[Len(uri)]
    BY <1>1, Zenon DEF StripSlash, Front, Last
  <2>2. ASSUME NEW S, NEW s \in Seq(S), s # <<>> PROVE s = Append(SubSeq(s, 1, Len(s) - 1), s[Len(s)])
    <3> DEFINE a == SubSeq(s, 1, Len(s) - 1)
               b == Append(a, s[Len(s)])
               n == Len(s) - 1
    <3>1. n \in Nat /\ Len(s) = n + 1 /\ n \in 0..Len(s) /\ s[n + 1] \in S
      BY <2>2
    <3>2. a \in Seq(S) /\ Len(a) = n
      BY <3>1, CutAt, Zenon
    <3>3. \A i \in 1..n : a[i] = s[i]
      BY <3>1
    <3> HIDE DEF a, n
    <3>4. b \in Seq(S) /\ Len(b) = n + 1 /\ (\A i \in 1..n : b[i] = a[i]) /\ b[n + 1] = s[n + 1]
      BY <3>1, <3>2
    <3>5. \A i \in 1..(n + 1) : b[i] = s[i]
      BY <3>1, <3>3, <3>4
    <3> HIDE DEF b
    <3>6. s = b
      BY <3>1, <3>4, <3>5, SeqEqual
    <3> QED
      BY <3>6 DEF a, b
  <2>3. uri = Append(SubSeq(uri, 1, Len(uri) - 1), uri[Len(uri)])
    BY <1>1, <2>2 DEF Text
  <2> QED
    BY <1>1, <2>1, <2>3, Zenon
<1>2. CASE ~ (uri # <<>> /\ Last(uri) = "/")
  BY <1>2, Zenon DEF StripSlash
<1> QED
  BY <1>1, <1>2

(* What HandedInv says of a request that is rendered.                        *)
LEMMA HandedImplies == HandedInv => HandedOn
<1> SUFFICES ASSUME HandedInv, pc = "render" PROVE HandedOn
  BY DEF HandedOn
<1> DEFINE sent == input.message
<1>1. input \in Requests /\ SentAs(sent, input.length, request) /\ request.method \in Methods
  BY DEF HandedInv
<1>2. IsMessage(sent)
  BY <1>1, DispatchAssumption, Zenon
<1> HIDE DEF sent
<1>3. request.method = sent.method
  <2>1. request.method = stringToHttpMethod(<<sent.method>>)
    BY <1>1, Zenon DEF SentAs
  <2>2. "UNKNOWN" \notin Methods
    BY DEF Methods
  <2>3. stringToHttpMethod(<<sent.method>>) \in {<<sent.method>>[1], "UNKNOWN"}
    BY Zenon DEF stringToHttpMethod
  <2>4. <<sent.method>>[1] = sent.method
    OBVIOUS
  <2> QED
    BY <1>1, <2>1, <2>2, <2>3, <2>4
<1>4. sent.uri \in {request.uri, Append(request.uri, "/")}
  <2>1. request.uri = StripSlash(sent.uri) /\ sent.uri \in Text
    BY <1>1, <1>2, Zenon DEF SentAs, IsMessage
  <2> QED
    BY <2>1, StrippedSlash
<1> QED
  BY <1>1, <1>3, <1>4, Zenon DEF HandedOn, SentAs, sent

(* User code is given the request that the client sent, whatever it sent and *)
(* however much of it one read returned: handleRequestData takes no byte of  *)
(* one part for another, and loses none of a message received as a whole.    *)
THEOREM AlwaysHandedOn == DispatchSpec => []HandedOn
<1>1. DispatchInit => HandedInv
  BY DEF DispatchInit, HandedInv
<1> QED
  BY <1>1, TypeInit, TypeStep, HandedStep, HandedImplies, PTL DEF DispatchSpec

-----------------------------------------------------------------------------
(* What clients read                                                         *)

(* The loop over the headers visits each of them.                            *)
LEMMA HeadersVisited ==
    ASSUME NEW S \in NameSets, NEW names \in SetToSeqs(S)
    PROVE  /\ names \in Seq(Symbols) /\ \A i \in 1..Len(names) : names[i] \in S
           /\ \A name \in S : \E i \in 1..Len(names) : names[i] = name
           /\ Len(names) = Cardinality(S)
<1> DEFINE n == Cardinality(S)
<1>1. IsFiniteSet(S) /\ S \subseteq Symbols /\ n \in Nat
  BY FS_CardinalityType DEF NameSets
<1>2. /\ names \in [1..n -> S]
      /\ \A i, j \in 1..n : i # j => names[i] # names[j]
  BY DEF SetToSeqs
<1>3. names \in Injection(1..n, S)
  BY <1>2 DEF Injection, IsInjective
<1>4. Cardinality(1..n) = Cardinality(S)
  <2> HIDE DEF n
  <2>1. Cardinality(1..n) = IF 1 > n THEN 0 ELSE n - 1 + 1
    BY <1>1, FS_Interval
  <2>2. Cardinality(1..n) = n
    BY <1>1, <2>1
  <2> QED
    BY <2>2 DEF n
<1>5. names \in Surjection(1..n, S)
  <2>1. IsFiniteSet(1..n)
    BY <1>1, FS_Interval
  <2> QED
    BY <1>1, <1>3, <1>4, <2>1, FS_Injection
<1> HIDE DEF n
<1>6. names \in Seq(Symbols) /\ Len(names) = n
  BY <1>1, <1>2
<1> QED
  BY <1>2, <1>5, <1>6 DEF Surjection, n

(* A response with one line for each header, as a client reads it.           *)
LEMMA ResponseFits ==
    ASSUME TypeInv, HeadersInLine(response.headers), NEW names \in SetToSeqs(DOMAIN response.headers)
    PROVE  /\ InLine(response, names)
           /\ \A name \in DOMAIN response.headers : \E i \in 1..Len(names) : names[i] = name
           /\ Len(names) = Cardinality(DOMAIN response.headers)
<1> DEFINE headers == response.headers
<1>1. response.statusCode \in Nat /\ response.body \in Text /\ headers \in HeaderMaps
  BY DEF TypeInv, AnswerType, ResponseType
<1>2. PICK S \in NameSets : headers \in [S -> Text]
  BY <1>1 DEF HeaderMaps
<1>3. DOMAIN headers = S /\ \A name \in S : headers[name] \in Text
  BY <1>2
<1>4. /\ names \in Seq(Symbols) /\ \A i \in 1..Len(names) : names[i] \in S
      /\ \A name \in S : \E i \in 1..Len(names) : names[i] = name
      /\ Len(names) = Cardinality(S)
  BY <1>3, HeadersVisited, Zenon
<1>5. ASSUME NEW name \in S
      PROVE  /\ name # "CR" /\ name # "LF" /\ headers[name] \in Text
             /\ Lacks(headers[name], "CR") /\ Lacks(headers[name], "LF")
  <2> DEFINE value == headers[name]
  <2>1. value \in Text /\ {"CR", "LF"} \cap ToSet(value) = {} /\ name # "CR" /\ name # "LF"
    BY <1>3 DEF HeadersInLine
  <2> HIDE DEF value
  <2>2. \A i \in 1..Len(value) : value[i] \in ToSet(value)
    BY <2>1, InToSet
  <2>3. Lacks(value, "CR") /\ Lacks(value, "LF")
    BY <2>1, <2>2 DEF Lacks
  <2> QED
    BY <2>1, <2>3, Zenon DEF value
<1> HIDE DEF headers
<1>6. \A i \in 1..Len(names) :
         /\ names[i] # "CR" /\ names[i] # "LF" /\ headers[names[i]] \in Text
         /\ Lacks(headers[names[i]], "CR") /\ Lacks(headers[names[i]], "LF")
  BY <1>4, <1>5, Zenon
<1> QED
  BY <1>1, <1>3, <1>4, <1>6, Zenon DEF InLine, headers

(* A code that fits the uint16_t gets its own message.                       *)
LEMMA StatusMeant ==
    ASSUME NEW statusCode \in Nat, Uint16(statusCode) = statusCode
    PROVE  /\ statusCode \in HttpStatusCode =>
                 getStatusMessage(statusCode) = StatusMessages[statusCode]
           /\ statusCode \notin HttpStatusCode => getStatusMessage(statusCode) = "Unknown Status"
<1> DEFINE message == getStatusMessage(statusCode)
<1>1. message = IF Uint16(statusCode) \in HttpStatusCode THEN StatusMessages[Uint16(statusCode)]
                ELSE "Unknown Status"
  BY DEF getStatusMessage
<1> QED
  BY <1>1, Zenon

(* What a client makes of a response that keeps to its lines.                *)
LEMMA ReadableStep == TypeInv => ResponseReadable
<1> SUFFICES ASSUME TypeInv, HeadersInLine(response.headers),
                    NEW names \in SetToSeqs(DOMAIN response.headers)
             PROVE  LET wire == toString(response, names)
                        end == Find(wire, Eol \o Eol, 1)
                        lines == Lines[SubSeq(wire, 1, end + 1)]
                    IN  /\ end > 0
                        /\ ReadAs(lines, splitString(lines[1], " "),
                                  SubSeq(wire, end + 4, Len(wire)))
  BY DEF ResponseReadable
<1> DEFINE wire == toString(response, names)
           end == Find(wire, Eol \o Eol, 1)
           lines == Lines[SubSeq(wire, 1, end + 1)]
           status == splitString(lines[1], " ")
           code == response.statusCode
           body == SubSeq(wire, end + 4, Len(wire))
           top == TopLines(response, names)
<1>1. /\ InLine(response, names)
      /\ \A name \in DOMAIN response.headers : \E i \in 1..Len(names) : names[i] = name
      /\ Len(names) = Cardinality(DOMAIN response.headers)
  BY ResponseFits, Zenon
<1>2. code \in Nat /\ response.body \in Text
  BY <1>1, Zenon DEF InLine
<1>3. IsWire(wire, top, response.body)
  BY <1>1, WireRead, Zenon
<1>4. end > 0 /\ lines = top /\ body = response.body
  BY <1>3, Zenon DEF IsWire, HeaderEnd
<1>5. /\ top[1] = StatusLine(response)
      /\ Len(top) = 1 + Len(names) + (IF response.body = <<>> THEN 0 ELSE 1)
      /\ \A i \in 1..Len(names) : Among(HeaderLine(response, names[i]), Tail(top))
      /\ response.body # <<>> => Among(LengthLine(response), Tail(top))
  BY <1>1, TopLinesHave, Zenon
<1>6. Tail(top) \in Seq(Text)
  <2>1. top \in Seq(Text)
    BY <1>1, TopRead, Zenon DEF IsReadAs
  <2> HIDE DEF top
  <2>2. Len(top) # 0
    BY <1>1, <1>5 DEF InLine
  <2> QED
    BY <2>1, <2>2
<1>7. status = <<<<"HTTP/1.1">>, Decimal[code], <<getStatusMessage(code)>>>>
  BY <1>2, <1>4, <1>5, StatusRead, Zenon
<1>8. Len(status) = 3 /\ status[1] = <<"HTTP/1.1">> /\ Number[status[2]] = code
  <2>1. Number[Decimal[code]] = code
    BY <1>2, NumeralsLack, Zenon
  <2> HIDE DEF status, code
  <2>2. Len(status) = 3 /\ status[1] = <<"HTTP/1.1">> /\ status[2] = Decimal[code]
    BY <1>7
  <2> QED
    BY <2>1, <2>2, Zenon
<1>9. Uint16(code) = code =>
         status[3] = <<IF code \in HttpStatusCode THEN StatusMessages[code] ELSE "Unknown Status">>
  <2> HIDE DEF status, code
  <2>1. status[3] = <<getStatusMessage(code)>>
    BY <1>7
  <2>2. ASSUME Uint16(code) = code, code \in HttpStatusCode
        PROVE  status[3] = <<StatusMessages[code]>>
    BY <1>2, <2>1, <2>2, StatusMeant, Zenon
  <2>3. ASSUME Uint16(code) = code, code \notin HttpStatusCode
        PROVE  status[3] = <<"Unknown Status">>
    BY <1>2, <2>1, <2>3, StatusMeant, Zenon
  <2> QED
    BY <2>2, <2>3, Zenon
<1>10. \A name \in DOMAIN response.headers :
          <<name, ": ">> \o response.headers[name] \in ToSet(Tail(lines))
  <2> SUFFICES ASSUME NEW name \in DOMAIN response.headers
               PROVE  <<name, ": ">> \o response.headers[name] \in ToSet(Tail(top))
    BY <1>4, Zenon
  <2>1. PICK i \in 1..Len(names) : names[i] = name
    BY <1>1, Zenon
  <2>2. Among(HeaderLine(response, name), Tail(top))
    BY <1>5, <2>1, Zenon
  <2> QED
    BY <1>6, <2>2, AmongIn, Zenon DEF HeaderLine
<1>11. body # <<>> =>
          \E line \in ToSet(Tail(lines)) :
              /\ SubSeq(line, 1, 2) = <<"Content-Length", ": ">>
              /\ Number[SubSeq(line, 3, Len(line))] = Len(body)
  <2> SUFFICES ASSUME response.body # <<>>
               PROVE  \E line \in ToSet(Tail(top)) :
                          /\ SubSeq(line, 1, 2) = <<"Content-Length", ": ">>
                          /\ Number[SubSeq(line, 3, Len(line))] = Len(response.body)
    BY <1>4, Zenon
  <2>1. LengthLine(response) \in ToSet(Tail(top))
    BY <1>5, <1>6, AmongIn, Zenon
  <2> QED
    BY <1>2, <2>1, LengthRead, Zenon
<1>12. Len(lines) = 1 + Cardinality(DOMAIN response.headers) + (IF body = <<>> THEN 0 ELSE 1)
  BY <1>1, <1>4, <1>5, Zenon
<1>13. end > 0
  BY <1>4
<1>14. ReadAs(lines, status, body)
  <2> HIDE DEF lines, status, body
  <2> QED
    BY <1>4, <1>8, <1>9, <1>10, <1>11, <1>12, Zenon DEF ReadAs
<1> QED
  BY <1>13, <1>14, Zenon

(* Clients can read every response that keeps to its lines: the loop over    *)
(* the headers, in whatever order, and the search for the blank line never   *)
(* mix up status, headers and body, whatever the body consists of.           *)
THEOREM AlwaysReadable == DispatchSpec => []ResponseReadable
BY TypeInit, TypeStep, ReadableStep, PTL DEF DispatchSpec
=============================================================================
