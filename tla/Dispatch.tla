------------------------------- MODULE Dispatch -------------------------------
(***************************************************************************)
(* How the Io thread answers one request after another: handleRequestData, *)
(* matchUrl and handleRequest on the bytes that were received, user code   *)
(* that builds a response, and HttpResource with its table of allowed      *)
(* methods, which an application thread that kept the resource may change  *)
(* at any moment through setAllowing, allowAll and disallowAll.            *)
(***************************************************************************)
EXTENDS Routing

CONSTANTS Routes,       \* the routes of the resources
          Malformed,    \* texts of resources that are no routes
          Handled,      \* texts of the resources that have a handler
          Shared,       \* texts of the resources that the application kept
          Requests,     \* what may be received: [message, length]
          Codes,        \* the status codes, texts and header names that user
          Texts,        \*   code gives to its responses
          HeaderNames,
          MaxBody,      \* bound on the bodies that user code builds
          MaxRequests,  \* bound on the requests
          MaxChanges    \* bound on the calls that change a table

(* The keys of m_resourceMap.                                                *)
Patterns == {Written(route) : route \in Routes} \cup Malformed

(* Symbols that a regular expression takes to mean something else.  "." is   *)
(* not among them: regex_match knows it.                                     *)
RegexSyntax == {"(", ")", "[", "]", "*", "+", "?", "^", "$", "|", "\\"}

ASSUME DispatchAssumption ==
    /\ IsFiniteSet(Routes) /\ IsFiniteSet(Malformed)
    /\ \A route \in Routes : IsRoute(route)
    /\ \A text \in Malformed : text \in Text /\ LacksBrace(text)
    /\ \A pattern \in Patterns : (RegexSyntax \cup {Group}) \cap ToSet(pattern) = {}
    /\ Handled \subseteq Patterns /\ Shared \subseteq Patterns
    /\ \A r \in Requests :
          IsMessage(r.message) /\ r.length \in 0..Len(Composed(r.message))
    /\ Codes \subseteq Nat \ {404, 405}  \* so that those of the server can be told
    /\ Texts \subseteq Text
    /\ HeaderNames \subseteq Symbols
    /\ {MaxBody, MaxRequests, MaxChanges} \subseteq Nat

VARIABLES
    resource,  \* the resources of m_resourceMap: [valid, regex, paramNames]
    order,     \* the order in which the loop visits them
    allowed,   \* m_allowedMethods of every resource
    pc,        \* the next statement of the Io thread
    input,     \* the message whose request is answered, and how much was received
    request,   \* the HttpRequest
    next,      \* position of the loop over m_resourceMap
    rest,      \* methods that getAllowedMethodsAsString has yet to visit
    allow,     \* the string it builds
    response,  \* the HttpResponse
    received,  \* requests so far
    writer,    \* the table writes to do, <<pattern, method>>, and their value
    changes,   \* calls that changed a table so far
    seen       \* history: the values of every entry since the request came in

tables == <<resource, order, allowed, writer, changes, seen>>
answer == <<input, request, next, rest, allow, response, received>>
dispatchVars == <<tables, pc, answer>>

Labels == {"idle", "match", "method", "allow", "render", "build", "send", "crashed"}

NoInput == [message |-> [method |-> "", uri |-> <<>>, headers |-> <<>>, body |-> <<>>],
            length |-> 0]
Count == Cardinality(Patterns)
Matched == order[next]

DispatchTypeOK ==
    /\ resource \in [Patterns -> [valid : BOOLEAN, regex : Text, paramNames : Seq(Text)]]
    /\ order \in [1..Count -> Patterns]
    /\ allowed \in [Patterns -> [Methods -> BOOLEAN]]
    /\ pc \in Labels
    /\ input \in Requests \cup {NoInput}
    /\ request.method \in Methods \cup {"UNKNOWN", "HTTP_METHOD_MAX"}
    /\ {request.uri, request.headers, request.body} \subseteq Text
    /\ DOMAIN request.args \subseteq Text
    /\ \A name \in DOMAIN request.args : request.args[name] \in Text
    /\ next \in 1..(Count + 1)
    /\ pc \in {"method", "allow", "render", "build"} => next \in 1..Count
    /\ rest \subseteq Methods
    /\ allow \in Text
    /\ response.statusCode \in Nat /\ response.body \in Text
    /\ \A name \in DOMAIN response.headers : response.headers[name] \in Text
    /\ received \in 0..MaxRequests
    /\ writer \in [value : BOOLEAN, left : SUBSET (Shared \X Methods)]
    /\ changes \in 0..MaxChanges
    /\ seen \in [Patterns -> [Methods -> SUBSET BOOLEAN]]

(* HttpResource's constructor rewrites the route and allows every method.    *)
(* The order of an unordered_map is arbitrary, and fixed.                    *)
DispatchInit ==
    /\ resource = [p \in Patterns |-> createRegexFromURI(p)]
    /\ order \in SetToSeqs(Patterns)
    /\ allowed = [p \in Patterns |-> [m \in Methods |-> TRUE]]
    /\ pc = "idle"
    /\ input = NoInput
    /\ request = NoRequest
    /\ next = 1
    /\ rest = {}
    /\ allow = <<>>
    /\ response = empty_render
    /\ received = 0
    /\ writer = [value |-> FALSE, left |-> {}]
    /\ changes = 0
    /\ seen = [p \in Patterns |-> [m \in Methods |-> {TRUE}]]

-----------------------------------------------------------------------------
(* The application                                                           *)

ChangeTable(p, value, methods) ==
    /\ writer.left = {}
    /\ changes < MaxChanges
    /\ changes' = changes + 1
    /\ writer' = [value |-> value, left |-> {p} \X methods]
    /\ UNCHANGED <<resource, order, allowed, seen, pc, answer>>

(* Mutant: operator[] instead of find().                                     *)
setAllowingInserts(p, m, value) == ChangeTable(p, value, {m})

(* setAllowing writes the one entry that it finds; disallowAll and allowAll  *)
(* visit them all.                                                           *)
setAllowing(p, m, value) == ChangeTable(p, value, {m} \cap DOMAIN allowed[p])
disallowAll(p) == ChangeTable(p, FALSE, DOMAIN allowed[p])
allowAll(p) == ChangeTable(p, TRUE, DOMAIN allowed[p])

WriteEntry(p, m) ==
    /\ <<p, m>> \in writer.left
    /\ writer' = [writer EXCEPT !.left = @ \ {<<p, m>>}]
    /\ allowed' = [allowed EXCEPT ![p] = Put(@, m, writer.value)]
    /\ seen' = [seen EXCEPT ![p][m] = @ \cup {writer.value}]
    /\ UNCHANGED <<resource, order, changes, pc, answer>>

-----------------------------------------------------------------------------
(* The Io thread                                                             *)

(* sendResponse is called with what has been built.                          *)
Respond(r) ==
    /\ pc' = "send"
    /\ response' = r

(* One read gives handleRequestData a prefix of it.  back() of an empty URI  *)
(* is undefined: it reads no slash, or stops a hardened build.               *)
Receive(r) ==
    LET data == SubSeq(Composed(r.message), 1, r.length)
        parts == RequestLine(data)
    IN  /\ pc = "idle"
        /\ received < MaxRequests
        /\ received' = received + 1
        /\ input' = r
        /\ seen' = [p \in Patterns |-> [m \in Methods |-> {allowed[p][m]}]]
        /\ \/ /\ Len(parts) < 3
              /\ Respond(createBadRequestResponse)
              /\ UNCHANGED request
           \/ /\ Len(parts) >= 3
              /\ pc' = "match"
              /\ request' = ParseRequest(data)
              /\ UNCHANGED response
           \/ /\ Len(parts) >= 3 /\ parts[2] = <<>>
              /\ pc' = "crashed"
              /\ UNCHANGED <<request, response>>
        /\ UNCHANGED <<resource, order, allowed, writer, changes, next, rest, allow>>

(* One round of the loop.                                                    *)
TryRoute ==
    /\ pc = "match" /\ next <= Count
    /\ \/ \E r \in matchUrl(request, resource[Matched]) :
              pc' = "method" /\ request' = r /\ UNCHANGED next
       \/ /\ matchUrl(request, resource[Matched]) = {}
          /\ next' = next + 1 /\ UNCHANGED <<pc, request>>
    /\ UNCHANGED <<tables, input, rest, allow, response, received>>

(* Mutant: handleRequest returns without a response.                         *)
NoRouteSilent ==
    /\ pc = "match" /\ next > Count
    /\ pc' = "idle"
    /\ UNCHANGED <<tables, answer>>

NoRoute ==
    /\ pc = "match" /\ next > Count
    /\ Respond(createNotFoundResponse)
    /\ UNCHANGED <<tables, input, request, next, rest, allow, received>>

(* m_methodHandlers knows the four methods; isAllowed looks into the table.  *)
isAllowed(p, m) == m \in Methods /\ allowed[p][m]

(* Mutant: the table is not consulted.                                       *)
CheckMethodKnown ==
    /\ pc = "method"
    /\ \/ /\ request.method \notin Methods
          /\ pc' = "allow" /\ rest' = Methods
          /\ UNCHANGED response
       \/ /\ request.method \in Methods /\ Matched \in Handled
          /\ pc' = "render"
          /\ UNCHANGED <<rest, response>>
       \/ /\ request.method \in Methods /\ Matched \notin Handled
          /\ Respond(createBadRequestResponse)
          /\ UNCHANGED rest
    /\ UNCHANGED <<tables, input, request, next, allow, received>>

CheckMethod ==
    /\ pc = "method"
    /\ \/ /\ ~isAllowed(Matched, request.method)
          /\ pc' = "allow" /\ rest' = Methods
          /\ UNCHANGED response
       \/ /\ isAllowed(Matched, request.method) /\ Matched \in Handled
          /\ pc' = "render"
          /\ UNCHANGED <<rest, response>>
       \/ /\ isAllowed(Matched, request.method) /\ Matched \notin Handled
          /\ Respond(createBadRequestResponse)
          /\ UNCHANGED rest
    /\ UNCHANGED <<tables, input, request, next, allow, received>>

(* Mutant: every method of the table is listed.                              *)
ListMethodAlways(m) ==
    /\ pc = "allow"
    /\ m \in rest
    /\ rest' = rest \ {m}
    /\ allow' = allow \o (IF allow = <<>> THEN <<>> ELSE <<", ">>) \o <<m>>
    /\ UNCHANGED <<tables, pc, input, request, next, response, received>>

(* One round of getAllowedMethodsAsString: once the string has content, a    *)
(* separator goes in for every method, allowed or not.                       *)
ListMethod(m) ==
    /\ pc = "allow"
    /\ m \in rest
    /\ rest' = rest \ {m}
    /\ allow' = allow \o (IF allow = <<>> THEN <<>> ELSE <<", ">>)
                     \o (IF allowed[Matched][m] THEN <<m>> ELSE <<>>)
    /\ UNCHANGED <<tables, pc, input, request, next, response, received>>

ListEnd ==
    /\ pc = "allow"
    /\ rest = {}
    /\ Respond(createMethodNotAllowed(allow))
    /\ UNCHANGED <<tables, input, request, next, rest, allow, received>>

-----------------------------------------------------------------------------
(* User code, on the Io thread                                               *)

(* A render function of HttpResourceHandler that is not overridden.          *)
RenderDefault ==
    /\ pc = "render"
    /\ Respond(empty_render)
    /\ UNCHANGED <<tables, input, request, next, rest, allow, received>>

(* An overridden one makes a response and works on it.                       *)
RenderBegins ==
    /\ pc = "render"
    /\ pc' = "build"
    /\ \E code \in Codes, body \in Texts \cup {<<>>},
          headers \in {<<>>} \cup {Put(<<>>, name, value) : name \in HeaderNames, value \in Texts} :
          response' = HttpResponse(code, body, headers)
    /\ UNCHANGED <<tables, input, request, next, rest, allow, received>>

RenderBuilds ==
    /\ pc = "build"
    /\ \/ \E code \in Codes : response' = setStatusCode(response, code)
       \/ \E name \in HeaderNames, value \in Texts : response' = setHeader(response, name, value)
       \/ \E value \in Texts : response' = setContentType(response, value)
       \/ \E body \in Texts \cup {<<>>} : response' = setBody(response, body)
       \/ \E body \in Texts :
             /\ Len(response.body \o body) <= MaxBody
             /\ response' = addBody(response, body)
    /\ UNCHANGED <<tables, pc, input, request, next, rest, allow, received>>

RenderReturns ==
    /\ pc = "build"
    /\ Respond(response)
    /\ UNCHANGED <<tables, input, request, next, rest, allow, received>>

(* An exception is caught; a null pointer is dereferenced by the caller.     *)
RenderFails ==
    /\ pc \in {"render", "build"}
    /\ \/ Respond(createBadRequestResponse)
       \/ pc' = "crashed" /\ UNCHANGED response
    /\ UNCHANGED <<tables, input, request, next, rest, allow, received>>

(* The response goes to the sender, and the request's variables end.         *)
Send ==
    /\ pc = "send"
    /\ pc' = "idle"
    /\ input' = NoInput /\ request' = NoRequest /\ next' = 1
    /\ allow' = <<>> /\ response' = empty_render
    /\ UNCHANGED <<tables, rest, received>>

IoNext ==
    \/ TryRoute \/ NoRoute \/ CheckMethod \/ ListEnd
    \/ RenderDefault \/ RenderBegins \/ RenderReturns \/ RenderFails \/ Send
    \/ \E m \in Methods : ListMethod(m)

DispatchDone ==
    /\ pc = "crashed" \/ (pc = "idle" /\ received = MaxRequests)
    /\ UNCHANGED dispatchVars

DispatchNext ==
    \/ \E r \in Requests : Receive(r)
    \/ IoNext
    \/ RenderBuilds
    \/ \E p \in Shared :
          \/ \E m \in Methods \cup {"UNKNOWN"}, value \in BOOLEAN : setAllowing(p, m, value)
          \/ disallowAll(p)
          \/ allowAll(p)
    \/ \E entry \in writer.left : WriteEntry(entry[1], entry[2])
    \/ DispatchDone

DispatchSpec == DispatchInit /\ [][DispatchNext]_dispatchVars

(* The Io thread runs, and user code returns.                                *)
FairDispatchSpec == DispatchSpec /\ WF_dispatchVars(IoNext)

-----------------------------------------------------------------------------
(* Properties                                                                *)

(* User code is given the request that the client sent: its method, its URI  *)
(* but for a slash at the end, and of its headers and its body no byte that  *)
(* is not theirs, and all of them if the whole message was received.  A      *)
(* message without headers is left out: handleRequestData does not find its  *)
(* blank line and takes the body for headers.                                *)
HandedOn ==
    pc = "render" =>
        LET sent == input.message
            headers == HeaderText(sent)
        IN  /\ request.method = sent.method
            /\ sent.uri \in {request.uri, Append(request.uri, "/")}
            /\ sent.headers # <<>> =>
                  /\ IsPrefix(request.headers, headers \o Eol)
                  /\ IsPrefix(request.body, sent.body)
                  /\ input.length = Len(Composed(sent)) =>
                        request.headers \o Eol = headers /\ request.body = sent.body

(* Routing by the loop and the regular expressions agrees with what the      *)
(* routes mean: user code runs for a route that stands for the URI, and is   *)
(* given values of its parameters that give the URI, and no other arguments; *)
(* of parameters with the same name the last one counts.  404 is sent only   *)
(* when no route stands for the URI.  A route with a "." also answers to     *)
(* URIs that it does not stand for: the "." matches any symbol.              *)
RoutedAsMeant ==
    /\ pc = "render" =>
          \E route \in Routes :
              LET named(name) == {i \in ParamsOf(route) : route[i].text = name} IN
              /\ Written(route) = Matched
              /\ DOMAIN request.args = {route[i].text : i \in ParamsOf(route)}
              /\ Literal(".") \notin ToSet(route) =>
                    \E values \in Fillings(route, request.uri) :
                        \A name \in DOMAIN request.args :
                            getArg(request, name) = values[Max(named(name))]
    /\ pc = "send" /\ response.statusCode = 404 =>
          \A route \in Routes : Fillings(route, request.uri) = {}

(* User code leaves the ends of lines, and the length, to the server.        *)
HeadersInLine(headers) ==
    /\ {"CR", "LF", "Content-Length"} \cap DOMAIN headers = {}
    /\ \A name \in DOMAIN headers : {"CR", "LF"} \cap ToSet(headers[name]) = {}

(* What a client makes of a response: the lines of its head, the parts of    *)
(* the first of them, and what follows the blank line.                       *)
ReadAs(lines, status, body) ==
    LET code == response.statusCode IN
    /\ Len(status) = 3 /\ status[1] = <<"HTTP/1.1">> /\ Number[status[2]] = code
    /\ Uint16(code) = code =>
          status[3] = <<IF code \in HttpStatusCode THEN StatusMessages[code]
                        ELSE "Unknown Status">>
    /\ Len(lines) = 1 + Cardinality(DOMAIN response.headers) + (IF body = <<>> THEN 0 ELSE 1)
    /\ \A name \in DOMAIN response.headers :
          <<name, ": ">> \o response.headers[name] \in ToSet(Tail(lines))
    /\ body # <<>> =>
          \E line \in ToSet(Tail(lines)) :
              /\ SubSeq(line, 1, 2) = <<"Content-Length", ": ">>
              /\ Number[SubSeq(line, 3, Len(line))] = Len(body)
    /\ body = response.body

(* A client can read every response, however user code made it and in        *)
(* whatever order the headers come: the status code with its own message,    *)
(* each header once, the length of the body if there is one, the body        *)
(* unchanged, ends of lines in it included.  Codes that do not fit the       *)
(* uint16_t of getStatusMessage get the message of another.                  *)
ResponseReadable ==
    pc = "send" /\ HeadersInLine(response.headers) =>
        \A names \in SetToSeqs(DOMAIN response.headers) :
            LET wire == toString(response, names)
                end == Find(wire, Eol \o Eol, 1)
                lines == Lines[SubSeq(wire, 1, end + 1)]
            IN  /\ end > 0
                /\ ReadAs(lines, splitString(lines[1], " "), SubSeq(wire, end + 4, Len(wire)))

(* What else is changed meanwhile, the entry that a request is about         *)
(* decides: a method that was disallowed when the request came in, and ever  *)
(* since, is never rendered, and one that was allowed ever since is never    *)
(* refused.  An entry that was both may be taken for either.                 *)
TableObeyed ==
    /\ pc = "render" => TRUE \in seen[Matched][request.method]
    /\ pc = "send" /\ response.statusCode = 405 =>
          request.method \notin Methods \/ FALSE \in seen[Matched][request.method]

(* The Allow header of a 405 names each method once, none that was           *)
(* disallowed ever since the request came in, the refused one included, and  *)
(* every one that was allowed ever since, although the application may       *)
(* change the table while it is listed, and between isAllowed and the        *)
(* listing.  The names are kept apart by separators, so that a separator too *)
(* many, which a method that is not allowed leaves, is an empty element.     *)
AllowNamesTable ==
    pc = "send" /\ response.statusCode = 405 =>
        LET header == response.headers["Allow"]
            named == {i \in DOMAIN header : header[i] # ", "}
            names == {header[i] : i \in named}
        IN  /\ {m \in Methods : seen[Matched][m] = {TRUE}} \subseteq names
            /\ names \subseteq {m \in Methods : TRUE \in seen[Matched][m]}
            /\ \A i, j \in named : header[i] = header[j] => i = j
            /\ \A i \in named : i + 1 \notin named

(* The server brings every request that it has parsed to user code or to a   *)
(* response, and user code that returns brings it to a response, unless its  *)
(* response is a null pointer.                                               *)
EveryRequestEnds ==
    /\ pc = "match" ~> pc \in {"render", "send"}
    /\ pc = "render" ~> pc \in {"send", "crashed"}
=============================================================================
