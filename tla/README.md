# A TLA+ model of IoTeyeHttpServer

This directory holds TLA+ modules that model the server in `src/` of the
repository, the configurations under which TLC checks them, and proofs that
TLAPS checks. Paths below are relative to the repository's root
(`src/ioteyeserver/httpserver/webserver.cpp` is called `webserver.cpp`).

## 1. The system

IoTeyeHttpServer is a small C++17 library on top of asio. An application makes
a `Webserver` with a `Builder`, calls `start()`, and later `shutdown()` or the
destructor. One thread, created by `start()`, runs `m_ioContext`; all network
events and all user code (the `HttpResourceHandler`s) run on it.

| Part | State | Operations | Interacts through |
|---|---|---|---|
| Webserver lifecycle (`webserver.cpp:29-58,102-150`) | `m_keepRunning`, `m_ioContextThread`, `m_ioContext` (stopped or not), the acceptor, the UDP socket | constructors, `start`, `shutdown`, destructor | called by any application thread, and by handlers on the Io thread |
| TCP service (`152-194`, `http_response.cpp:117-128`) | connections in the backlog, being read, being written | accept and re-arm, one `async_read_some`, one `async_write` | `m_keepRunning`, the dispatcher (callback `sendResponse`) |
| UDP service (`196-222`, `http_response.cpp:103-115`) | one `m_remoteEndpoint`, one receive buffer per receive | receive, answer, re-arm | the dispatcher, the socket that `shutdown` closes |
| Dispatch and routing (`224-264,279-330`) | the bytes of one read, the request being handled, the loop over `m_resourceMap` | `handleRequestData`, `matchUrl`, `handleRequest` | resources, user code |
| `HttpResource` (`http_resource.cpp`) | URI, regular expression, parameter names, `m_allowedMethods` | `setAllowing`, `allowAll`, `disallowAll`, `isAllowed`, `getAllowedMethodsAsString`, `createRegexFromURI` | shared by the application and the Io thread, without a lock |
| Move operations (`60-100`) | two `Webserver`s and their ports | move constructor, move assignment | `shutdown` of either object |
| Builder (`332-363`) | settings and resources | setters, `build` | hands its resources to the server |
| `HttpRequest`, `HttpResponse`, status codes, `util` | data | getters, setters, `toString`, `splitString` | the dispatcher, user code |

### What is hard in it

* Calls from several threads and from the handlers: `start()` tests and sets
  its flag in two steps, the new thread runs before it is assigned,
  `shutdown()` may join the thread it runs on, and the destructor decides by
  `m_keepRunning` alone whether there is anything to join.
* Callbacks that renew themselves: an accept or a receive that is not re-armed
  is the end of the service; one that is armed twice makes two loops.
* Shared mutable state between operations: all UDP receives write the one
  `m_remoteEndpoint`, from which the reply takes its destination.
* The network: requests in several segments, peers that hang up or stay
  silent, failing accepts and receives, a full socket.
* Partial failure: a thread that cannot be created, user code that throws or
  returns a null pointer.
* Data that the application changes while a request is being answered.
* Text taken apart by position: a request of which only a prefix was read, a
  route whose parameters are found by searching for braces, a response whose
  length, headers and status have to agree.
* Limits: a server without descriptors retries its accept on the one thread that
  could free some.

`PROJECT.json` lists every hazard at its line with the properties that cover it.

### What makes each part correct

* Lifecycle: orderly calls never terminate the program (a request may: see
  below); the thread always belongs to the object; a `shutdown()` returns and has
  joined; the loops of a server that is used orderly never double; a built server's
  acceptor outlives its context; a started server listens (it does not, after a
  restart).
* TCP: one answer per connection, in phase with the life of the object; silent
  clients do not delay others; the whole request is read and the bytes sent are
  those of the response (both fail).
* UDP: a reply goes to a peer that is owed one, and to the sender of the
  request being answered; the loop survives errors.
* Dispatch: the routes mean what they say, user code is given what the client
  sent, clients can read what user code built, every request that was parsed gets
  its answer, the entry that a request is about decides whether it is refused,
  and the `Allow` header names what the table holds, whatever else changes.
* Moves, Builder: a move gives ports up before it binds them, a thread is never
  left without its flag, resources come with the method handlers, a server that
  can run listens where it was told to, moves do not end the program (they do).

## 2. The modules

| Module | What it is |
|---|---|
| `Lifecycle` | One `Webserver` object: application threads, the Io thread, the two self-renewing operations |
| `Service` | Abstract specification: what clients are promised |
| `Webserver` | `Lifecycle` composed with the network; implements `Service` |
| `Message` | Requests and responses as texts: `splitString`, `HttpRequest`, `HttpResponse`, status codes |
| `Routing` | `createRegexFromURI`, matching a URI against a route, and what a route means |
| `Dispatch` | `Message` and `Routing` composed with the request handling, user code and the method tables |
| `Ownership` | Several `Webserver` objects, the `Builder` and the move operations |
| `MCLifecycle`, `MCWebserver`, `MCDispatch`, `MCOwnership` | Instances for TLC |
| `LifecycleProofs`, `WebserverProofs`, `ServiceProofs`, `OwnershipProofs` | Proofs about the object, the network, the promise and the moves |
| `Recursion` | Induction and recursion in a form that the provers can use |
| `MessageProofs`, `RoutingProofs` | What the operators of `Message` and `Routing` compute, for texts of any length |
| `DispatchProofs` | Proofs about the handling of requests; rests on the three modules above |

Definitions whose comment begins with "Mutant" are faulty variants of the
definition that follows them. No specification uses them; substituting one for
its original makes the property named in `PROJECT.json` fail, which shows that
the property can tell the two apart.

### Lifecycle

The state is the members that decide what happens (`m_keepRunning`,
`m_isUdpOn`, whether the thread is joinable, the context stopped, the sockets
open), the number of operations outstanding in the context, and a program
counter for every thread. A statement of `start()`, `shutdown()` or
`~Webserver()` that touches a member is one action, so the calls of several
threads interleave as the code allows. `pc[t]` is `idle` outside calls; no call
begins once a destructor has (C++ forbids it).

The Io thread is `none`, in `run`, in a handler, or `finished`. `IoAccept`,
`IoReceive` and `IoTcp` take a completed operation out of the context and enter
its handler; `AcceptCheck`/`AcceptRearm` are the end of the accept handler,
which looks at `m_keepRunning`; `UdpSend`/`UdpRearm` the end of the receive
handler, which does not. `RenderShutdown` is user code that calls `shutdown()`:
it runs the same `Shutdown(p)` steps with `p = Io`, its self-join throws, and
`handleRequest` swallows that. `HandlerFails` is a handler that ends the program
because of a request: `handleRequestData` dereferences a null pointer that user
code returned, takes `back()` of an empty URI and lets exceptions of `regex_match`
pass. The history variable `handlerFailed` tells that end from the others.

`crashed` stands for `std::terminate` and undefined behaviour: assigning over
a joinable `std::thread`, joining a thread twice, destroying a joinable thread
or an object in use. Two history variables say whether calls were orderly
(`Orderly`): `overlapped` (two lifecycle calls in progress at once) and
`selfShutdown`.

`StartSpawn` may fail: `std::thread`'s constructor throws, `start()` prints the
exception and returns with the flag set.

### Webserver

Every action is a `Lifecycle` action conjoined with its effect on the network,
or an action of the network. Connections go `out`, `backlog`, `reading`,
`replying`, `writing`, then `done`, or `closed` when given up. A read takes any
non-empty part of what has arrived, up to the buffer. The first write is tried
inside `sendTcpResponse`; later ones (`WriteMore`) are made by asio when the
temporary string is gone, and the same holds of a UDP reply that finds its
socket full (`UdpSendLater`). `Deliver` is a receive taking a datagram: it
writes `m_remoteEndpoint`, at the start of the receive or later inside `run()`.
`descriptors` is the number of sockets that `accept()` can make: as long as all
are in use the accept completes with an error only, and is re-armed at once.

### Service

The promise, with no threads and sockets: phases `new`, `serving`, `closing`,
`closed`; at most one answer per connection; answers while serving, one more at
most while closing (the handler that is in progress), none once closed; nobody
but who hung up is given up while serving; a reply to a peer uses up a datagram
of that peer, and any number of datagrams may be lost. `Webserver!Promise` is
the refinement mapping: the object is `closing` from `m_ioContext.stop()` to the
end of the handler in progress; a peer is owed a reply for each of its datagrams
in the socket, in the buffer, in the handler or in a reply that waits for room.
Destroying the object gives up connections and datagrams in one step (`GiveUp`).

### Message, Routing and Dispatch

A text is a sequence of symbols: characters, or words that the code never takes
apart. `ParseRequest` is `handleRequestData` from the request line to the body,
by the same searches (`Find`, 0 for `npos`) over what was received, which may be
any prefix of what the client sent. `toString` gives a response as the client
sees it, with the headers in the order in which the map is visited, numbers in
decimal digits (`Decimal`) and the message of the code modulo 2^16 (`Uint16`).
`StatusMessages` stands for the texts of `getStatusMessage`: a word for each code,
no two alike. What a client makes of a response is said independently, at the
end of the module: `Lines` takes a text apart at its line ends, `Number` reads
digits.

`createRegexFromURI` rewrites the text of a route into an expression made of
symbols and groups, and the names of the parameters, or finds it invalid.
`regex_match` is modelled from the documented behaviour of ECMAScript
expressions of that kind: a "." matches any symbol, a group `([^/]+)` any
non-empty text without a slash, and of several matches the one that gives the
first group the longest text is taken. What a route means is said
independently: a sequence of literals and parameters (`Written` gives its text,
`Filled` the URI for given values), which stands for a URI if it has `Fillings`.

`Dispatch` answers requests one after another: one step per round of the loop
over `m_resourceMap` (in an arbitrary fixed order), one per read of the method
table, one per method that `getAllowedMethodsAsString` visits, because the
application may write the table between any two of them. User code makes a
response and calls its setters in any number and order, returns it, throws, or
returns a null pointer (`crashed`). The history variable `seen` holds the values
that every entry of every table has had since the request came in, of which
`TableObeyed` and `AllowNamesTable` speak: an answer agrees with the table as it
was at some moment in between, entry by entry, and more cannot be expected of
maps that are read and written without a lock.

### Ownership

`server[o]` is the `Webserver` that a variable of the application holds: its
settings, the port each socket is bound to, the flag, whether its thread is
joinable and its context stopped, and whether the two maps have entries. The
calls are made by one thread and are one step each; `Lifecycle` takes them
apart. The `Builder` is the record of its settings, and `build` empties its
resources whether the constructor succeeds or throws because a port is taken.
Both moves are `Rebound`: the two servers as the member initialisers and the
two `shutdown()` calls leave them, then both ports bound, UDP on or off, and
`std::terminate` when one of them is taken. `Start` may fail to create its thread
and leaves the flag set. Handlers do not call `shutdown()`
here, and no other program has the ports.

## 3. The runs

| Run | Question | Result |
|---|---|---|
| `Lifecycle` | Two threads, two starts, every overlap, servers of both constructors, handlers that shut down: `TypeOK`, `CrashNeedsMisuse`, `ThreadIsOwned`, `QuietWhenDown`, `OneLoopEach`, `ShutdownJoins`, `AcceptLoopWaits`, `ShutdownReturns` | hold |
| `WebserverTcp` | Two clients, two segments, a buffer of one, two writes: `WebserverTypeOK`, `KeepsPromise` (refinement of `Service`) | hold |
| `WebserverIdle` | Two clients, one of which may stay silent, descriptors for one or for both: `TcpServed` | holds |
| `WebserverUdp` | Two peers, two datagrams each: `UdpReplyToSender`, `KeepsPromise`, `UdpServed` | hold |
| `DispatchRouting` | Six resources with overlapping, repeated-name, part-of-a-part and invalid routes, sixteen URIs, every prefix of an upload, an unknown method, responses built in every way: `RoutedAsMeant`, `HandedOn`, `ResponseReadable`, `EveryRequestEnds` | hold |
| `DispatchTable` | Two requests to one of two resources, two changes of the tables of either: `DispatchTypeOK`, `TableObeyed`, `AllowNamesTable` | hold |
| `Ownership` | Three variables, every order of building, moving, starting, shutting down and destroying: `OwnershipTypeOK`, `Destructible`, `ListensOnItsPort`, `ResourcesHaveHandlers`, `MovesReleasePorts` | hold |
| `LifecycleRestart` | `StartedServerListens` | violated: `start()` after `shutdown()` logs that the server listens, with a closed acceptor and a stopped context |
| `LifecycleRace` | `NoSocketRace` | violated: sockets are closed before the join, while a handler may use them |
| `WebserverPartial` | `WholeRequestRead` | violated: a request in two segments is handled after the first |
| `WebserverStale` | `ReplyIntact` | violated: a second write reads a destroyed string |
| `OwnershipNoexcept` | `MovesAreNoexcept` | violated: a server without UDP binds the UDP port when it is moved, and `noexcept` turns the exception into `std::terminate` |

The run's name is that of its `.cfg`.

Other things the model shows, for which the repository states no expectation:
the target of a move assignment holds its ports and can never run, because
`shutdown()` stopped its context; a second `build()` gives a server without
resources; `GET /hello?x=1` is a 404, because the query string is matched as part
of the URI; the body of a request without headers is handed to user code as its
headers, because the blank line is searched for behind the line end of the
request line (`HandedOn` leaves such requests out); a "." in a route answers to
any symbol, and `/{a}-{b}` gives `a` as much as it can; a status code of more
than 16 bits goes out with the message of another one; a response on which user
code sets `Content-Length` has two; a request with an empty URI, or one to which
user code returns a null pointer, may end the program; an accept that fails for
want of descriptors is retried at once and without end, and as long as they are
lacking one client that connects and stays silent keeps all others waiting (the
premise of `TcpServed`); a default-constructed server spins on accepts that fail
at once; an `Allow` header may name a method that was just refused, when the
table is changed while it is read; a resource whose
URI ends in a slash, `/` included, is never found, because the slash is dropped
from the request only; after a handler's own `shutdown()` the destructor
terminates the program unless somebody calls `shutdown()` again; two `start()`
calls that overlap each other may both pass the test of `m_keepRunning`, and
the second arms another receive on the same `m_remoteEndpoint` while a handler
of the first runs, whose reply then goes to another peer. This is why
`UdpReplyToSender` and the theorem about `KeepsPromise` speak of calls that do
not overlap, and why `KeepsPromise` is checked with one application thread: with
two it fails in this way.

### Bounds

* Threads: two, so that any two calls overlap, and one for the network runs,
  where the other party is the Io thread. Three calls in one go add no new pair.
* `MaxStarts` 2 in `Lifecycle`: a restart, and two overlapping starts; 1 with the
  network, as a restarted server does nothing. `MaxConnections` 1 in
  `Lifecycle` (only whether the context has work matters), 2 with the network,
  enough for every client.
* Two clients and two peers: the one observed and the one that interferes.
  UDP runs leave the clients out and TCP runs the peers; `Lifecycle` has both
  kinds of operation at once.
* `Segments` 2, `BufferSize` 1: a read that takes less than was sent, and a
  buffer smaller than the request. `Chunks` 2: a write inside and a write after
  `sendTcpResponse`. Both are 1 in `WebserverIdle`, where only waiting matters.
* `MaxDescriptors`: 2 in `WebserverTcp` and `WebserverIdle`, so that one start has
  a descriptor for each client and another one too few; 1 where there is one client.
* `MaxDatagrams` 2: a datagram of either peer before and after another.
* `DispatchRouting`: one request, since nothing of a request survives it. Routes
  with up to two parameters and every pair that can overlap. Of the 720 orders
  of the map, the 120 in which `/t` comes before `/t.x`, as no URI matches both,
  and the invalid route first or last, as it matches none (`RoutingInit`). `MaxBody` 2 and one text: an empty body, one
  that was set and one that was added to. `Codes` 201 and 65736 (200 modulo
  2^16); 404 and 405 are left to the server, so that the properties can tell
  whose a response is. `ResponseReadable` is stated for responses on which user
  code sets no `Content-Length` of its own and puts no line end into a header
  (`HeadersInLine`).
* `DispatchTable`: two changes, so that one follows another within a request;
  two resources, so that changes may concern the one that is asked for or the
  other, in one order of the map (`TableInit`). `MaxRequests` 2: a second request
  after a table has changed, and what an answer leaves behind.
* Three objects: the two of a move and one that may be in the way. Two TCP ports,
  so that servers can be apart, and one UDP port, so that they cannot.

### Fairness

Weak fairness for the steps of the threads: the operating system schedules
them, and user code returns. No fairness for calls, clients, errors or
`RenderShutdown`: nobody has to do any of these. `WebserverFairness` adds strong
fairness for taking over some waiting connection, for completing some read of a
connection that has data or was hung up, for some write, for delivering a
datagram and for handling it: asio's queue of completed operations is first in,
first out, so none is overtaken for ever; receives, and accepts that have a
descriptor, are assumed not to fail for ever, and clients to take what is
written to them. Fairness is not per client: that each is served follows.
`TcpServed` supposes in addition that there are descriptors for all, or that
nobody stays silent for ever; without that it does not hold.

In `Dispatch`, weak fairness for the steps of the Io thread but not for
`RenderBuilds`: user code returns sooner or later. `MCDispatch!RoutingSpec` is
`FairDispatchSpec` on the chosen orders.

## 4. The proofs

The theorems about `Lifecycle` and `Webserver` hold for any set of threads,
clients and peers and any bounds, from `LifecycleAssumption` (`Io` and `NoThread`
are not application threads, the bounds are naturals) and `WebserverAssumption`
(the sizes are positive, `NoClient` is no client and `NoPeer` no peer); those about
`Ownership` for any number of objects and ports, from `OwnershipAssumption` (the
default ports are ports, and `Closed` is none).

Those about `Dispatch` hold for any symbols, resources, requests and responses,
for texts of any length, and for any number of requests and of changes of the
tables. They rest on `MessageAssumption` and `StatusAssumption` (what the server
writes are symbols; messages are words, different from each other),
`RoutingAssumption` (braces, "." and the group are symbols) and
`DispatchAssumption`:

* A resource is named by a route or by a text that lacks a closing brace.
  Every text is one of the two: `IsRoute` excludes only a `{` as a literal and
  a `}` in a name. It contains no character of `RegexSyntax`, and not the symbol
  that stands for a rewritten group.
* A request is any beginning of what a client writes (`IsMessage`: no space in
  the method and the URI, no CR or LF in them and in the headers, no empty header;
  anything in the body).
* User code gives no 404 and no 405, so that the properties can tell whose a
  response is.

`LifecycleProofs`:

* `TypeCorrect`: `TypeOK`, as `PcOK` (labels) and `DataOK` (the rest), each
  preserved by every action.
* `Owned`: `ThreadIsOwned` is inductive with `PcOK`.
* `NoCrashWithoutMisuse`, `QuietAfterShutdown`, `LoopsNeverDouble` follow from
  the inductive invariant `IInv`. `CrashNeedsMisuse` alone is not inductive: a
  joinable thread in a server whose flag is clear would make the next orderly
  `start()` crash. `IInv` adds that without overlap at most one thread is in a
  call (`Alone`) and the Io thread is not (`IoOutside`); that, outside the
  statements in between, the flag says whether there is a thread
  (`FlagTellsThread`: this is what makes the destructor's test of
  `m_keepRunning` sufficient); and that the loops were begun at most once for
  a context that has not been stopped (`LoopsBegunOnce`). What the premise
  `Orderly` rules out does happen: overlapping starts double the loops, and a
  handler's `shutdown()` makes the destructor terminate the program.
* `ShutdownAlwaysJoins`: an action property, from `IInv` and a lemma about the
  two steps that leave `shutdown()`.
* `AcceptorOutlivesContext`: from an invariant of its own, `EndsInOrder`: `shutdown()`
  closes the acceptor only behind the stop of the context, and a destructor only
  when it has the object to itself.

`WebserverProofs`:

* `WebserverIsLifecycle`: each step of the composition is a step of
  `Lifecycle` or leaves it alone, so the composition implements it.
* `WebserverTypeCorrect`: each action's effect on connections, datagrams and
  stale buffers, with lemmas that count up to a bound and down from it.
* `UdpRepliesToSender` comes from `UdpInv`. `UdpReplyToSender` is not inductive: a
  second receive could write the endpoint. `UdpInv` adds that somebody is
  answered only while a UDP handler, or the `shutdown()` it calls, is executed
  (`AskerInHandler`); that the endpoint is that of the datagram in the buffer,
  from where the request will be taken (`EndpointOfBuffer`); that a
  closed socket holds nothing (`ClosedIsEmpty`); and that a handler's `shutdown()`
  closes it (`SelfShutdownCloses`). The step that could break it is `start()`
  arming a receive: `ArmsNoSecond` shows with `IInv` that it comes during a handler
  only in a server whose socket is closed.

`ServiceProofs`:

* `PromiseKept`: the server implements `Service` for any number of threads, TCP
  clients and UDP peers side by side, provided that lifecycle calls never
  overlap. Each action maps to an action of `Service` or to a stutter (the
  lemmas `Refines...`). A handler that answers has somebody to answer
  (`HandlersBusy`), no step takes the phase back (`Onward`, from `EndsInOrder`), and
  what peers are owed is counted place by place: a datagram that moves from the
  socket to the buffer, to the handler and to the waiting replies stays one
  datagram (`OwedIs`, `CountAppend`, `CountTail`). That `UdpInv` holds makes a reply use
  up a datagram of the peer it goes to.

`Recursion`, `MessageProofs`, `RoutingProofs`. `splitString`, `createRegexFromURI`,
`regex_match`, `FlattenSeq`, `Decimal`, `Lines` and `Number` are recursive functions,
and the library's theorems on induction and recursion take operators, which the
provers cannot instantiate. `Recursion` states them with sets and functions
instead: `StrongInduction` and `RankInduction` for a set that contains what it has
all predecessors of, `RecursionExists` for a function whose values are given by
those of lower rank. From these

* each of the functions obeys its defining equation (`SplitEquation`,
  `RewriteEquation`, `MatchEquation`, `DecimalEquation`, `LinesEquation`,
  `NumberEquation`, `FlattenPartial`), its rank being the length of the text;
* `ParsedAsSent`: of a message of which any number of symbols has been received
  `handleRequestData` gets method and URI, and of headers and body no symbol of
  the other. The blank line that is found ends the headers because the headers
  are lines: no two line ends follow each other in them (`IsBlock`,
  `BlockOfLines`), whatever the body contains;
* `RouteRound`: `createRegexFromURI` gives a group for each parameter and every
  other symbol for itself. By induction over the parts of a route, what matches
  its expression fits the route (`RouteSound`) and what fits is matched
  (`RouteComplete`); a "." spoils only the former. `LongestExists`: there is always a
  match that takes the longest texts first, so `regex_match` has a result;
* `NumberRead`: a number is read as it was written, for every number;
  `TopRead`: the head of a response is read line by line as it was written;
  `WireRead`: the first blank line is the one behind the headers, with and without
  a body.

`DispatchProofs`:

* `TableAlwaysObeyed`: from `TypeInv` and `TableInv`. The table is read once, in
  `CheckMethod`; `TableInv` says that the present value of every entry is among
  those it has had since the request came in (`SeenCurrent`), and carries what
  `isAllowed` found (`Admitted`, `Denied`) through the listing of the methods and
  through user code, up to the response. That writes of the application do not
  disturb it is `SeenStep`: while a request is being answered the values that an
  entry has had become more, never fewer. `TableInv` also keeps the responses of
  user code apart from those of the server.
* `AllowAlwaysNamesTable`: from `AllowInv` besides, which says what the string lists
  while the loop of `getAllowedMethodsAsString` is under way (`Lists`): of the
  methods visited all that were allowed ever since (`Sure`), only such as were at
  some time (`Possible`), each once, and kept apart; and that it is empty before.
  `ListsRound` is one round of the loop, `ListStays` a write in the middle of it.
* `DispatchIsTyped`: from `TypeInv`, which is stronger than `DispatchTypeOK`: each
  resource is what the constructor makes of its route, headers are finite maps.
  Its hard part is that whatever has been received, `handleRequestData` makes a
  request of texts out of it (`DataType`).
* `RoutedAlwaysAsMeant`: from `TypeInv`, `TableInv` and `RoutedInv`. `RoutedAsMeant` speaks
  of two moments only, user code and a 404. `RoutedInv` adds what the loop over
  `m_resourceMap` knows in between: every resource visited so far has failed, the
  order visits them all, and a request has no arguments until a route is found.
  `TableInv` tells a 404 of the server from user code's. A route with a "." is
  exempt from the part about arguments, and a URI is compared as
  `handleRequestData` leaves it, without a slash at its end.
* `AlwaysHandedOn`: from `TypeInv` and `HandedInv`: from `handleRequestData` to the
  handler the request is what was sent, with arguments added at most.
* `AlwaysReadable`: every typed response whose headers keep to their lines can be
  read (`ReadableStep`), hence in every state, since `TypeInv` is an invariant.

`OwnershipProofs`:

* `OwnershipTypeCorrect`, `AlwaysDestructible`, `AlwaysListens` and
  `ResourcesAlwaysHaveHandlers` come from `OwnershipInv`: types, and `Sound` for
  each server. It is inductive as it stands, because `Sound` speaks of one
  server and each lemma shows that an operation makes a sound server out of
  sound ones; `OneServerChanges` and `TwoServersChange` lift that to the state.
* `MovesAlwaysReleasePorts`: an action property. Whatever makes `Rebound` fail is
  neither of the two servers of the move, whose sockets are closed by then
  (`ThirdServerInTheWay`).

Only model-checked: `ShutdownReturns`, `TcpServed`, `UdpServed` and
`EveryRequestEnds`, as liveness under fairness is out of the prover's reach. Every
invariant, every action property and the refinement that the passing runs check
is proved; `KeepsPromise` under the premise that lifecycle calls do not overlap.

## 5. Not modelled, and the plan

Left out for good: logging and its mutex, build files, examples, what nothing
calls (`getHeaderValue`, `getAllowedMethods`, `clearArgs`, `setArgs`), `setBufferSize`, the redundant null
checks of `handleRequest`, regular-expression syntax other than "." in routes and
the exceptions that it may cause (Lifecycle only lets a handler fail so), and the
effects of using a socket from two
threads at once (`NoSocketRace` shows that it happens).

What could come next is a move of a server whose handler is running: the maps
are moved out of it before `shutdown()` joins the Io thread (`webserver.cpp:63-73`),
so `Ownership` would have to take a move in two steps and compose it with
`Dispatch`. The repository says nothing of moving a running server.
