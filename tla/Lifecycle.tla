------------------------------ MODULE Lifecycle ------------------------------
(***************************************************************************)
(* The life of one Webserver object: start(), shutdown() and ~Webserver()  *)
(* run statement by statement by application threads, the thread that      *)
(* start() creates to run m_ioContext, and the two self-renewing           *)
(* asynchronous operations (the TCP accept and the UDP receive) that this  *)
(* thread completes.  What a completion handler does with a connection or  *)
(* a datagram is the subject of module Webserver; here a handler is        *)
(* reduced to the steps that touch the object's own members, and to the    *)
(* one lifecycle call that user code in a handler can make: shutdown().    *)
(***************************************************************************)
EXTENDS Naturals

CONSTANTS Threads,    \* the application threads that call the object
          Io,         \* the thread behind m_ioContextThread
          NoThread,   \* "no thread has begun the destructor"
          MaxStarts,  \* bound on the number of calls to start()
          MaxConnections  \* bound on the TCP connections in progress at once

ASSUME LifecycleAssumption ==
    /\ Io \notin Threads
    /\ NoThread \notin Threads
    /\ MaxStarts \in Nat
    /\ MaxConnections \in Nat

VARIABLES
    m_keepRunning,    \* the atomic flag
    m_isUdpOn,        \* fixed by the constructor
    joinable,         \* m_ioContextThread.joinable()
    ioStopped,        \* m_ioContext.stopped()
    acceptorOpen,     \* m_tcpAcceptor.is_open()
    udpOpen,          \* m_udpSocket && m_udpSocket->is_open()
    accepts,          \* outstanding async_accept operations
    receives,         \* outstanding async_receive_from operations
    connections,      \* TCP connections with a read or a write outstanding
    pc,               \* the next statement of every thread
    resume,           \* where Io continues after a shutdown() it called itself
    destroyer,        \* the thread that runs ~Webserver(), or NoThread
    crashed,          \* std::terminate, or undefined behaviour, was reached
    starts,           \* calls to start() so far
    overlapped,       \* history: two lifecycle calls were in progress at once
    selfShutdown,     \* history: a handler called shutdown() on the Io thread
    handlerFailed     \* history: a request ended the program

members == <<m_keepRunning, m_isUdpOn, joinable, ioStopped, acceptorOpen, udpOpen>>
ops == <<accepts, receives, connections>>
history == <<starts, overlapped, selfShutdown, handlerFailed>>
lifecycleVars == <<members, ops, pc, resume, destroyer, crashed, history>>

Procs == Threads \cup {Io}

StartLabels == {"start", "set", "armUdp", "armTcp", "spawn", "assign"}
ShutdownLabels == {"clear", "stop", "closeTcp", "closeUdp", "test", "join"}
DtorLabels == {"dtor", "members"}
HandlerLabels == {"accepted", "rearm", "udp", "udpSend", "udpRearm", "tcp", "tcpSend"}

ThreadLabels == {"idle", "gone"} \cup StartLabels \cup ShutdownLabels \cup DtorLabels
IoLabels == {"none", "run", "finished"} \cup HandlerLabels \cup ShutdownLabels

TypeOK ==
    /\ m_keepRunning \in BOOLEAN
    /\ m_isUdpOn \in BOOLEAN
    /\ joinable \in BOOLEAN
    /\ ioStopped \in BOOLEAN
    /\ acceptorOpen \in BOOLEAN
    /\ udpOpen \in BOOLEAN
    /\ accepts \in Nat
    /\ receives \in Nat
    /\ connections \in Nat
    /\ pc \in [Procs -> ThreadLabels \cup IoLabels]
    /\ \A t \in Threads : pc[t] \in ThreadLabels
    /\ pc[Io] \in IoLabels
    /\ resume \in {"udpSend", "tcpSend"}
    /\ destroyer \in Threads \cup {NoThread}
    /\ crashed \in BOOLEAN
    /\ starts \in Nat
    /\ overlapped \in BOOLEAN
    /\ selfShutdown \in BOOLEAN
    /\ handlerFailed \in BOOLEAN

InCall(p) == pc[p] \in StartLabels \cup ShutdownLabels \cup DtorLabels
IoLive == pc[Io] \notin {"none", "finished"}
Destroyed == \E t \in Threads : pc[t] = "gone"

(* The Builder's constructor opens the acceptor, and the UDP socket when UDP *)
(* is on; the default constructor opens neither.                             *)
LifecycleInit ==
    /\ acceptorOpen \in BOOLEAN
    /\ m_isUdpOn \in BOOLEAN
    /\ m_isUdpOn => acceptorOpen
    /\ udpOpen = m_isUdpOn
    /\ m_keepRunning = FALSE
    /\ joinable = FALSE
    /\ ioStopped = FALSE
    /\ accepts = 0
    /\ receives = 0
    /\ connections = 0
    /\ pc = [p \in Procs |-> IF p = Io THEN "none" ELSE "idle"]
    /\ resume = "tcpSend"
    /\ destroyer = NoThread
    /\ crashed = FALSE
    /\ starts = 0
    /\ overlapped = FALSE
    /\ selfShutdown = FALSE
    /\ handlerFailed = FALSE

At(p, label) == pc[p] = label
Goto(p, label) == pc' = [pc EXCEPT ![p] = label]

(* std::terminate, or undefined behaviour: nothing is promised afterwards.   *)
Crash ==
    /\ crashed' = TRUE
    /\ UNCHANGED <<members, ops, pc, resume, destroyer, history>>

-----------------------------------------------------------------------------
(* Calls.  No method is called once the destructor has begun.                *)

Enter(t, label) ==
    /\ At(t, "idle")
    /\ destroyer = NoThread
    /\ Goto(t, label)
    /\ overlapped' = (overlapped \/ \E q \in Procs \ {t} : InCall(q))
    /\ UNCHANGED <<members, ops, resume, crashed, selfShutdown, handlerFailed>>

CallStart(t) ==
    /\ starts < MaxStarts
    /\ Enter(t, "start")
    /\ starts' = starts + 1
    /\ UNCHANGED destroyer

CallShutdown(t) ==
    /\ Enter(t, "clear")
    /\ UNCHANGED <<starts, destroyer>>

CallDestroy(t) ==
    /\ Enter(t, "dtor")
    /\ destroyer' = t
    /\ UNCHANGED starts

-----------------------------------------------------------------------------
(* start()                                                                   *)

(* Mutant: start() without its early return.                                 *)
StartCheckUnguarded(t) ==
    /\ At(t, "start")
    /\ Goto(t, "set")
    /\ UNCHANGED <<members, ops, resume, destroyer, crashed, history>>

StartCheck(t) ==
    /\ At(t, "start")
    /\ Goto(t, IF m_keepRunning THEN "idle" ELSE "set")
    /\ UNCHANGED <<members, ops, resume, destroyer, crashed, history>>

StartSet(t) ==
    /\ At(t, "set")
    /\ m_keepRunning' = TRUE
    /\ Goto(t, IF m_isUdpOn THEN "armUdp" ELSE "armTcp")
    /\ UNCHANGED <<m_isUdpOn, joinable, ioStopped, acceptorOpen, udpOpen,
                   ops, resume, destroyer, crashed, history>>

(* On a closed socket the operation is outstanding too: it has completed     *)
(* with an error and its handler is queued.                                  *)
receiveUdpRequest == receives' = receives + 1 /\ UNCHANGED <<accepts, connections>>
acceptTcpConnection == accepts' = accepts + 1 /\ UNCHANGED <<receives, connections>>

StartArmUdp(t) ==
    /\ At(t, "armUdp")
    /\ receiveUdpRequest
    /\ Goto(t, "armTcp")
    /\ UNCHANGED <<members, resume, destroyer, crashed, history>>

StartArmTcp(t) ==
    /\ At(t, "armTcp")
    /\ acceptTcpConnection
    /\ Goto(t, "spawn")
    /\ UNCHANGED <<members, resume, destroyer, crashed, history>>

(* std::thread's constructor: the thread runs before it is assigned to       *)
(* m_ioContextThread; a failure throws and start() swallows the exception,   *)
(* leaving m_keepRunning set.  A second thread beside a live one ends in the *)
(* assignment over a joinable std::thread, hence in std::terminate.          *)
StartSpawn(t) ==
    /\ At(t, "spawn")
    /\ \/ /\ ~IoLive
          /\ pc' = [pc EXCEPT ![t] = "assign", ![Io] = "run"]
          /\ UNCHANGED <<members, ops, resume, destroyer, crashed, history>>
       \/ /\ IoLive
          /\ Crash
       \/ /\ Goto(t, "idle")
          /\ UNCHANGED <<members, ops, resume, destroyer, crashed, history>>

(* Mutant: the new thread is detached.                                       *)
StartAssignDetached(t) ==
    /\ At(t, "assign")
    /\ Goto(t, "idle")
    /\ UNCHANGED <<members, ops, resume, destroyer, crashed, history>>

StartAssign(t) ==
    /\ At(t, "assign")
    /\ \/ /\ joinable
          /\ Crash
       \/ /\ ~joinable
          /\ joinable' = TRUE
          /\ Goto(t, "idle")
          /\ UNCHANGED <<m_keepRunning, m_isUdpOn, ioStopped, acceptorOpen, udpOpen,
                         ops, resume, destroyer, crashed, history>>

-----------------------------------------------------------------------------
(* shutdown(), on an application thread or, called by a handler, on Io.      *)

ShutdownClear(p) ==
    /\ At(p, "clear")
    /\ m_keepRunning' = FALSE
    /\ Goto(p, "stop")
    /\ UNCHANGED <<m_isUdpOn, joinable, ioStopped, acceptorOpen, udpOpen,
                   ops, resume, destroyer, crashed, history>>

(* Mutant: shutdown() leaves the context running.                            *)
ShutdownStopForgotten(p) ==
    /\ At(p, "stop")
    /\ Goto(p, "closeTcp")
    /\ UNCHANGED <<members, ops, resume, destroyer, crashed, history>>

ShutdownStop(p) ==
    /\ At(p, "stop")
    /\ ioStopped' = TRUE
    /\ Goto(p, "closeTcp")
    /\ UNCHANGED <<m_keepRunning, m_isUdpOn, joinable, acceptorOpen, udpOpen,
                   ops, resume, destroyer, crashed, history>>

ShutdownCloseTcp(p) ==
    /\ At(p, "closeTcp")
    /\ acceptorOpen' = FALSE
    /\ Goto(p, "closeUdp")
    /\ UNCHANGED <<m_keepRunning, m_isUdpOn, joinable, ioStopped, udpOpen,
                   ops, resume, destroyer, crashed, history>>

ShutdownCloseUdp(p) ==
    /\ At(p, "closeUdp")
    /\ udpOpen' = FALSE
    /\ Goto(p, "test")
    /\ UNCHANGED <<m_keepRunning, m_isUdpOn, joinable, ioStopped, acceptorOpen,
                   ops, resume, destroyer, crashed, history>>

(* Where shutdown() returns to: the handler, the destructor, or the caller.  *)
Return(p) ==
    IF p = Io THEN resume ELSE IF p = destroyer THEN "members" ELSE "idle"

(* Mutant: shutdown() returns without joining.                               *)
ShutdownTestNoJoin(p) ==
    /\ At(p, "test")
    /\ Goto(p, Return(p))
    /\ UNCHANGED <<members, ops, resume, destroyer, crashed, history>>

ShutdownTest(p) ==
    /\ At(p, "test")
    /\ Goto(p, IF joinable THEN "join" ELSE Return(p))
    /\ UNCHANGED <<members, ops, resume, destroyer, crashed, history>>

(* join() throws when the thread joins itself: handleRequest catches that,   *)
(* and the std::thread stays joinable.  Joining a thread that another caller *)
(* has already joined throws out of shutdown().                              *)
ShutdownJoin(p) ==
    /\ At(p, "join")
    /\ \/ /\ p = Io
          /\ Goto(Io, resume)
          /\ UNCHANGED <<members, ops, resume, destroyer, crashed, history>>
       \/ /\ p # Io /\ joinable /\ ~IoLive
          /\ joinable' = FALSE
          /\ Goto(p, Return(p))
          /\ UNCHANGED <<m_keepRunning, m_isUdpOn, ioStopped, acceptorOpen, udpOpen,
                         ops, resume, destroyer, crashed, history>>
       \/ /\ p # Io /\ ~joinable
          /\ Crash

Shutdown(p) ==
    \/ ShutdownClear(p) \/ ShutdownStop(p) \/ ShutdownCloseTcp(p)
    \/ ShutdownCloseUdp(p) \/ ShutdownTest(p) \/ ShutdownJoin(p)

-----------------------------------------------------------------------------
(* ~Webserver()                                                              *)

(* Mutant: the destructor relies on the caller's shutdown().                 *)
DestroyCheckNoShutdown(t) ==
    /\ At(t, "dtor")
    /\ Goto(t, "members")
    /\ UNCHANGED <<members, ops, resume, destroyer, crashed, history>>

DestroyCheck(t) ==
    /\ At(t, "dtor")
    /\ Goto(t, IF m_keepRunning THEN "clear" ELSE "members")
    /\ UNCHANGED <<members, ops, resume, destroyer, crashed, history>>

(* The members are destroyed: a joinable std::thread terminates the program, *)
(* and so, sooner or later, does a thread still inside the object.           *)
DestroyMembers(t) ==
    /\ At(t, "members")
    /\ LET inUse == joinable \/ IoLive \/ \E q \in Threads \ {t} : InCall(q)
       IN  \/ /\ inUse
              /\ Crash
           \/ /\ ~inUse
              /\ Goto(t, "gone")
              /\ acceptorOpen' = FALSE
              /\ udpOpen' = FALSE
              /\ accepts' = 0
              /\ receives' = 0
              /\ connections' = 0
              /\ UNCHANGED <<m_keepRunning, m_isUdpOn, joinable, ioStopped,
                             resume, destroyer, crashed, history>>

-----------------------------------------------------------------------------
(* m_ioContext.run() on the Io thread                                        *)

(* run() returns when the context is stopped, or is out of work, which stops *)
(* it.                                                                       *)
IoExit ==
    /\ At(Io, "run")
    /\ ioStopped \/ (accepts = 0 /\ receives = 0 /\ connections = 0)
    /\ ioStopped' = TRUE
    /\ Goto(Io, "finished")
    /\ UNCHANGED <<m_keepRunning, m_isUdpOn, joinable, acceptorOpen, udpOpen,
                   ops, resume, destroyer, crashed, history>>

IoDispatch(label) ==
    /\ At(Io, "run")
    /\ ~ioStopped
    /\ Goto(Io, label)
    /\ UNCHANGED <<members, resume, destroyer, crashed, history>>

(* The accept handler: a connection is taken over and its read started, or   *)
(* the accept failed, as it always does on a closed acceptor.                *)
IoAccept ==
    /\ accepts > 0
    /\ accepts' = accepts - 1
    /\ \/ /\ acceptorOpen
          /\ connections < MaxConnections
          /\ connections' = connections + 1
       \/ UNCHANGED connections
    /\ IoDispatch("accepted")
    /\ UNCHANGED receives

(* Mutant: the receive handler is run although no receive is outstanding.    *)
IoReceiveUnarmed ==
    /\ receives' = receives - 1
    /\ IoDispatch("udp") \/ IoDispatch("udpRearm")
    /\ UNCHANGED <<accepts, connections>>

(* The receive handler: a request to answer, or an error, which skips to the *)
(* re-arm.                                                                   *)
IoReceive ==
    /\ receives > 0
    /\ receives' = receives - 1
    /\ IoDispatch("udp") \/ IoDispatch("udpRearm")
    /\ UNCHANGED <<accepts, connections>>

(* A read has completed: its handler runs user code.  A failed read or the   *)
(* end of a write only gives the connection up.                              *)
IoTcp ==
    /\ connections > 0
    /\ connections' = connections - 1
    /\ IoDispatch("tcp") \/ IoDispatch("run")
    /\ UNCHANGED <<accepts, receives>>

(* Mutant: the accept is not started again.                                  *)
AcceptCheckOnce ==
    /\ At(Io, "accepted")
    /\ Goto(Io, "run")
    /\ UNCHANGED <<members, ops, resume, destroyer, crashed, history>>

(* The end of the accept handler: m_keepRunning is tested, then the next     *)
(* accept is started.                                                        *)
AcceptCheck ==
    /\ At(Io, "accepted")
    /\ Goto(Io, IF m_keepRunning THEN "rearm" ELSE "run")
    /\ UNCHANGED <<members, ops, resume, destroyer, crashed, history>>

AcceptRearm ==
    /\ At(Io, "rearm")
    /\ acceptTcpConnection
    /\ Goto(Io, "run")
    /\ UNCHANGED <<members, resume, destroyer, crashed, history>>

(* User code in a handler returns, or calls shutdown() first.                *)
RenderReturn ==
    /\ \/ At(Io, "udp") /\ Goto(Io, "udpSend")
       \/ At(Io, "tcp") /\ Goto(Io, "tcpSend")
    /\ UNCHANGED <<members, ops, resume, destroyer, crashed, history>>

RenderShutdown ==
    /\ \/ At(Io, "udp") /\ resume' = "udpSend"
       \/ At(Io, "tcp") /\ resume' = "tcpSend"
    /\ Goto(Io, "clear")
    /\ selfShutdown' = TRUE
    /\ overlapped' = (overlapped \/ \E t \in Threads : InCall(t))
    /\ UNCHANGED <<members, ops, destroyer, crashed, starts, handlerFailed>>

(* What leaves the handler ends the program: handleRequestData dereferences  *)
(* the null pointer that user code may return, takes back() of an empty URI, *)
(* and lets the exceptions of regex_match pass.                              *)
HandlerFails ==
    /\ At(Io, "udp") \/ At(Io, "tcp")
    /\ crashed' = TRUE
    /\ handlerFailed' = TRUE
    /\ UNCHANGED <<members, ops, pc, resume, destroyer, starts, overlapped, selfShutdown>>

(* The response is handed to asio; then a UDP handler re-arms the receive    *)
(* whatever happened, m_keepRunning is not looked at.                        *)
TcpSend ==
    /\ At(Io, "tcpSend")
    /\ connections' = connections + 1
    /\ Goto(Io, "run")
    /\ UNCHANGED <<members, accepts, receives, resume, destroyer, crashed, history>>

UdpSend ==
    /\ At(Io, "udpSend")
    /\ Goto(Io, "udpRearm")
    /\ UNCHANGED <<members, ops, resume, destroyer, crashed, history>>

UdpRearm ==
    /\ At(Io, "udpRearm")
    /\ receiveUdpRequest
    /\ Goto(Io, "run")
    /\ UNCHANGED <<members, resume, destroyer, crashed, history>>

-----------------------------------------------------------------------------
Call(t) == CallStart(t) \/ CallShutdown(t) \/ CallDestroy(t)

ThreadStep(t) ==
    \/ StartCheck(t) \/ StartSet(t) \/ StartArmUdp(t) \/ StartArmTcp(t)
    \/ StartSpawn(t) \/ StartAssign(t)
    \/ Shutdown(t)
    \/ DestroyCheck(t) \/ DestroyMembers(t)

(* Steps the Io thread takes on its own, and those that wait for the outside. *)
IoStep ==
    \/ IoExit \/ AcceptCheck \/ AcceptRearm \/ RenderReturn
    \/ TcpSend \/ UdpSend \/ UdpRearm
    \/ Shutdown(Io)

IoEvent == IoAccept \/ IoReceive \/ IoTcp \/ RenderShutdown \/ HandlerFails

Done == (crashed \/ Destroyed) /\ UNCHANGED lifecycleVars

LifecycleNext ==
    \/ /\ ~crashed
       /\ \/ \E t \in Threads : Call(t) \/ ThreadStep(t)
          \/ IoStep
          \/ IoEvent
    \/ Done

LifecycleSpec == LifecycleInit /\ [][LifecycleNext]_lifecycleVars

(* The operating system schedules every thread; nobody is obliged to call a  *)
(* method, to connect, or to send.                                           *)
LifecycleFairness ==
    /\ \A t \in Threads : WF_lifecycleVars(~crashed /\ ThreadStep(t))
    /\ WF_lifecycleVars(~crashed /\ IoStep)

FairLifecycleSpec == LifecycleSpec /\ LifecycleFairness

-----------------------------------------------------------------------------
(* Properties                                                                *)

Orderly == ~overlapped /\ ~selfShutdown

(* Calls made one at a time and from outside the handlers never bring the    *)
(* program down: start() never assigns over a joinable m_ioContextThread,    *)
(* shutdown() never joins twice, and ~Webserver(), which calls shutdown()    *)
(* only while m_keepRunning is set, never destroys a joinable thread.  What  *)
(* else ends it is a request: its URI, or what user code returned.           *)
CrashNeedsMisuse == crashed => ~Orderly \/ handlerFailed

(* The thread that runs m_ioContext always belongs to the object: it is held *)
(* by m_ioContextThread, or start() is about to put it there.  A detached    *)
(* thread would run handlers on a destroyed object.                          *)
ThreadIsOwned ==
    IoLive => joinable \/ \E t \in Threads : pc[t] = "assign"

(* Between orderly calls, a server whose m_keepRunning is clear has no       *)
(* thread left to join: shutdown() returned only after the last handler.     *)
QuietWhenDown ==
    /\ Orderly
    /\ ~m_keepRunning
    /\ \A t \in Threads : ~InCall(t)
    => ~joinable /\ ~IoLive

(* As long as calls are orderly, at most one accept and one UDP receive are  *)
(* in progress while the context runs, counting the one whose handler is     *)
(* being executed.  All UDP receives write the same m_remoteEndpoint, so a   *)
(* second one would redirect the reply to the first.  Of two start() calls   *)
(* that overlap, each may arm both.                                          *)
OneLoopEach ==
    Orderly /\ ~ioStopped =>
        /\ accepts + (IF pc[Io] \in {"accepted", "rearm"} THEN 1 ELSE 0) <= 1
        /\ receives + (IF pc[Io] \in {"udp", "udpSend", "udpRearm"} THEN 1 ELSE 0) <= 1

(* A shutdown() that overlaps no other call has joined the Io thread when it *)
(* returns to its caller, even after a handler's own shutdown() left a       *)
(* joinable thread behind: the object can then be destroyed.                 *)
ShutdownJoins ==
    [][\A t \in Threads :
          pc[t] \in ShutdownLabels /\ pc'[t] \in {"idle", "members"} /\ ~overlapped
              => ~joinable' /\ ~IoLive']_lifecycleVars

(* The acceptor of a server made by the Builder, which opened it, stays open *)
(* as long as its context runs: shutdown() stops the context first, and so   *)
(* the Io thread takes no completion of an accept that closing it aborted.   *)
AcceptLoopWaits == acceptorOpen => [](IoLive /\ ~ioStopped => acceptorOpen)

(* Every shutdown(), the one ~Webserver() makes included, returns: the Io    *)
(* thread finishes the handler it is in and leaves run(), because the        *)
(* context is stopped before the join.                                       *)
ShutdownReturns ==
    \A t \in Threads : pc[t] \in ShutdownLabels ~> ~InCall(t) \/ crashed

(* The log line "Server is listening on port" (webserver.cpp:110): when      *)
(* start() has returned and no shutdown() came after it, the acceptor        *)
(* listens.                                                                  *)
StartedServerListens ==
    m_keepRunning /\ (\A p \in Procs : ~InCall(p)) => acceptorOpen

(* README.md:132, the server "shuts down gracefully": shutdown() does not    *)
(* close a socket object that the Io thread is using at that moment (asio    *)
(* sockets are not safe for concurrent use).                                 *)
NoSocketRace ==
    \A t \in Threads :
        /\ ~(pc[t] = "closeTcp" /\ acceptorOpen /\ pc[Io] = "rearm")
        /\ ~(pc[t] = "closeUdp" /\ udpOpen /\ pc[Io] \in {"udpSend", "udpRearm"})
=============================================================================
