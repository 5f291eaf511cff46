----------------------------- MODULE Ownership -----------------------------
(***************************************************************************)
(* Several Webserver objects of one application: made by a Builder, by the *)
(* default constructor or from one another, by the move constructor and    *)
(* move assignment, started, shut down and destroyed by one thread.  The   *)
(* subject is who owns what: the ports, the resources, the method handlers *)
(* and the thread.  Calls are atomic here, module Lifecycle takes them     *)
(* apart; handlers do not call shutdown(), and no other program uses the   *)
(* ports.                                                                  *)
(***************************************************************************)
EXTENDS Naturals

CONSTANTS Objects,   \* names of variables that may hold a Webserver
          NoServer,  \* the variable holds none
          Closed,    \* the socket is not open
          TcpPorts, UdpPorts,
          DefaultTcpPort, DefaultUdpPort

ASSUME OwnershipAssumption ==
    /\ DefaultTcpPort \in TcpPorts
    /\ DefaultUdpPort \in UdpPorts
    /\ Closed \notin TcpPorts \cup UdpPorts \cup {0}

VARIABLES
    server,     \* the Webserver of each object
    builder,    \* the one Webserver::Builder
    terminated  \* std::terminate was called

ownershipVars == <<server, builder, terminated>>

(* A socket is the port it is bound to, or Closed.  A map is TRUE when it    *)
(* has its entries.                                                          *)
Servers ==
    [m_tcpPort : TcpPorts, m_udpPort : UdpPorts, m_isUdpOn : BOOLEAN,
     m_tcpAcceptor : TcpPorts \cup {Closed}, m_udpSocket : UdpPorts \cup {Closed},
     m_keepRunning : BOOLEAN, stopped : BOOLEAN, joinable : BOOLEAN,
     m_resourceMap : BOOLEAN, m_methodHandlers : BOOLEAN]

Builders ==
    [m_tcpPort : TcpPorts, m_udpPort : UdpPorts, m_isUdpOn : BOOLEAN,
     m_resourceMap : BOOLEAN]

OwnershipTypeOK ==
    /\ server \in [Objects -> Servers \cup {NoServer}]
    /\ builder \in Builders
    /\ terminated \in BOOLEAN

OwnershipInit ==
    /\ server = [o \in Objects |-> NoServer]
    /\ builder = [m_tcpPort |-> DefaultTcpPort, m_udpPort |-> DefaultUdpPort,
                  m_isUdpOn |-> FALSE, m_resourceMap |-> FALSE]
    /\ terminated = FALSE

Holds(o) == server[o] # NoServer

(* A bind fails on a port that a socket of the application is bound to.      *)
TcpFree(port, servers) ==
    \A o \in Objects : servers[o] # NoServer => servers[o].m_tcpAcceptor # port
UdpFree(port, servers) ==
    \A o \in Objects : servers[o] # NoServer => servers[o].m_udpSocket # port

Terminate == terminated' = TRUE /\ UNCHANGED <<server, builder>>

-----------------------------------------------------------------------------
(* The Builder                                                               *)

Set(settings) == builder' = settings /\ UNCHANGED <<server, terminated>>

setTcpPort(port) == Set([builder EXCEPT !.m_tcpPort = port])
setUdpPort(port) == Set([builder EXCEPT !.m_udpPort = port])
setUdpOn == Set([builder EXCEPT !.m_isUdpOn = TRUE])
setResource == Set([builder EXCEPT !.m_resourceMap = TRUE])

Constructed(settings) ==
    [m_tcpPort |-> settings.m_tcpPort, m_udpPort |-> settings.m_udpPort,
     m_isUdpOn |-> settings.m_isUdpOn,
     m_tcpAcceptor |-> settings.m_tcpPort,
     m_udpSocket |-> IF settings.m_isUdpOn THEN settings.m_udpPort ELSE Closed,
     m_keepRunning |-> FALSE, stopped |-> FALSE, joinable |-> FALSE,
     m_resourceMap |-> settings.m_resourceMap, m_methodHandlers |-> TRUE]

(* The constructor throws when a port is taken.  Either way the resources    *)
(* have left the Builder for the constructor's parameter.                    *)
build(o) ==
    /\ ~Holds(o)
    /\ \/ /\ TcpFree(builder.m_tcpPort, server)
          /\ builder.m_isUdpOn => UdpFree(builder.m_udpPort, server)
          /\ server' = [server EXCEPT ![o] = Constructed(builder)]
       \/ /\ ~ /\ TcpFree(builder.m_tcpPort, server)
               /\ builder.m_isUdpOn => UdpFree(builder.m_udpPort, server)
          /\ UNCHANGED server
    /\ builder' = [builder EXCEPT !.m_resourceMap = FALSE]
    /\ UNCHANGED terminated

DefaultConstruct(o) ==
    /\ ~Holds(o)
    /\ server' = [server EXCEPT ![o] =
          [m_tcpPort |-> DefaultTcpPort, m_udpPort |-> DefaultUdpPort,
           m_isUdpOn |-> FALSE, m_tcpAcceptor |-> Closed, m_udpSocket |-> Closed,
           m_keepRunning |-> FALSE, stopped |-> FALSE, joinable |-> FALSE,
           m_resourceMap |-> FALSE, m_methodHandlers |-> FALSE]]
    /\ UNCHANGED <<builder, terminated>>

-----------------------------------------------------------------------------
(* start(), shutdown() and the destructor, as a whole                        *)

ShutDown(s) ==
    [s EXCEPT !.m_keepRunning = FALSE, !.stopped = TRUE, !.joinable = FALSE,
              !.m_tcpAcceptor = Closed, !.m_udpSocket = Closed]

(* Assigning over a joinable thread, or destroying one, ends the program.    *)
(* When the thread cannot be created the flag stays set.                     *)
Start(o) ==
    /\ Holds(o)
    /\ ~server[o].m_keepRunning
    /\ \/ /\ server' = [server EXCEPT ![o].m_keepRunning = TRUE, ![o].joinable = TRUE]
          /\ terminated' = server[o].joinable
       \/ /\ server' = [server EXCEPT ![o].m_keepRunning = TRUE]
          /\ UNCHANGED terminated
    /\ UNCHANGED builder

Shutdown(o) ==
    /\ Holds(o)
    /\ server' = [server EXCEPT ![o] = ShutDown(@)]
    /\ UNCHANGED <<builder, terminated>>

Destroy(o) ==
    /\ Holds(o)
    /\ server' = [server EXCEPT ![o] = NoServer]
    /\ terminated' = (~server[o].m_keepRunning /\ server[o].joinable)
    /\ UNCHANGED builder

-----------------------------------------------------------------------------
(* Moves.  Both are noexcept: a port that cannot be bound ends the program.  *)
(* Both bind the UDP port, whether UDP is on or not.                         *)

MovedFrom(s) == [ShutDown(s) EXCEPT !.m_resourceMap = FALSE, !.m_methodHandlers = FALSE]

BindPorts(s) == [s EXCEPT !.m_tcpAcceptor = s.m_tcpPort, !.m_udpSocket = s.m_udpPort]

(* The servers after a move to o that leaves every server as `servers' says, *)
(* o with its ports to be bound.                                             *)
Rebound(o, servers) ==
    LET others == [servers EXCEPT ![o].m_tcpAcceptor = Closed, ![o].m_udpSocket = Closed]
    IN  IF /\ TcpFree(servers[o].m_tcpPort, others)
           /\ UdpFree(servers[o].m_udpPort, others)
        THEN /\ server' = [servers EXCEPT ![o] = BindPorts(@)]
             /\ UNCHANGED <<builder, terminated>>
        ELSE Terminate

(* What the member initialisers make of the server that is moved from: port  *)
(* 0 stands for one that the kernel chooses.                                 *)
Taken(s) ==
    [s EXCEPT !.m_tcpAcceptor = 0, !.m_udpSocket = Closed,
              !.m_keepRunning = FALSE, !.stopped = FALSE, !.joinable = FALSE]

(* Mutant: the acceptor stays on the port that the kernel chose.             *)
MoveConstructPortZero(o, p) ==
    /\ ~Holds(o) /\ Holds(p)
    /\ server' = [server EXCEPT ![p] = MovedFrom(@), ![o] = Taken(server[p])]
    /\ UNCHANGED <<builder, terminated>>

(* Mutant: the other server is not shut down.                                *)
MoveConstructLeavesOther(o, p) ==
    /\ ~Holds(o) /\ Holds(p)
    /\ Rebound(o, [server EXCEPT
                      ![p].m_resourceMap = FALSE, ![p].m_methodHandlers = FALSE,
                      ![o] = Taken(server[p])])

MoveConstruct(o, p) ==
    /\ ~Holds(o) /\ Holds(p)
    /\ Rebound(o, [server EXCEPT ![p] = MovedFrom(@), ![o] = Taken(server[p])])

(* Move assignment keeps the target's own context, which its shutdown() has  *)
(* stopped.                                                                  *)
Assigned(target, s) ==
    [ShutDown(target) EXCEPT
        !.m_tcpPort = s.m_tcpPort, !.m_udpPort = s.m_udpPort, !.m_isUdpOn = s.m_isUdpOn,
        !.m_resourceMap = s.m_resourceMap, !.m_methodHandlers = s.m_methodHandlers]

(* Mutant: the target is not shut down, only its flag is cleared.            *)
MoveAssignNoShutdown(o, p) ==
    /\ o # p /\ Holds(o) /\ Holds(p)
    /\ Rebound(o, [server EXCEPT
                      ![p] = MovedFrom(@),
                      ![o] = [Assigned(@, server[p]) EXCEPT !.joinable = server[o].joinable]])

(* Mutant: the method handlers are not moved.                                *)
MoveAssignNoHandlers(o, p) ==
    /\ o # p /\ Holds(o) /\ Holds(p)
    /\ Rebound(o, [server EXCEPT
                      ![p] = MovedFrom(@),
                      ![o] = [Assigned(@, server[p]) EXCEPT
                                 !.m_methodHandlers = server[o].m_methodHandlers]])

MoveAssign(o, p) ==
    /\ o # p /\ Holds(o) /\ Holds(p)
    /\ Rebound(o, [server EXCEPT ![p] = MovedFrom(@), ![o] = Assigned(@, server[p])])

-----------------------------------------------------------------------------
OwnershipNext ==
    \/ /\ ~terminated
       /\ \/ \E port \in TcpPorts : setTcpPort(port)
          \/ \E port \in UdpPorts : setUdpPort(port)
          \/ setUdpOn
          \/ setResource
          \/ \E o \in Objects :
                build(o) \/ DefaultConstruct(o) \/ Start(o) \/ Shutdown(o) \/ Destroy(o)
          \/ \E o, p \in Objects : MoveConstruct(o, p) \/ MoveAssign(o, p)
    \/ terminated /\ UNCHANGED ownershipVars

OwnershipSpec == OwnershipInit /\ [][OwnershipNext]_ownershipVars

-----------------------------------------------------------------------------
(* Properties                                                                *)

(* After any sequence of moves, the destructor's test of m_keepRunning is    *)
(* enough: no server that is not running holds a joinable thread.            *)
Destructible ==
    \A o \in Objects :
        Holds(o) /\ server[o].joinable => server[o].m_keepRunning

(* A server that the Builder made, directly or through moves, and whose      *)
(* context can run, listens on the port it was given, and on the UDP port    *)
(* when UDP is on.                                                           *)
ListensOnItsPort ==
    \A o \in Objects :
        Holds(o) /\ server[o].m_methodHandlers /\ ~server[o].stopped =>
            /\ server[o].m_tcpAcceptor = server[o].m_tcpPort
            /\ server[o].m_isUdpOn => server[o].m_udpSocket = server[o].m_udpPort

(* A move fails only on a port that a third server holds: by the time it     *)
(* binds its ports the two servers of the move have given theirs up.         *)
MovesReleasePorts ==
    [][\A o, p \in Objects :
          (MoveConstruct(o, p) \/ MoveAssign(o, p)) /\ terminated' =>
              \E q \in Objects \ {o, p} :
                 /\ Holds(q)
                 /\ \/ server[q].m_tcpAcceptor = server[p].m_tcpPort
                    \/ server[q].m_udpSocket = server[p].m_udpPort
      ]_ownershipVars

(* Resources travel with the method handlers: a server with resources and    *)
(* without handlers would answer 405 to every request it routes.             *)
ResourcesHaveHandlers ==
    \A o \in Objects :
        Holds(o) /\ server[o].m_resourceMap => server[o].m_methodHandlers

(* webserver.hpp:60-61 declare both moves noexcept: servers that were given  *)
(* different ports, or the same UDP port with UDP off, can be moved about    *)
(* without ending the program.                                               *)
MovesAreNoexcept ==
    terminated =>
        \E o, p \in Objects :
            /\ o # p /\ Holds(o) /\ Holds(p)
            /\ \/ server[o].m_tcpPort = server[p].m_tcpPort
               \/ /\ server[o].m_isUdpOn /\ server[p].m_isUdpOn
                  /\ server[o].m_udpPort = server[p].m_udpPort
=============================================================================
