--------------------------- MODULE OwnershipProofs ---------------------------
(***************************************************************************)
(* Proofs about module Ownership, for any number of objects and ports.     *)
(***************************************************************************)
EXTENDS Ownership, TLAPS

(* What Destructible, ListensOnItsPort and ResourcesHaveHandlers say of one  *)
(* server.                                                                   *)
Sound(s) ==
    /\ s.joinable => s.m_keepRunning
    /\ s.m_methodHandlers /\ ~s.stopped =>
          /\ s.m_tcpAcceptor = s.m_tcpPort
          /\ s.m_isUdpOn => s.m_udpSocket = s.m_udpPort
    /\ s.m_resourceMap => s.m_methodHandlers

(* Every server there is, is sound.                                          *)
AllSound(servers) == \A o \in Objects : servers[o] # NoServer => Sound(servers[o])

(* The inductive invariant.                                                  *)
OwnershipInv == OwnershipTypeOK /\ AllSound(server)

-----------------------------------------------------------------------------
(* The server that each operation leaves behind is sound.                    *)
LEMMA ConstructedSound ==
    ASSUME NEW b \in Builders
    PROVE  /\ Constructed(b) \in Servers
           /\ Sound(Constructed(b))
BY DEF Builders, Constructed, Servers, Sound

(* So is one that was shut down,                                             *)
LEMMA ShutDownSound ==
    ASSUME NEW s \in Servers, Sound(s)
    PROVE  /\ ShutDown(s) \in Servers
           /\ Sound(ShutDown(s))
BY DEF Servers, ShutDown, Sound

(* one that was moved from,                                                  *)
LEMMA MovedFromSound ==
    ASSUME NEW s \in Servers, Sound(s)
    PROVE  /\ MovedFrom(s) \in Servers
           /\ Sound(MovedFrom(s))
BY DEF Servers, ShutDown, MovedFrom, Sound

(* the result of the move constructor, once its ports are bound,             *)
LEMMA TakenSound ==
    ASSUME NEW s \in Servers, Sound(s)
    PROVE  /\ BindPorts(Taken(s)) \in Servers
           /\ Sound(BindPorts(Taken(s)))
BY DEF Servers, Taken, BindPorts, Sound

(* and the target of move assignment, once its ports are bound.              *)
LEMMA AssignedSound ==
    ASSUME NEW s \in Servers, NEW t \in Servers, Sound(s), Sound(t)
    PROVE  /\ BindPorts(Assigned(t, s)) \in Servers
           /\ Sound(BindPorts(Assigned(t, s)))
<1> DEFINE a == Assigned(t, s)
<1>1. /\ a \in Servers
      /\ ~a.joinable
      /\ a.stopped
      /\ a.m_resourceMap = s.m_resourceMap
      /\ a.m_methodHandlers = s.m_methodHandlers
  <2>1. /\ ShutDown(t) \in Servers
        /\ ~ShutDown(t).joinable
        /\ ShutDown(t).stopped
    BY DEF Servers, ShutDown
  <2>2. QED
    BY <2>1 DEF Servers, Assigned
<1>2. s.m_resourceMap => s.m_methodHandlers
  BY DEF Sound
<1> HIDE DEF a
<1>3. BindPorts(a) \in Servers /\ Sound(BindPorts(a))
  BY <1>1, <1>2 DEF Servers, BindPorts, Sound
<1>4. QED
  BY <1>3 DEF a

-----------------------------------------------------------------------------
(* What a change of one server, or of the two servers of a move, has to      *)
(* respect.                                                                  *)
LEMMA OneServerChanges ==
    ASSUME OwnershipInv,
           NEW o \in Objects, NEW s \in Servers \cup {NoServer},
           s # NoServer => Sound(s),
           server' = [server EXCEPT ![o] = s]
    PROVE  /\ server' \in [Objects -> Servers \cup {NoServer}]
           /\ AllSound(server')
BY DEF OwnershipInv, OwnershipTypeOK, AllSound

(* A move changes the server that is moved from and the one that is rebound. *)
LEMMA TwoServersChange ==
    ASSUME OwnershipInv,
           NEW o \in Objects, NEW p \in Objects, o # p,
           NEW s, Sound(BindPorts(s)), BindPorts(s) \in Servers,
           NEW t \in Servers, Sound(t),
           Rebound(o, [server EXCEPT ![p] = t, ![o] = s])
    PROVE  OwnershipInv'
<1> DEFINE servers == [server EXCEPT ![p] = t, ![o] = s]
<1>1. /\ server \in [Objects -> Servers \cup {NoServer}]
      /\ builder \in Builders
      /\ terminated \in BOOLEAN
      /\ AllSound(server)
  BY DEF OwnershipInv, OwnershipTypeOK
<1>2. CASE Terminate
  BY <1>1, <1>2 DEF Terminate, OwnershipInv, OwnershipTypeOK, AllSound
<1>3. CASE /\ server' = [servers EXCEPT ![o] = BindPorts(s)]
           /\ UNCHANGED <<builder, terminated>>
  <2>1. /\ server' \in [Objects -> Servers \cup {NoServer}]
        /\ server'[o] = BindPorts(s) /\ server'[p] = t
        /\ \A q \in Objects : q # o /\ q # p => server'[q] = server[q]
    BY <1>1, <1>3
  <2>2. AllSound(server')
    BY <1>1, <2>1 DEF AllSound
  <2>3. QED
    BY <1>1, <1>3, <2>1, <2>2 DEF OwnershipInv, OwnershipTypeOK
<1>4. servers[o] = s
  BY <1>1
<1>5. QED
  BY <1>2, <1>3, <1>4 DEF Rebound

-----------------------------------------------------------------------------
(* OwnershipInv is inductive as it stands: the three promises hold together. *)
LEMMA OwnershipInitInv == OwnershipInit => OwnershipInv
<1> SUFFICES ASSUME OwnershipInit
             PROVE  OwnershipInv
  OBVIOUS
<1>1. \A o \in Objects : server[o] = NoServer
  BY DEF OwnershipInit
<1>2. server \in [Objects -> Servers \cup {NoServer}]
  BY DEF OwnershipInit
<1>3. builder \in Builders /\ terminated \in BOOLEAN
  BY OwnershipAssumption DEF OwnershipInit, Builders
<1>4. AllSound(server)
  BY <1>1 DEF AllSound
<1>5. QED
  BY <1>2, <1>3, <1>4 DEF OwnershipInv, OwnershipTypeOK

(* Every step keeps it, action by action.                                    *)
LEMMA OwnershipStepInv == OwnershipInv /\ [OwnershipNext]_ownershipVars => OwnershipInv'
<1> SUFFICES ASSUME OwnershipInv, [OwnershipNext]_ownershipVars
             PROVE  OwnershipInv'
  OBVIOUS
<1>1. /\ server \in [Objects -> Servers \cup {NoServer}]
      /\ builder \in Builders
      /\ terminated \in BOOLEAN
      /\ AllSound(server)
  BY DEF OwnershipInv, OwnershipTypeOK
<1>2. ASSUME NEW o \in Objects, Holds(o)
      PROVE  server[o] \in Servers /\ Sound(server[o])
  BY <1>1, <1>2 DEF Holds, AllSound
<1>3. ASSUME NEW settings \in Builders, Set(settings)
      PROVE  OwnershipInv'
  BY <1>1, <1>3 DEF Set, OwnershipInv, OwnershipTypeOK, AllSound
<1>4. ASSUME NEW port \in TcpPorts, setTcpPort(port)
      PROVE  OwnershipInv'
  <2>1. [builder EXCEPT !.m_tcpPort = port] \in Builders
    BY <1>1 DEF Builders
  <2>2. QED
    BY <1>3, <1>4, <2>1 DEF setTcpPort
<1>5. ASSUME NEW port \in UdpPorts, setUdpPort(port)
      PROVE  OwnershipInv'
  <2>1. [builder EXCEPT !.m_udpPort = port] \in Builders
    BY <1>1 DEF Builders
  <2>2. QED
    BY <1>3, <1>5, <2>1 DEF setUdpPort
<1>6. CASE setUdpOn
  <2>1. [builder EXCEPT !.m_isUdpOn = TRUE] \in Builders
    BY <1>1 DEF Builders
  <2>2. QED
    BY <1>3, <1>6, <2>1 DEF setUdpOn
<1>7. CASE setResource
  <2>1. [builder EXCEPT !.m_resourceMap = TRUE] \in Builders
    BY <1>1 DEF Builders
  <2>2. QED
    BY <1>3, <1>7, <2>1 DEF setResource
<1>8. ASSUME NEW o \in Objects, build(o)
      PROVE  OwnershipInv'
  <2>1. /\ builder' \in Builders
        /\ terminated' \in BOOLEAN
    BY <1>1, <1>8 DEF build, Builders
  <2>2. CASE UNCHANGED server
    BY <1>1, <2>1, <2>2 DEF OwnershipInv, OwnershipTypeOK, AllSound
  <2>3. CASE /\ TcpFree(builder.m_tcpPort, server)
             /\ builder.m_isUdpOn => UdpFree(builder.m_udpPort, server)
             /\ server' = [server EXCEPT ![o] = Constructed(builder)]
    <3>1. Constructed(builder) \in Servers /\ Sound(Constructed(builder))
      BY <1>1, ConstructedSound
    <3>2. QED
      BY <2>1, <2>3, <3>1, OneServerChanges DEF OwnershipInv, OwnershipTypeOK
  <2>4. QED
    BY <1>8, <2>2, <2>3 DEF build
<1>9. ASSUME NEW o \in Objects, DefaultConstruct(o)
      PROVE  OwnershipInv'
  <2> DEFINE s == [m_tcpPort |-> DefaultTcpPort, m_udpPort |-> DefaultUdpPort,
                   m_isUdpOn |-> FALSE, m_tcpAcceptor |-> Closed, m_udpSocket |-> Closed,
                   m_keepRunning |-> FALSE, stopped |-> FALSE, joinable |-> FALSE,
                   m_resourceMap |-> FALSE, m_methodHandlers |-> FALSE]
  <2>1. s \in Servers /\ Sound(s)
    BY OwnershipAssumption DEF Servers, Sound
  <2>2. server' = [server EXCEPT ![o] = s] /\ UNCHANGED <<builder, terminated>>
    BY <1>9 DEF DefaultConstruct
  <2> HIDE DEF s
  <2>3. QED
    BY <1>1, <2>1, <2>2, OneServerChanges DEF OwnershipInv, OwnershipTypeOK
<1>10. ASSUME NEW o \in Objects, Start(o)
       PROVE  OwnershipInv'
  <2> DEFINE s == [server[o] EXCEPT !.m_keepRunning = TRUE, !.joinable = TRUE]
             u == [server[o] EXCEPT !.m_keepRunning = TRUE]
  <2>1. Holds(o) /\ server[o] \in Servers /\ Sound(server[o])
    BY <1>2, <1>10 DEF Start
  <2>2. /\ s \in Servers /\ Sound(s)
        /\ u \in Servers /\ Sound(u)
    BY <2>1 DEF Servers, Sound
  <2>3. /\ server' = [server EXCEPT ![o] = s] \/ server' = [server EXCEPT ![o] = u]
        /\ builder' \in Builders
        /\ terminated' \in BOOLEAN
    <3>1. server[o].joinable \in BOOLEAN
      BY <2>1 DEF Servers
    <3>2. /\ builder' \in Builders
          /\ terminated' \in BOOLEAN
      BY <1>1, <1>10, <3>1 DEF Start
    <3>3. server' = [server EXCEPT ![o] = s] \/ server' = [server EXCEPT ![o] = u]
      BY <1>1, <1>10 DEF Start
    <3>4. QED
      BY <3>2, <3>3
  <2> HIDE DEF s, u
  <2>4. QED
    BY <2>2, <2>3, OneServerChanges DEF OwnershipInv, OwnershipTypeOK
<1>11. ASSUME NEW o \in Objects, Shutdown(o)
       PROVE  OwnershipInv'
  <2> DEFINE s == ShutDown(server[o])
  <2>1. s \in Servers /\ Sound(s)
    BY <1>2, <1>11, ShutDownSound DEF Shutdown
  <2>2. server' = [server EXCEPT ![o] = s] /\ UNCHANGED <<builder, terminated>>
    BY <1>11 DEF Shutdown
  <2> HIDE DEF s
  <2>3. QED
    BY <1>1, <2>1, <2>2, OneServerChanges DEF OwnershipInv, OwnershipTypeOK
<1>12. ASSUME NEW o \in Objects, Destroy(o)
       PROVE  OwnershipInv'
  <2>1. server' = [server EXCEPT ![o] = NoServer] /\ UNCHANGED builder
    BY <1>12 DEF Destroy
  <2>2. terminated' \in BOOLEAN
    BY <1>12 DEF Destroy
  <2>3. QED
    BY <1>1, <2>1, <2>2, OneServerChanges DEF OwnershipInv, OwnershipTypeOK
<1>13. ASSUME NEW o \in Objects, NEW p \in Objects, MoveConstruct(o, p)
       PROVE  OwnershipInv'
  <2> DEFINE s == Taken(server[p])
             t == MovedFrom(server[p])
  <2>1. /\ o # p
        /\ Rebound(o, [server EXCEPT ![p] = t, ![o] = s])
        /\ server[p] \in Servers /\ Sound(server[p])
    BY <1>1, <1>2, <1>13 DEF MoveConstruct, Holds
  <2>2. BindPorts(s) \in Servers /\ Sound(BindPorts(s))
    BY <2>1, TakenSound
  <2>3. t \in Servers /\ Sound(t)
    BY <2>1, MovedFromSound
  <2> HIDE DEF s, t
  <2>4. QED
    BY <2>1, <2>2, <2>3, TwoServersChange
<1>14. ASSUME NEW o \in Objects, NEW p \in Objects, MoveAssign(o, p)
       PROVE  OwnershipInv'
  <2> DEFINE s == Assigned(server[o], server[p])
             t == MovedFrom(server[p])
  <2>1. /\ o # p
        /\ server[o] \in Servers /\ Sound(server[o])
        /\ server[p] \in Servers /\ Sound(server[p])
    BY <1>2, <1>14 DEF MoveAssign
  <2>2. Rebound(o, [server EXCEPT ![p] = t, ![o] = s])
    BY <1>1, <1>14, <2>1 DEF MoveAssign
  <2>3. BindPorts(s) \in Servers /\ Sound(BindPorts(s))
    BY <2>1, AssignedSound
  <2>4. t \in Servers /\ Sound(t)
    BY <2>1, MovedFromSound
  <2> HIDE DEF s, t
  <2>5. QED
    BY <2>1, <2>2, <2>3, <2>4, TwoServersChange
<1>15. CASE UNCHANGED ownershipVars
  BY <1>1, <1>15 DEF ownershipVars, OwnershipInv, OwnershipTypeOK, AllSound
<1>16. QED
  BY <1>4, <1>5, <1>6, <1>7, <1>8, <1>9, <1>10, <1>11, <1>12, <1>13, <1>14, <1>15
     DEF OwnershipNext

(* So it holds in every state.                                              *)
LEMMA OwnershipAlways == OwnershipSpec => []OwnershipInv
BY OwnershipInitInv, OwnershipStepInv, PTL DEF OwnershipSpec

(* Servers and Builder keep their types: in particular no move leaves an     *)
(* acceptor on a port that the kernel chose (webserver.cpp:65, 75, 92).      *)
THEOREM OwnershipTypeCorrect == OwnershipSpec => []OwnershipTypeOK
<1>1. OwnershipInv => OwnershipTypeOK
  BY DEF OwnershipInv
<1>2. QED
  BY <1>1, OwnershipAlways, PTL

(* However many servers are moved about, the destructor's test of            *)
(* m_keepRunning is enough (webserver.cpp:56).                               *)
THEOREM AlwaysDestructible == OwnershipSpec => []Destructible
<1>1. OwnershipInv => Destructible
  BY DEF OwnershipInv, Destructible, AllSound, Sound, Holds
<1>2. QED
  BY <1>1, OwnershipAlways, PTL

(* A server from the Builder, moved or not, listens on the ports it was      *)
(* given as long as its context can run (webserver.cpp:33, 46-48, 75-78).    *)
THEOREM AlwaysListens == OwnershipSpec => []ListensOnItsPort
<1>1. OwnershipInv => ListensOnItsPort
  BY DEF OwnershipInv, ListensOnItsPort, AllSound, Sound, Holds
<1>2. QED
  BY <1>1, OwnershipAlways, PTL

(* A move that ends the program found a third server in its way.             *)
InTheWay(q, p) ==
    /\ Holds(q)
    /\ \/ server[q].m_tcpAcceptor = server[p].m_tcpPort
       \/ server[q].m_udpSocket = server[p].m_udpPort

(* A server with its sockets closed.                                         *)
Unbound(s) == [s EXCEPT !.m_tcpAcceptor = Closed, !.m_udpSocket = Closed]

(* A move that terminates the program has met the port of a third server.    *)
LEMMA ThirdServerInTheWay ==
    ASSUME OwnershipInv, ~terminated, terminated',
           NEW o \in Objects, NEW p \in Objects, o # p, server[p] \in Servers,
           NEW s, NEW t,
           s.m_tcpPort = server[p].m_tcpPort, s.m_udpPort = server[p].m_udpPort,
           Unbound(s).m_tcpAcceptor = Closed, Unbound(s).m_udpSocket = Closed,
           t.m_tcpAcceptor = Closed, t.m_udpSocket = Closed,
           Rebound(o, [server EXCEPT ![p] = t, ![o] = s])
    PROVE  \E q \in Objects \ {o, p} : InTheWay(q, p)
<1> DEFINE servers == [server EXCEPT ![p] = t, ![o] = s]
           others == [servers EXCEPT ![o].m_tcpAcceptor = Closed, ![o].m_udpSocket = Closed]
<1>1. server \in [Objects -> Servers \cup {NoServer}]
  BY DEF OwnershipInv, OwnershipTypeOK
<1>2. /\ servers[o] = s
      /\ others[o] = Unbound(s) /\ others[p] = t
      /\ \A q \in Objects \ {o, p} : others[q] = server[q]
  BY <1>1 DEF Unbound
<1>3. ~ /\ TcpFree(s.m_tcpPort, others)
        /\ UdpFree(s.m_udpPort, others)
  BY <1>2 DEF Rebound
<1>4. PICK q \in Objects :
         /\ others[q] # NoServer
         /\ \/ others[q].m_tcpAcceptor = s.m_tcpPort
            \/ others[q].m_udpSocket = s.m_udpPort
  BY <1>3 DEF TcpFree, UdpFree
<1>5. s.m_tcpPort # Closed /\ s.m_udpPort # Closed
  BY OwnershipAssumption DEF Servers
<1>6. q \in Objects \ {o, p}
  BY <1>2, <1>4, <1>5
<1>7. QED
  BY <1>2, <1>4, <1>6 DEF InTheWay, Holds

(* By the time a move binds ports, the two servers of the move hold none:    *)
(* only a third server can be in the way (webserver.cpp:73, 85-86).          *)
THEOREM MovesAlwaysReleasePorts == OwnershipSpec => MovesReleasePorts
<1> DEFINE Released ==
        \A o, p \in Objects :
          (MoveConstruct(o, p) \/ MoveAssign(o, p)) /\ terminated' =>
              \E q \in Objects \ {o, p} :
                 /\ Holds(q)
                 /\ \/ server[q].m_tcpAcceptor = server[p].m_tcpPort
                    \/ server[q].m_udpSocket = server[p].m_udpPort
<1>1. ASSUME OwnershipInv, OwnershipNext, ~terminated
      PROVE  Released
  <2> SUFFICES ASSUME NEW o \in Objects, NEW p \in Objects,
                      MoveConstruct(o, p) \/ MoveAssign(o, p), terminated'
               PROVE  \E q \in Objects \ {o, p} : InTheWay(q, p)
    BY DEF InTheWay
  <2>1. /\ server \in [Objects -> Servers \cup {NoServer}]
        /\ o # p /\ server[p] \in Servers
    BY <1>1 DEF OwnershipInv, OwnershipTypeOK, MoveConstruct, MoveAssign, Holds
  <2>2. MovedFrom(server[p]).m_tcpAcceptor = Closed
        /\ MovedFrom(server[p]).m_udpSocket = Closed
    BY <2>1 DEF Servers, MovedFrom, ShutDown
  <2>3. CASE MoveConstruct(o, p)
    <3> DEFINE s == Taken(server[p])
               t == MovedFrom(server[p])
    <3>1. Rebound(o, [server EXCEPT ![p] = t, ![o] = s])
      BY <2>1, <2>3 DEF MoveConstruct
    <3>2. /\ s.m_tcpPort = server[p].m_tcpPort /\ s.m_udpPort = server[p].m_udpPort
          /\ Unbound(s).m_tcpAcceptor = Closed /\ Unbound(s).m_udpSocket = Closed
      BY <2>1 DEF Servers, Taken, Unbound
    <3> HIDE DEF s, t
    <3>3. QED
      BY <1>1, <2>1, <2>2, <3>1, <3>2, ThirdServerInTheWay DEF t
  <2>4. CASE MoveAssign(o, p)
    <3> DEFINE s == Assigned(server[o], server[p])
               t == MovedFrom(server[p])
    <3>1. server[o] \in Servers
      BY <2>1, <2>4 DEF MoveAssign, Holds
    <3>2. Rebound(o, [server EXCEPT ![p] = t, ![o] = s])
      BY <2>1, <2>4 DEF MoveAssign
    <3>3. ShutDown(server[o]) \in Servers
      BY <3>1 DEF Servers, ShutDown
    <3>4. /\ s.m_tcpPort = server[p].m_tcpPort /\ s.m_udpPort = server[p].m_udpPort
          /\ Unbound(s).m_tcpAcceptor = Closed /\ Unbound(s).m_udpSocket = Closed
      BY <3>3 DEF Servers, Assigned, Unbound
    <3> HIDE DEF s, t
    <3>5. QED
      BY <1>1, <2>1, <2>2, <3>2, <3>4, ThirdServerInTheWay DEF t
  <2>5. QED
    BY <2>3, <2>4
<1>2. OwnershipInv /\ [OwnershipNext]_ownershipVars => [Released]_ownershipVars
  <2>1. terminated /\ OwnershipNext => UNCHANGED ownershipVars
    BY DEF OwnershipNext
  <2>2. QED
    BY <1>1, <2>1
<1>3. QED
  BY <1>2, OwnershipAlways, PTL DEF OwnershipSpec, MovesReleasePorts

(* Resources never arrive without the method handlers (webserver.cpp:70,     *)
(* 96-97).                                                                   *)
THEOREM ResourcesAlwaysHaveHandlers == OwnershipSpec => []ResourcesHaveHandlers
<1>1. OwnershipInv => ResourcesHaveHandlers
  BY DEF OwnershipInv, ResourcesHaveHandlers, AllSound, Sound, Holds
<1>2. QED
  BY <1>1, OwnershipAlways, PTL
=============================================================================
