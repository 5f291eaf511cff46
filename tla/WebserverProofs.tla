--------------------------- MODULE WebserverProofs ---------------------------
(***************************************************************************)
(* The server with its network takes the steps of module Lifecycle only,   *)
(* so what is proved of Lifecycle holds of it.  The types of the network's *)
(* variables, and that UDP replies go to the senders of the requests.      *)
(***************************************************************************)
EXTENDS Webserver, LifecycleProofs

(* Every step of the server is a step of Lifecycle, or leaves it alone.      *)
LEMMA StepIsLifecycle ==
    [WebserverNext]_webserverVars => [LifecycleNext]_lifecycleVars
<1> SUFFICES ASSUME [WebserverNext]_webserverVars PROVE [LifecycleNext]_lifecycleVars
    OBVIOUS
<1>1. CASE UNCHANGED webserverVars
  BY <1>1 DEF webserverVars
<1>2. CASE Network
  BY <1>2 DEF Network, Connect, SendSegment, HangUp, SendDatagram
<1>3. CASE \/ UdpDeliver
           \/ \E p \in Peers : UdpSendLater(p)
           \/ \E c \in Clients : WriteMore(c)
  BY <1>3 DEF UdpDeliver, UdpSendLater, WriteMore
<1>4. CASE Done
  BY <1>4 DEF LifecycleNext
<1>5. ASSUME ~ crashed, NEW t \in Threads, OwnerStep(t) \/ Call(t)
      PROVE  LifecycleNext
  BY <1>5
  DEF OwnerStep, ShutdownStep, CloseTcp, CloseUdp, StartUdp, DestroySockets,
      LifecycleNext, ThreadStep, Shutdown
<1>6. ASSUME ~ crashed, HandlerStep PROVE LifecycleNext
  BY <1>6
  DEF HandlerStep, TcpReply, UdpReply, UdpNext, ShutdownStep, CloseTcp, CloseUdp,
      LifecycleNext, IoStep, Shutdown
<1>7. ASSUME ~ crashed,
             RenderShutdown \/ HandlerFails \/ UdpReceived \/ UdpError \/ AcceptError
      PROVE  LifecycleNext
  BY <1>7 DEF UdpReceived, UdpError, AcceptError, LifecycleNext, IoEvent
<1>8. ASSUME ~ crashed, NEW c \in Clients,
             AcceptClient(c) \/ ReadDone(c) \/ ReadError(c) \/ WriteDone(c)
      PROVE  LifecycleNext
  BY <1>8 DEF AcceptClient, ReadDone, ReadError, WriteDone, LifecycleNext, IoEvent
<1> QED
  BY <1>1, <1>2, <1>3, <1>4, <1>5, <1>6, <1>7, <1>8 DEF WebserverNext

(* The server with its network implements Lifecycle.                         *)
THEOREM WebserverIsLifecycle == WebserverSpec => LifecycleSpec
<1>1. WebserverInit => LifecycleInit
  BY DEF WebserverInit
<1> QED
  BY <1>1, StepIsLifecycle, PTL DEF WebserverSpec, LifecycleSpec

-----------------------------------------------------------------------------
(* WebserverTypeOK but for TypeOK, in three parts.                           *)
ConnectionsOK ==
    /\ conn \in [Clients -> {"out", "backlog", "done", "closed"} \cup Accepted]
    /\ sent \in [Clients -> 0..Segments]
    /\ got \in [Clients -> 0..BufferSize]
    /\ hungUp \subseteq Clients
    /\ written \in [Clients -> 0..Chunks]
    /\ descriptors \in 1..MaxDescriptors
    /\ client \in Clients \cup {NoClient}

(* The types of the datagrams.                                               *)
DatagramsOK ==
    /\ socketQueue \in Seq(Peers)
    /\ {m_remoteEndpoint, buffer, asker} \subseteq Peers \cup {NoPeer}
    /\ asked \in [Peers -> 0..MaxDatagrams]
    /\ replied \in [Peers -> Nat]
    /\ unsent \in [Peers -> Nat]

(* The type of stale.                                                        *)
StaleOK == stale \subseteq Clients \cup Peers

(* The parts make up the type invariant, in a state and in the next.         *)
LEMMA NetTypeParts ==
    WebserverTypeOK <=> TypeOK /\ ConnectionsOK /\ DatagramsOK /\ StaleOK
BY DEF WebserverTypeOK, ConnectionsOK, DatagramsOK, StaleOK

(* The same in the next state.                                               *)
LEMMA NetTypePartsNext ==
    WebserverTypeOK' <=> TypeOK' /\ ConnectionsOK' /\ DatagramsOK' /\ StaleOK'
BY DEF WebserverTypeOK, ConnectionsOK, DatagramsOK, StaleOK

(* The network begins typed.                                                 *)
LEMMA NetTypeInit ==
    WebserverInit => ConnectionsOK /\ DatagramsOK /\ StaleOK
BY WebserverAssumption DEF WebserverInit, ConnectionsOK, DatagramsOK, StaleOK

(* Every step leaves the connections typed.                                  *)
LEMMA ConnectionsStep ==
    ConnectionsOK /\ [WebserverNext]_webserverVars => ConnectionsOK'
<1> SUFFICES ASSUME ConnectionsOK, [WebserverNext]_webserverVars PROVE ConnectionsOK'
    OBVIOUS
<1> USE WebserverAssumption DEF ConnectionsOK, Accepted, tcpVars, netVars
<1>1. CASE UNCHANGED webserverVars
  BY <1>1 DEF webserverVars
<1>2. ASSUME NEW c \in Clients, Connect(c) \/ SendSegment(c) \/ HangUp(c)
      PROVE  ConnectionsOK'
  <2>1. CASE Connect(c)
    BY <2>1 DEF Connect
  <2>2. CASE SendSegment(c)
    BY <2>2 DEF SendSegment
  <2>3. CASE HangUp(c)
    BY <2>3 DEF HangUp
  <2> QED
    BY <1>2, <2>1, <2>2, <2>3
<1>3. ASSUME NEW p \in Peers, SendDatagram(p) \/ UdpSendLater(p) PROVE ConnectionsOK'
  BY <1>3 DEF SendDatagram, UdpSendLater
<1>4. CASE UdpDeliver \/ UdpReceived \/ UdpError \/ UdpReply \/ UdpNext
  BY <1>4 DEF UdpDeliver, UdpReceived, UdpError, UdpReply, UdpNext
<1>5. CASE AcceptError \/ UNCHANGED netVars
  BY <1>5 DEF AcceptError
<1>6. CASE TcpReply
  <2>1. client \in Clients => 1 \in 0..Chunks
    OBVIOUS
  <2> QED
    BY <1>6, <2>1 DEF TcpReply
<1>7. ASSUME NEW c \in Clients,
             AcceptClient(c) \/ ReadDone(c) \/ ReadError(c) \/ WriteMore(c) \/ WriteDone(c)
      PROVE  ConnectionsOK'
  <2>1. CASE AcceptClient(c)
    BY <2>1 DEF AcceptClient
  <2>2. CASE ReadDone(c)
    <3>1. PICK n \in 1..BufferSize : got' = [got EXCEPT ![c] = n]
      BY <2>2 DEF ReadDone
    <3> QED
      BY <2>2, <3>1 DEF ReadDone
  <2>3. CASE ReadError(c)
    BY <2>3 DEF ReadError
  <2>4. CASE WriteMore(c)
    BY <2>4 DEF WriteMore
  <2>5. CASE WriteDone(c)
    BY <2>5 DEF WriteDone
  <2> QED
    BY <1>7, <2>1, <2>2, <2>3, <2>4, <2>5
<1>8. ASSUME NEW p \in Procs, ShutdownStep(p) PROVE ConnectionsOK'
  BY <1>8 DEF ShutdownStep, CloseTcp, CloseUdp
<1>9. ASSUME NEW t \in Threads, StartUdp(t) \/ DestroySockets(t) PROVE ConnectionsOK'
  <2>1. CASE StartUdp(t)
    BY <2>1 DEF StartUdp
  <2>2. CASE DestroySockets(t)
    BY <2>2 DEF DestroySockets
  <2> QED
    BY <1>9, <2>1, <2>2
<1> QED
  BY <1>1, <1>2, <1>3, <1>4, <1>5, <1>6, <1>7, <1>8, <1>9
  DEF WebserverNext, Network, HandlerStep, OwnerStep, Procs

(* A datagram that is taken leaves the endpoints typed.                      *)
LEMMA DeliverTyped ==
    ASSUME DatagramsOK, Deliver
    PROVE  /\ socketQueue' \in Seq(Peers)
           /\ buffer' \in Peers /\ m_remoteEndpoint' \in Peers
BY DEF DatagramsOK, Deliver

(* Counting one more for a member of a set, or for something outside it.     *)
LEMMA CountsUp ==
    ASSUME NEW S, NEW count \in [S -> Nat], NEW x
    PROVE  [count EXCEPT ![x] = @ + 1] \in [S -> Nat]
<1>1. \A y \in S : count[y] + 1 \in Nat
  OBVIOUS
<1> QED
  BY <1>1

(* Counting up to a bound.                                                   *)
LEMMA CountsTo ==
    ASSUME NEW S, NEW bound \in Nat, NEW count \in [S -> 0..bound], NEW x \in S,
           count[x] < bound
    PROVE  [count EXCEPT ![x] = @ + 1] \in [S -> 0..bound]
OBVIOUS

(* Counting down what is not zero.                                           *)
LEMMA CountsDown ==
    ASSUME NEW S, NEW count \in [S -> Nat], NEW x \in S, count[x] > 0
    PROVE  [count EXCEPT ![x] = @ - 1] \in [S -> Nat]
OBVIOUS

(* Every step leaves the datagrams typed.                                    *)
LEMMA DatagramsStep ==
    DatagramsOK /\ [WebserverNext]_webserverVars => DatagramsOK'
<1> SUFFICES ASSUME DatagramsOK, [WebserverNext]_webserverVars PROVE DatagramsOK'
    OBVIOUS
<1> USE WebserverAssumption DEF DatagramsOK, udpVars, netVars
<1>1. CASE UNCHANGED webserverVars
  BY <1>1 DEF webserverVars
<1>2. CASE UNCHANGED udpVars
  BY <1>2
<1>3. ASSUME NEW p \in Peers, SendDatagram(p) \/ UdpSendLater(p) PROVE DatagramsOK'
  <2>1. CASE SendDatagram(p)
    <3>1. Append(socketQueue, p) \in Seq(Peers)
      BY DEF DatagramsOK
    <3>2. [asked EXCEPT ![p] = @ + 1] \in [Peers -> 0..MaxDatagrams]
      BY <2>1, CountsTo DEF SendDatagram
    <3> QED
      BY <2>1, <3>1, <3>2 DEF SendDatagram
  <2>2. CASE UdpSendLater(p)
    <3>1. [unsent EXCEPT ![p] = @ - 1] \in [Peers -> Nat]
      BY <2>2, CountsDown DEF UdpSendLater
    <3>2. [replied EXCEPT ![p] = @ + 1] \in [Peers -> Nat]
      BY CountsUp
    <3> QED
      BY <2>2, <3>1, <3>2 DEF UdpSendLater
  <2> QED
    BY <1>3, <2>1, <2>2
<1>4. CASE UdpDeliver
  BY <1>4, DeliverTyped DEF UdpDeliver
<1>5. CASE UdpReceived
  BY <1>5 DEF UdpReceived
<1>6. CASE UdpReply
  <2>1. [replied EXCEPT ![m_remoteEndpoint] = @ + 1] \in [Peers -> Nat]
    BY CountsUp
  <2>2. [unsent EXCEPT ![m_remoteEndpoint] = @ + 1] \in [Peers -> Nat]
    BY CountsUp
  <2> QED
    BY <1>6, <2>1, <2>2 DEF UdpReply
<1>7. CASE UdpNext
  BY <1>7, DeliverTyped DEF UdpNext, ReceiveStarts
<1>8. ASSUME NEW p \in Procs, CloseUdp(p) PROVE DatagramsOK'
  BY <1>8 DEF CloseUdp
<1>9. ASSUME NEW t \in Threads, StartUdp(t) \/ DestroySockets(t) PROVE DatagramsOK'
  <2>1. CASE StartUdp(t)
    BY <2>1, DeliverTyped DEF StartUdp, ReceiveStarts
  <2>2. CASE DestroySockets(t)
    <3>1. CASE UNCHANGED udpVars
      BY <3>1, <1>2
    <3>2. CASE /\ socketQueue' = <<>> /\ buffer' = NoPeer
               /\ unsent' = [p \in Peers |-> 0]
               /\ UNCHANGED <<m_remoteEndpoint, asker, asked, replied>>
      BY <3>2
    <3> QED
      BY <2>2, <3>1, <3>2 DEF DestroySockets
  <2> QED
    BY <1>9, <2>1, <2>2
<1>10. ASSUME NEW c \in Clients,
              \/ Connect(c) \/ SendSegment(c) \/ HangUp(c) \/ AcceptClient(c)
              \/ ReadDone(c) \/ ReadError(c) \/ WriteMore(c) \/ WriteDone(c)
       PROVE  UNCHANGED udpVars
  BY <1>10
  DEF Connect, SendSegment, HangUp, AcceptClient, ReadDone, ReadError, WriteMore, WriteDone
<1>11. CASE UdpError \/ AcceptError \/ TcpReply \/ \E p \in Procs : CloseTcp(p)
  BY <1>11, <1>2 DEF UdpError, AcceptError, TcpReply, CloseTcp
<1> QED
  BY <1>1, <1>2, <1>3, <1>4, <1>5, <1>6, <1>7, <1>8, <1>9, <1>10, <1>11
  DEF WebserverNext, Network, HandlerStep, OwnerStep, ShutdownStep, Procs

(* Every step leaves stale typed.                                            *)
LEMMA StaleStep == StaleOK /\ [WebserverNext]_webserverVars => StaleOK'
<1> SUFFICES ASSUME StaleOK, [WebserverNext]_webserverVars PROVE StaleOK'
    OBVIOUS
<1>1. CASE \/ \E p \in Peers : UdpSendLater(p)
           \/ \E c \in Clients : WriteMore(c)
  BY <1>1 DEF UdpSendLater, WriteMore, StaleOK
<1>2. CASE UNCHANGED stale
  BY <1>2 DEF StaleOK
<1>3. ASSUME NEW c \in Clients,
             \/ Connect(c) \/ SendSegment(c) \/ HangUp(c) \/ AcceptClient(c)
             \/ ReadDone(c) \/ ReadError(c) \/ WriteDone(c)
      PROVE  UNCHANGED stale
  BY <1>3
  DEF Connect, SendSegment, HangUp, AcceptClient, ReadDone, ReadError, WriteDone
<1>4. ASSUME NEW p \in Procs, ShutdownStep(p) PROVE UNCHANGED stale
  BY <1>4 DEF ShutdownStep, CloseTcp, CloseUdp, netVars
<1>5. ASSUME NEW t \in Threads, OwnerStep(t) PROVE UNCHANGED stale
  BY <1>5, <1>4 DEF OwnerStep, StartUdp, DestroySockets, netVars, Procs
<1>6. CASE HandlerStep
  BY <1>6, <1>4, <1>2 DEF HandlerStep, TcpReply, UdpReply, UdpNext, netVars, Procs
<1>7. CASE \/ \E p \in Peers : SendDatagram(p)
           \/ UdpDeliver \/ UdpReceived \/ UdpError \/ AcceptError
           \/ UNCHANGED netVars \/ UNCHANGED webserverVars
  BY <1>7, <1>2
  DEF SendDatagram, UdpDeliver, UdpReceived, UdpError, AcceptError, netVars, webserverVars
<1> QED
  BY <1>1, <1>2, <1>3, <1>5, <1>6, <1>7 DEF WebserverNext, Network

(* The variables of the network keep their types too.                        *)
THEOREM WebserverTypeCorrect == WebserverSpec => []WebserverTypeOK
<1>1. WebserverInit => WebserverTypeOK
  BY TypeInit, NetTypeInit, NetTypeParts DEF WebserverInit
<1>2. WebserverTypeOK /\ [WebserverNext]_webserverVars => WebserverTypeOK'
  BY StepIsLifecycle, TypeParts, TypePartsNext, PcStep, DataStep,
     ConnectionsStep, DatagramsStep, StaleStep, NetTypeParts, NetTypePartsNext
<1> QED
  BY <1>1, <1>2, PTL DEF WebserverSpec

-----------------------------------------------------------------------------
(* Why a UDP reply goes to its sender.  A request is being answered only     *)
(* inside its handler, a shutdown() that the handler calls included; the     *)
(* endpoint is that of the datagram in the buffer.                           *)
AskerInHandler ==
    asker # NoPeer =>
        \/ pc[Io] \in {"udp", "udpSend"}
        \/ pc[Io] \in ShutdownLabels /\ resume = "udpSend"

(* m_remoteEndpoint names the sender of what is in the buffer.               *)
EndpointOfBuffer == buffer # NoPeer => m_remoteEndpoint = buffer

(* A closed socket holds no datagrams, and a handler's own shutdown() closes *)
(* it, so that a start() beside the rest of that handler receives nothing.   *)
ClosedIsEmpty == ~udpOpen => socketQueue = <<>>

(* A handler that called shutdown() leaves the socket closed.                *)
SelfShutdownCloses ==
    selfShutdown => ~udpOpen \/ pc[Io] \in {"clear", "stop", "closeTcp", "closeUdp"}

(* The inductive invariant.                                                  *)
UdpInv ==
    /\ AskerInHandler /\ EndpointOfBuffer /\ ClosedIsEmpty /\ SelfShutdownCloses
    /\ UdpReplyToSender

(* A start() that arms a receive while a request is being answered finds the *)
(* socket closed, if calls do not overlap.                                   *)
LEMMA ArmsNoSecond ==
    ASSUME IInv, AskerInHandler, SelfShutdownCloses, ~ overlapped, asker # NoPeer,
           NEW t \in Threads, pc[t] = "armUdp"
    PROVE  ~ udpOpen
<1>1. t \in Procs /\ Io \in Procs /\ t # Io /\ Threads \subseteq Procs
  BY LifecycleAssumption DEF Procs
<1>2. InCall(t)
  BY DEF InCall, StartLabels
<1>3. \A q \in Procs : InCall(q) => q = t
  BY <1>1, <1>2 DEF IInv, Alone
<1>4. pc[Io] \notin ShutdownLabels
  BY <1>1, <1>3 DEF InCall
<1>5. CASE selfShutdown
  BY <1>4, <1>5 DEF SelfShutdownCloses, ShutdownLabels
<1>6. CASE ~ selfShutdown
  <2>1. ~ joinable
    BY <1>6 DEF IInv, FlagTellsThread, Orderly
  <2>2. IoLive
    BY <1>4 DEF AskerInHandler, IoLive
  <2>3. PICK q \in Threads : pc[q] = "assign"
    BY <2>1, <2>2 DEF IInv, ThreadIsOwned
  <2>4. q = t
    BY <1>1, <1>3, <2>3 DEF InCall, StartLabels
  <2> QED
    BY <2>3, <2>4
<1> QED
  BY <1>5, <1>6

(* What a step does that concerns none of UdpInv.                            *)
UdpAside ==
    /\ UNCHANGED <<asker, buffer, m_remoteEndpoint, socketQueue, resume, udpOpen, selfShutdown>>
    /\ pc'[Io] = pc[Io]
    /\ overlapped => overlapped'

(* Steps that concern UDP in no way keep UdpInv.                             *)
LEMMA AsideStep == UdpInv /\ UdpAside => UdpInv'
BY DEF UdpInv, UdpAside, AskerInHandler, EndpointOfBuffer, ClosedIsEmpty, SelfShutdownCloses,
       UdpReplyToSender

(* The steps of application threads.                                         *)
LEMMA OwnerUdp ==
    ASSUME IInv, UdpInv, ~ crashed, NEW t \in Threads,
           OwnerStep(t) \/ (Call(t) /\ UNCHANGED netVars)
    PROVE  UdpInv'
<1>1. PcOK /\ t \in Procs /\ Io \in Procs /\ t # Io
  BY LifecycleAssumption, TypeParts DEF IInv, Procs
<1> USE <1>1 DEF members, ops, history, netVars, udpVars
<1>2. CASE Call(t) /\ UNCHANGED netVars
  BY <1>2, Moves, AsideStep DEF Call, CallStart, CallShutdown, CallDestroy, Enter, UdpAside
<1>3. CASE /\ \/ StartCheck(t) \/ StartSet(t) \/ StartArmTcp(t) \/ StartAssign(t)
              \/ DestroyCheck(t) \/ ShutdownClear(t) \/ ShutdownStop(t)
              \/ ShutdownTest(t) \/ ShutdownJoin(t)
           /\ UNCHANGED netVars
  BY <1>3, Moves, AsideStep
  DEF StartCheck, StartSet, StartArmTcp, acceptTcpConnection, StartAssign, DestroyCheck,
      ShutdownClear, ShutdownStop, ShutdownTest, ShutdownJoin, Crash, UdpAside
<1>4. CASE StartSpawn(t) /\ UNCHANGED netVars
  <2>1. CASE ~ IoLive /\ pc' = [pc EXCEPT ![t] = "assign", ![Io] = "run"]
    <3>1. pc'[Io] = "run" /\ asker = NoPeer
      BY <2>1 DEF PcOK, UdpInv, AskerInHandler, IoLive, ShutdownLabels
    <3>2. selfShutdown => ~ udpOpen
      BY <2>1 DEF UdpInv, SelfShutdownCloses, IoLive
    <3>3. UNCHANGED <<resume, udpOpen, selfShutdown, overlapped>>
      BY <1>4, <2>1 DEF StartSpawn, Crash
    <3> QED
      BY <1>4, <3>1, <3>2, <3>3
      DEF UdpInv, AskerInHandler, EndpointOfBuffer, ClosedIsEmpty, SelfShutdownCloses,
          UdpReplyToSender
  <2>2. CASE UdpAside
    BY <2>2, AsideStep
  <2> QED
    BY <1>4, <2>1, <2>2, Moves DEF StartSpawn, Crash, UdpAside
<1>5. CASE StartUdp(t)
  <2>1. /\ pc[t] = "armUdp" /\ pc'[Io] = pc[Io]
        /\ UNCHANGED <<resume, udpOpen, selfShutdown, overlapped, asker>>
    BY <1>5, Moves DEF StartUdp, StartArmUdp, At
  <2>2. CASE UNCHANGED <<socketQueue, buffer, m_remoteEndpoint>>
    BY <2>1, <2>2, AsideStep DEF UdpAside
  <2>3. CASE Deliver
    <3>1. buffer' = m_remoteEndpoint' /\ socketQueue # <<>>
      BY <2>3 DEF Deliver
    <3>2. ~ overlapped => asker = NoPeer
      BY <2>1, <3>1, ArmsNoSecond DEF UdpInv, ClosedIsEmpty
    <3>3. udpOpen
      BY <3>1 DEF UdpInv, ClosedIsEmpty
    <3> QED
      BY <2>1, <3>1, <3>2, <3>3
      DEF UdpInv, AskerInHandler, EndpointOfBuffer, ClosedIsEmpty, SelfShutdownCloses,
          UdpReplyToSender
  <2> QED
    BY <1>5, <2>2, <2>3 DEF StartUdp, ReceiveStarts
<1>6. CASE CloseTcp(t)
  BY <1>6, Moves, AsideStep DEF CloseTcp, ShutdownCloseTcp, UdpAside
<1>7. CASE CloseUdp(t)
  <2>1. pc'[Io] = pc[Io] /\ ~ udpOpen' /\ UNCHANGED <<resume, selfShutdown, overlapped>>
    BY <1>7, Moves DEF CloseUdp, ShutdownCloseUdp
  <2> QED
    BY <1>7, <2>1
    DEF CloseUdp, UdpInv, AskerInHandler, EndpointOfBuffer, ClosedIsEmpty, SelfShutdownCloses,
        UdpReplyToSender
<1>8. CASE DestroySockets(t)
  <2>1. CASE crashed'
    <3>1. Crash
      BY <1>8, <2>1 DEF DestroySockets, DestroyMembers
    <3>2. UNCHANGED udpVars
      BY <1>8, <2>1 DEF DestroySockets
    <3> QED
      BY <3>1, <3>2, AsideStep DEF Crash, UdpAside
  <2>2. CASE ~ crashed'
    <3>1. ~ udpOpen' /\ pc'[Io] = pc[Io] /\ UNCHANGED <<resume, selfShutdown, overlapped>>
      BY <1>8, <2>2, Moves DEF DestroySockets, DestroyMembers, Crash
    <3> QED
      BY <1>8, <2>2, <3>1
      DEF DestroySockets, UdpInv, AskerInHandler, EndpointOfBuffer, ClosedIsEmpty,
          SelfShutdownCloses, UdpReplyToSender
  <2> QED
    BY <2>1, <2>2
<1> QED
  BY <1>2, <1>3, <1>4, <1>5, <1>6, <1>7, <1>8 DEF OwnerStep, ShutdownStep

(* The steps of the Io thread in a handler.                                  *)
LEMMA HandlerUdp == IInv /\ UdpInv /\ HandlerStep => UdpInv'
<1> SUFFICES ASSUME IInv, UdpInv, HandlerStep PROVE UdpInv'
    OBVIOUS
<1>1. PcOK /\ Io \in Procs
  BY TypeParts DEF IInv, Procs
<1> USE <1>1
    DEF members, ops, history, netVars, udpVars, At, UdpInv, AskerInHandler, EndpointOfBuffer,
        ClosedIsEmpty, SelfShutdownCloses, UdpReplyToSender, ShutdownLabels
<1>2. CASE (IoExit \/ AcceptCheck \/ AcceptRearm) /\ UNCHANGED netVars
  BY <1>2, Moves DEF IoExit, AcceptCheck, AcceptRearm, acceptTcpConnection
<1>3. CASE RenderReturn /\ UNCHANGED netVars
  BY <1>3, Moves DEF RenderReturn
<1>4. CASE TcpReply
  BY <1>4, Moves DEF TcpReply, TcpSend
<1>5. CASE UdpReply
  BY <1>5, Moves DEF UdpReply, UdpSend
<1>6. CASE UdpNext
  <2>1. pc[Io] = "udpRearm" /\ pc'[Io] = "run" /\ asker = NoPeer
        /\ UNCHANGED <<resume, udpOpen, selfShutdown, overlapped, asker>>
    BY <1>6, Moves DEF UdpNext, UdpRearm
  <2> QED
    BY <1>6, <2>1 DEF UdpNext, ReceiveStarts, Deliver
<1>7. CASE ShutdownStep(Io)
  <2>1. CASE (ShutdownClear(Io) \/ ShutdownStop(Io)) /\ UNCHANGED netVars
    BY <2>1, Moves DEF ShutdownClear, ShutdownStop
  <2>2. CASE (ShutdownTest(Io) \/ ShutdownJoin(Io)) /\ UNCHANGED netVars
    BY <2>2, Moves DEF ShutdownTest, ShutdownJoin, Return, Crash, PcOK
  <2>3. CASE CloseTcp(Io)
    BY <2>3, Moves DEF CloseTcp, ShutdownCloseTcp
  <2>4. CASE CloseUdp(Io)
    BY <2>4, Moves DEF CloseUdp, ShutdownCloseUdp
  <2> QED
    BY <1>7, <2>1, <2>2, <2>3, <2>4 DEF ShutdownStep
<1> QED
  BY <1>2, <1>3, <1>4, <1>5, <1>6, <1>7 DEF HandlerStep

(* What happens to run(), and on the network.                                *)
LEMMA EventUdp ==
    ASSUME IInv, UdpInv,
           \/ (RenderShutdown \/ HandlerFails) /\ UNCHANGED netVars
           \/ UdpDeliver \/ UdpReceived \/ UdpError \/ AcceptError
           \/ \E p \in Peers : UdpSendLater(p)
           \/ \E c \in Clients :
                 AcceptClient(c) \/ ReadDone(c) \/ ReadError(c) \/ WriteMore(c) \/ WriteDone(c)
           \/ Network
    PROVE  UdpInv'
<1>1. PcOK /\ Io \in Procs
  BY TypeParts DEF IInv, Procs
<1> USE <1>1 DEF members, ops, history, netVars, udpVars, lifecycleVars, At
<1>2. CASE (RenderShutdown \/ HandlerFails) /\ UNCHANGED netVars
  <2>1. CASE RenderShutdown
    BY <1>2, <2>1, Moves
    DEF RenderShutdown, UdpInv, AskerInHandler, EndpointOfBuffer, ClosedIsEmpty,
        SelfShutdownCloses, UdpReplyToSender, ShutdownLabels
  <2>2. CASE HandlerFails
    BY <1>2, <2>2
    DEF HandlerFails, UdpInv, AskerInHandler, EndpointOfBuffer, ClosedIsEmpty,
        SelfShutdownCloses, UdpReplyToSender
  <2> QED
    BY <1>2, <2>1, <2>2
<1>3. CASE UdpDeliver
  <2>1. socketQueue # <<>> /\ asker = NoPeer
    BY <1>3 DEF UdpDeliver, Deliver, UdpInv, AskerInHandler, ShutdownLabels
  <2> QED
    BY <1>3, <2>1
    DEF UdpDeliver, Deliver, UdpInv, AskerInHandler, EndpointOfBuffer, ClosedIsEmpty,
        SelfShutdownCloses, UdpReplyToSender
<1>4. CASE UdpReceived
  <2>1. pc[Io] = "run" /\ pc'[Io] = "udp" /\ asker' = m_remoteEndpoint
    BY <1>4 DEF UdpReceived, IoReceive, IoDispatch, UdpInv, EndpointOfBuffer
  <2>2. UNCHANGED <<resume, udpOpen, selfShutdown, overlapped>>
    BY <1>4 DEF UdpReceived, IoReceive, IoDispatch
  <2> QED
    BY <1>4, <2>1, <2>2
    DEF UdpReceived, UdpInv, AskerInHandler, EndpointOfBuffer, ClosedIsEmpty,
        SelfShutdownCloses, UdpReplyToSender
<1>5. ASSUME IoDispatch("accepted") \/ IoDispatch("udpRearm") \/ IoDispatch("tcp")
             \/ IoDispatch("run"),
             UNCHANGED udpVars
      PROVE  UdpInv'
  BY <1>5, Moves
  DEF IoDispatch, UdpInv, AskerInHandler, EndpointOfBuffer, ClosedIsEmpty,
      SelfShutdownCloses, UdpReplyToSender, ShutdownLabels
<1>6. CASE UdpError
  <2>1. IoDispatch("udpRearm")
    BY <1>6, Moves DEF UdpError, IoReceive, IoDispatch
  <2> QED
    BY <1>6, <2>1, <1>5 DEF UdpError
<1>7. CASE AcceptError
  BY <1>7, <1>5 DEF AcceptError, IoAccept
<1>8. ASSUME NEW c \in Clients, AcceptClient(c) \/ ReadDone(c) \/ ReadError(c) \/ WriteDone(c)
      PROVE  UdpInv'
  BY <1>8, <1>5 DEF AcceptClient, ReadDone, ReadError, WriteDone, IoAccept, IoTcp
<1>9. ASSUME NEW c \in Clients, WriteMore(c) \/ Connect(c) \/ SendSegment(c) \/ HangUp(c)
      PROVE  UdpInv'
  BY <1>9, AsideStep DEF WriteMore, Connect, SendSegment, HangUp, UdpAside
<1>10. ASSUME NEW p \in Peers, UdpSendLater(p) PROVE UdpInv'
  BY <1>10, AsideStep DEF UdpSendLater, UdpAside
<1>11. ASSUME NEW p \in Peers, SendDatagram(p) PROVE UdpInv'
  BY <1>11
  DEF SendDatagram, UdpInv, AskerInHandler, EndpointOfBuffer, ClosedIsEmpty,
      SelfShutdownCloses, UdpReplyToSender
<1> QED
  BY <1>2, <1>3, <1>4, <1>6, <1>7, <1>8, <1>9, <1>10, <1>11 DEF Network

(* UdpInv is an invariant of the server.                                     *)
LEMMA UdpInvariance == WebserverSpec => []UdpInv
<1>1. WebserverInit => UdpInv
  BY DEF WebserverInit, LifecycleInit, UdpInv, AskerInHandler, EndpointOfBuffer, ClosedIsEmpty,
         SelfShutdownCloses, UdpReplyToSender
<1>2. IInv /\ UdpInv /\ [WebserverNext]_webserverVars => UdpInv'
  <2>1. CASE UNCHANGED webserverVars
    BY <2>1, AsideStep
    DEF webserverVars, lifecycleVars, members, history, netVars, udpVars, UdpAside
  <2>2. CASE Done /\ UNCHANGED netVars
    BY <2>2, AsideStep
    DEF Done, lifecycleVars, members, history, netVars, udpVars, UdpAside
  <2> QED
    BY <2>1, <2>2, OwnerUdp, HandlerUdp, EventUdp DEF WebserverNext
<1> QED
  BY <1>1, <1>2, WebserverIsLifecycle, Invariance, PTL DEF WebserverSpec

(* Every reply to a datagram goes to the peer that sent it, however many     *)
(* peers there are, unless lifecycle calls overlap.                          *)
THEOREM UdpRepliesToSender == WebserverSpec => []UdpReplyToSender
<1>1. UdpInv => UdpReplyToSender
  BY DEF UdpInv
<1> QED
  BY <1>1, UdpInvariance, PTL
=============================================================================
