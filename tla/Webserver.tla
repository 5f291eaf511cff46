------------------------------ MODULE Webserver ------------------------------
(***************************************************************************)
(* A Webserver object and its network.  The steps are those of module      *)
(* Lifecycle, each with what it does to the TCP connections and to the UDP *)
(* socket.  A TCP connection is accepted, read once, answered and closed;  *)
(* its request comes in segments, of which the single async_read_some      *)
(* takes a prefix; its answer leaves in chunks, the first while            *)
(* sendTcpResponse still holds the bytes.  UDP requests pass through one   *)
(* buffer and one m_remoteEndpoint.  What an answer says is the subject of *)
(* module Dispatch.                                                        *)
(***************************************************************************)
EXTENDS Lifecycle, Sequences, FiniteSets

CONSTANTS Clients,      \* TCP clients, each makes one connection
          Peers,        \* UDP peers
          NoClient,
          NoPeer,
          Segments,     \* segments in which a request arrives
          BufferSize,   \* m_bufferSize, in segments
          Chunks,       \* writes that an answer takes
          MaxDescriptors, \* bound on the limit on the sockets of clients
          MaxDatagrams  \* bound on the datagrams of each peer

ASSUME WebserverAssumption ==
    /\ NoClient \notin Clients
    /\ NoPeer \notin Peers
    /\ {Segments, BufferSize, Chunks, MaxDescriptors} \subseteq Nat \ {0}
    /\ MaxDatagrams \in Nat

VARIABLES
    conn,              \* the state of each client's connection
    sent,              \* segments each client has sent
    got,               \* segments that the read took
    hungUp,            \* clients that closed their end
    written,           \* chunks of the answer handed to the kernel
    stale,             \* clients and peers that were sent freed memory
    descriptors,       \* the limit on sockets that accept() can make
    client,            \* the connection whose handler is executed
    socketQueue,       \* peers of the datagrams the kernel holds
    m_remoteEndpoint,  \* the endpoint the last completed receive wrote
    buffer,            \* peer of the datagram in the receive buffer
    asker,             \* peer of the request whose handler is executed
    asked,             \* datagrams each peer has sent
    replied,           \* replies sent to each peer
    unsent             \* replies to each peer that wait for room in the socket

tcpVars == <<conn, sent, got, hungUp, written, descriptors, client>>
udpVars == <<socketQueue, m_remoteEndpoint, buffer, asker, asked, replied, unsent>>
netVars == <<tcpVars, udpVars, stale>>
webserverVars == <<lifecycleVars, netVars>>

Accepted == {"reading", "replying", "writing"}
FreeDescriptor == Cardinality({c \in Clients : conn[c] \in Accepted}) < descriptors

WebserverTypeOK ==
    /\ TypeOK
    /\ conn \in [Clients -> {"out", "backlog", "done", "closed"} \cup Accepted]
    /\ sent \in [Clients -> 0..Segments]
    /\ got \in [Clients -> 0..BufferSize]
    /\ hungUp \subseteq Clients
    /\ written \in [Clients -> 0..Chunks]
    /\ descriptors \in 1..MaxDescriptors
    /\ stale \subseteq Clients \cup Peers
    /\ client \in Clients \cup {NoClient}
    /\ socketQueue \in Seq(Peers)
    /\ {m_remoteEndpoint, buffer, asker} \subseteq Peers \cup {NoPeer}
    /\ asked \in [Peers -> 0..MaxDatagrams]
    /\ replied \in [Peers -> Nat]
    /\ unsent \in [Peers -> Nat]

WebserverInit ==
    /\ LifecycleInit
    /\ conn = [c \in Clients |-> "out"]
    /\ sent = [c \in Clients |-> 0]
    /\ got = [c \in Clients |-> 0]
    /\ hungUp = {}
    /\ written = [c \in Clients |-> 0]
    /\ descriptors \in 1..MaxDescriptors
    /\ stale = {}
    /\ client = NoClient
    /\ socketQueue = <<>>
    /\ m_remoteEndpoint = NoPeer
    /\ buffer = NoPeer
    /\ asker = NoPeer
    /\ asked = [p \in Peers |-> 0]
    /\ replied = [p \in Peers |-> 0]
    /\ unsent = [p \in Peers |-> 0]

-----------------------------------------------------------------------------
(* The clients.  The kernel completes connections to a listening acceptor,   *)
(* and queues datagrams for an open socket, whatever the server does.        *)

Connect(c) ==
    /\ acceptorOpen
    /\ conn[c] = "out"
    /\ conn' = [conn EXCEPT ![c] = "backlog"]
    /\ UNCHANGED <<lifecycleVars, sent, got, hungUp, written, descriptors, stale, client,
                   udpVars>>

SendSegment(c) ==
    /\ conn[c] \in {"backlog", "reading"}
    /\ c \notin hungUp
    /\ sent[c] < Segments
    /\ sent' = [sent EXCEPT ![c] = @ + 1]
    /\ UNCHANGED <<lifecycleVars, conn, got, hungUp, written, descriptors, stale, client,
                   udpVars>>

HangUp(c) ==
    /\ conn[c] \notin {"out", "done", "closed"}
    /\ c \notin hungUp
    /\ hungUp' = hungUp \cup {c}
    /\ UNCHANGED <<lifecycleVars, conn, sent, got, written, descriptors, stale, client,
                   udpVars>>

SendDatagram(p) ==
    /\ udpOpen
    /\ asked[p] < MaxDatagrams
    /\ asked' = [asked EXCEPT ![p] = @ + 1]
    /\ socketQueue' = Append(socketQueue, p)
    /\ UNCHANGED <<lifecycleVars, tcpVars, stale, m_remoteEndpoint, buffer, asker, replied,
                   unsent>>

Network ==
    \/ \E c \in Clients : Connect(c) \/ SendSegment(c) \/ HangUp(c)
    \/ \E p \in Peers : SendDatagram(p)

-----------------------------------------------------------------------------
(* Receives                                                                  *)

(* The receive in progress takes a datagram: its bytes go to the buffer of   *)
(* the operation, its sender to the one m_remoteEndpoint.                    *)
Deliver ==
    /\ socketQueue # <<>>
    /\ socketQueue' = Tail(socketQueue)
    /\ buffer' = Head(socketQueue)
    /\ m_remoteEndpoint' = Head(socketQueue)

(* A receive that is started may take a waiting datagram at once.            *)
ReceiveStarts == Deliver \/ UNCHANGED <<socketQueue, buffer, m_remoteEndpoint>>

(* Otherwise the reactor, inside run(), lets it take the next one.           *)
UdpDeliver ==
    /\ At(Io, "run") /\ ~ioStopped
    /\ receives > 0 /\ buffer = NoPeer
    /\ Deliver
    /\ UNCHANGED <<lifecycleVars, tcpVars, stale, asker, asked, replied, unsent>>

(* Mutant: the next receive is started before the request is answered.       *)
UdpReceivedEarlyRearm ==
    /\ buffer # NoPeer
    /\ IoReceive /\ pc'[Io] = "udp"
    /\ asker' = buffer
    /\ \/ Deliver
       \/ buffer' = NoPeer /\ UNCHANGED <<socketQueue, m_remoteEndpoint>>
    /\ UNCHANGED <<tcpVars, stale, asked, replied, unsent>>

UdpReceived ==
    /\ buffer # NoPeer
    /\ IoReceive /\ pc'[Io] = "udp"
    /\ asker' = buffer
    /\ buffer' = NoPeer
    /\ UNCHANGED <<tcpVars, stale, socketQueue, m_remoteEndpoint, asked, replied, unsent>>

(* Mutant: after an error the receive is not started again.                  *)
UdpErrorGivesUp ==
    /\ buffer = NoPeer
    /\ receives > 0
    /\ receives' = receives - 1
    /\ IoDispatch("run")
    /\ UNCHANGED <<accepts, connections, netVars>>

UdpError ==
    /\ buffer = NoPeer
    /\ IoReceive /\ pc'[Io] = "udpRearm"
    /\ UNCHANGED netVars

(* sendUdpResponse: the reply is sent before the call returns, waits for     *)
(* room in the socket, or fails, as on a closed socket.                      *)
UdpReply ==
    /\ UdpSend
    /\ asker' = NoPeer
    /\ \/ /\ udpOpen
          /\ replied' = [replied EXCEPT ![m_remoteEndpoint] = @ + 1]
          /\ UNCHANGED unsent
       \/ /\ udpOpen
          /\ unsent' = [unsent EXCEPT ![m_remoteEndpoint] = @ + 1]
          /\ UNCHANGED replied
       \/ UNCHANGED <<replied, unsent>>
    /\ UNCHANGED <<tcpVars, stale, socketQueue, m_remoteEndpoint, buffer, asked>>

(* The reactor sends a reply that waited: asio kept a copy of the endpoint,  *)
(* but the string is gone.                                                   *)
UdpSendLater(p) ==
    /\ At(Io, "run") /\ ~ioStopped
    /\ unsent[p] > 0
    /\ unsent' = [unsent EXCEPT ![p] = @ - 1]
    /\ replied' = [replied EXCEPT ![p] = @ + 1]
    /\ stale' = stale \/ stale' = stale \cup {p}
    /\ UNCHANGED <<lifecycleVars, tcpVars, socketQueue, m_remoteEndpoint, buffer, asker,
                   asked>>

UdpNext ==
    /\ UdpRearm
    /\ ReceiveStarts
    /\ UNCHANGED <<tcpVars, stale, asker, asked, replied, unsent>>

-----------------------------------------------------------------------------
(* Connections                                                               *)

(* accept() needs a descriptor for the new socket, which keeps it until the  *)
(* connection is let go.                                                     *)
AcceptClient(c) ==
    /\ conn[c] = "backlog"
    /\ FreeDescriptor
    /\ IoAccept /\ connections' = connections + 1
    /\ conn' = [conn EXCEPT ![c] = "reading"]
    /\ UNCHANGED <<sent, got, hungUp, written, descriptors, stale, client, udpVars>>

(* Without a free descriptor accept() fails, and it may fail with one.       *)
AcceptError ==
    /\ IoAccept /\ UNCHANGED connections
    /\ UNCHANGED netVars

(* Mutant: the read is not bounded by the buffer.                            *)
ReadDoneUnbounded(c) ==
    /\ conn[c] = "reading"
    /\ IoTcp /\ pc'[Io] = "tcp"
    /\ \E n \in 1..sent[c] : got' = [got EXCEPT ![c] = n]
    /\ conn' = [conn EXCEPT ![c] = "replying"]
    /\ client' = c
    /\ UNCHANGED <<sent, hungUp, written, descriptors, stale, udpVars>>

(* async_read_some: one read, of what has arrived and fits the buffer.       *)
ReadDone(c) ==
    /\ conn[c] = "reading"
    /\ IoTcp /\ pc'[Io] = "tcp"
    /\ \E n \in 1..BufferSize : n <= sent[c] /\ got' = [got EXCEPT ![c] = n]
    /\ conn' = [conn EXCEPT ![c] = "replying"]
    /\ client' = c
    /\ UNCHANGED <<sent, hungUp, written, descriptors, stale, udpVars>>

(* A read ends in an error only when the client has closed its end.          *)
ReadError(c) ==
    /\ conn[c] = "reading" /\ c \in hungUp
    /\ IoTcp /\ pc'[Io] = "run"
    /\ conn' = [conn EXCEPT ![c] = "closed"]
    /\ UNCHANGED <<sent, got, hungUp, written, descriptors, stale, client, udpVars>>

(* sendTcpResponse: the first write is tried before the call returns, while  *)
(* the string that async_write refers to still exists.                       *)
TcpReply ==
    /\ TcpSend
    /\ conn' = [conn EXCEPT ![client] = "writing"]
    /\ \/ written' = [written EXCEPT ![client] = 1]
       \/ client \in hungUp /\ UNCHANGED written
    /\ client' = NoClient
    /\ UNCHANGED <<sent, got, hungUp, descriptors, stale, udpVars>>

(* The reactor writes on: the string is gone, and what is sent is whatever   *)
(* its memory holds by now.                                                  *)
WriteMore(c) ==
    /\ At(Io, "run") /\ ~ioStopped
    /\ conn[c] = "writing" /\ c \notin hungUp
    /\ written[c] < Chunks
    /\ written' = [written EXCEPT ![c] = @ + 1]
    /\ stale' = stale \/ stale' = stale \cup {c}
    /\ UNCHANGED <<lifecycleVars, conn, sent, got, hungUp, descriptors, client, udpVars>>

(* Mutant: the connection is read again once its answer is written.          *)
WriteDoneReadsOn(c) ==
    /\ At(Io, "run") /\ ~ioStopped
    /\ conn[c] = "writing" /\ written[c] = Chunks
    /\ conn' = [conn EXCEPT ![c] = "reading"]
    /\ written' = [written EXCEPT ![c] = 0]
    /\ UNCHANGED <<lifecycleVars, sent, got, hungUp, descriptors, stale, client, udpVars>>

(* The write handler lets go of the socket, which closes it.                 *)
WriteDone(c) ==
    /\ conn[c] = "writing"
    /\ written[c] = Chunks \/ c \in hungUp
    /\ IoTcp /\ pc'[Io] = "run"
    /\ conn' = [conn EXCEPT ![c] = "done"]
    /\ UNCHANGED <<sent, got, hungUp, written, descriptors, stale, client, udpVars>>

-----------------------------------------------------------------------------
(* Steps of Lifecycle on either side                                         *)

(* Closing the acceptor resets the connections it has not handed over.       *)
CloseTcp(p) ==
    /\ ShutdownCloseTcp(p)
    /\ conn' = [c \in Clients |-> IF conn[c] = "backlog" THEN "closed" ELSE conn[c]]
    /\ UNCHANGED <<sent, got, hungUp, written, descriptors, stale, client, udpVars>>

CloseUdp(p) ==
    /\ ShutdownCloseUdp(p)
    /\ socketQueue' = <<>>
    /\ unsent' = [q \in Peers |-> 0]
    /\ UNCHANGED <<tcpVars, stale, m_remoteEndpoint, buffer, asker, asked, replied>>

StartUdp(t) ==
    /\ StartArmUdp(t)
    /\ ReceiveStarts
    /\ UNCHANGED <<tcpVars, stale, asker, asked, replied, unsent>>

(* The context is destroyed with the operations in it and their sockets.     *)
DestroySockets(t) ==
    /\ DestroyMembers(t)
    /\ \/ ~crashed'
          /\ conn' = [c \in Clients |->
                        IF conn[c] = "out" THEN "out"
                        ELSE IF conn[c] \in {"writing", "done"} THEN "done" ELSE "closed"]
          /\ socketQueue' = <<>>
          /\ buffer' = NoPeer
          /\ unsent' = [p \in Peers |-> 0]
          /\ UNCHANGED <<m_remoteEndpoint, asker, asked, replied>>
       \/ crashed' /\ UNCHANGED <<conn, udpVars>>
    /\ UNCHANGED <<sent, got, hungUp, written, descriptors, stale, client>>

ShutdownStep(p) ==
    \/ CloseTcp(p)
    \/ CloseUdp(p)
    \/ /\ ShutdownClear(p) \/ ShutdownStop(p) \/ ShutdownTest(p) \/ ShutdownJoin(p)
       /\ UNCHANGED netVars

OwnerStep(t) ==
    \/ /\ StartCheck(t) \/ StartSet(t) \/ StartArmTcp(t) \/ StartSpawn(t)
          \/ StartAssign(t) \/ DestroyCheck(t)
       /\ UNCHANGED netVars
    \/ StartUdp(t)
    \/ ShutdownStep(t)
    \/ DestroySockets(t)

(* What the Io thread does by itself once a handler has begun.               *)
HandlerStep ==
    \/ /\ IoExit \/ AcceptCheck \/ AcceptRearm \/ RenderReturn
       /\ UNCHANGED netVars
    \/ TcpReply
    \/ UdpReply
    \/ UdpNext
    \/ ShutdownStep(Io)

WebserverNext ==
    \/ /\ ~crashed
       /\ \/ \E t \in Threads : OwnerStep(t) \/ (Call(t) /\ UNCHANGED netVars)
          \/ HandlerStep
          \/ (RenderShutdown \/ HandlerFails) /\ UNCHANGED netVars
          \/ UdpDeliver \/ UdpReceived \/ UdpError \/ AcceptError
          \/ \E p \in Peers : UdpSendLater(p)
          \/ \E c \in Clients :
                \/ AcceptClient(c)
                \/ ReadDone(c) \/ ReadError(c)
                \/ WriteMore(c) \/ WriteDone(c)
          \/ Network
    \/ Done /\ UNCHANGED netVars

WebserverSpec == WebserverInit /\ [][WebserverNext]_webserverVars

(* The operating system schedules the threads, user code returns, and the    *)
(* scheduler of asio is first in, first out: completed operations are not    *)
(* passed over for ever, nor does a receive fail for ever, or an accept()    *)
(* while a descriptor is free.  Clients take what is written to them.        *)
WebserverFairness ==
    /\ \A t \in Threads : WF_webserverVars(~crashed /\ OwnerStep(t))
    /\ WF_webserverVars(~crashed /\ HandlerStep)
    /\ SF_webserverVars(~crashed /\ \E c \in Clients : AcceptClient(c))
    /\ SF_webserverVars(~crashed /\ \E c \in Clients : ReadDone(c) \/ ReadError(c))
    /\ SF_webserverVars(~crashed /\ \E c \in Clients : WriteMore(c) \/ WriteDone(c))
    /\ SF_webserverVars(~crashed /\ UdpDeliver)
    /\ SF_webserverVars(~crashed /\ UdpReceived)

FairWebserverSpec == WebserverSpec /\ WebserverFairness

-----------------------------------------------------------------------------
(* Properties                                                                *)

(* While user code renders the answer to a UDP request, whatever it does,    *)
(* m_remoteEndpoint still names the sender: the single endpoint that every   *)
(* receive writes is not overwritten before sendUdpResponse has used it.     *)
(* Overlapping calls can break this: of two start() calls that both pass the *)
(* test of m_keepRunning, the second arms another receive while a handler of *)
(* the first is executed.                                                    *)
UdpReplyToSender == ~overlapped /\ asker # NoPeer => m_remoteEndpoint = asker

(* A client whose request, or a part of it, has reached a running server is  *)
(* answered, or reset, unless the context is stopped: accepts that fail and  *)
(* other clients do not keep it waiting, provided that there are descriptors *)
(* for all, or that nobody keeps one for ever by being silent: no read has a *)
(* timeout.                                                                  *)
Silent(c) == conn[c] = "reading" /\ sent[c] = 0 /\ c \notin hungUp
TcpServed ==
    descriptors >= Cardinality(Clients) \/ (\A c \in Clients : []<>~Silent(c)) =>
        \A c \in Clients :
            IoLive /\ conn[c] \in {"backlog", "reading"} /\ sent[c] > 0
                ~> conn[c] \in {"writing", "done", "closed"} \/ ioStopped \/ crashed

(* A datagram that waits in the socket of a running server gets to the       *)
(* handler, unless the context is stopped: the receive is re-armed after     *)
(* errors and after handlers that throw.                                     *)
UdpServed ==
    \A p \in Peers :
        IoLive /\ (\E i \in DOMAIN socketQueue : socketQueue[i] = p)
            ~> asker = p \/ ioStopped \/ crashed

(* The refinement mapping to Service.                                        *)
Phase ==
    IF crashed \/ Destroyed THEN "closed"
    ELSE IF ioStopped THEN
        IF pc[Io] \in {"tcp", "tcpSend", "udp", "udpSend"} \cup ShutdownLabels
        THEN "closing" ELSE "closed"
    ELSE IF pc[Io] = "none" THEN "new" ELSE "serving"

TcpPromise(c) ==
    CASE conn[c] = "out" -> "out"
      [] conn[c] \in {"backlog", "reading", "replying"} -> "in"
      [] conn[c] \in {"writing", "done"} -> "answered"
      [] conn[c] = "closed" -> "dropped"

Owed(p) ==
    Cardinality({i \in DOMAIN socketQueue : socketQueue[i] = p})
        + (IF buffer = p THEN 1 ELSE 0) + (IF asker = p THEN 1 ELSE 0)
        + unsent[p]

Promise == INSTANCE Service WITH
    phase <- Phase,
    tcp <- [c \in Clients |-> TcpPromise(c)],
    owed <- [p \in Peers |-> Owed(p)]

(* The server keeps the promise of module Service: one answer for each       *)
(* connection, no client dropped before the object closes, one answer at     *)
(* most after the context is stopped and none once the handler in progress   *)
(* has ended, UDP replies to the peers that are owed one.  This too supposes *)
(* that start() calls do not overlap.                                        *)
KeepsPromise == Promise!ServiceSpec

(* TestHttpPost (webserver_test.cpp:202-208) expects the whole body back:    *)
(* the handler is given the request as the client sent it, complete.         *)
WholeRequestRead == \A c \in Clients : conn[c] = "replying" => got[c] = Segments

(* The tests compare the response with the bytes the handler's HttpResponse  *)
(* serialises to (webserver_test.cpp:207): what is sent is that.             *)
ReplyIntact == stale = {}
=============================================================================
