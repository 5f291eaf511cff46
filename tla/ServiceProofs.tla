---------------------------- MODULE ServiceProofs ----------------------------
(***************************************************************************)
(* The server implements Service: every step of it is a step of Service,   *)
(* or none, as long as lifecycle calls do not overlap.                     *)
(***************************************************************************)
EXTENDS WebserverProofs, FiniteSetTheorems

(* How many datagrams of a peer a queue holds.                               *)
PlacesOf(p, queue) == {i \in DOMAIN queue : queue[i] = p}

(* The datagrams of a peer in the queue of the socket.                       *)
CountOf(p, queue) == Cardinality(PlacesOf(p, queue))

(* The places of a peer in a queue can be counted.                           *)
LEMMA PlacesFinite ==
    ASSUME NEW queue \in Seq(Peers), NEW p
    PROVE  IsFiniteSet(PlacesOf(p, queue)) /\ CountOf(p, queue) \in Nat
<1>1. IsFiniteSet(1..Len(queue))
  BY FS_Interval
<1>2. PlacesOf(p, queue) \in SUBSET (1..Len(queue))
  BY DEF PlacesOf
<1> QED
  BY <1>1, <1>2, FS_Subset, FS_CardinalityType DEF CountOf

(* One more for the peer that is appended.                                   *)
LEMMA CountAppend ==
    ASSUME NEW queue \in Seq(Peers), NEW p \in Peers, NEW q \in Peers
    PROVE  CountOf(p, Append(queue, q)) = CountOf(p, queue) + (IF q = p THEN 1 ELSE 0)
<1> DEFINE last == Len(queue) + 1
<1>1. last \notin PlacesOf(p, queue)
  BY DEF PlacesOf
<1>2. CASE q = p
  <2>1. PlacesOf(p, Append(queue, q)) = PlacesOf(p, queue) \cup {last}
    BY <1>2 DEF PlacesOf
  <2> QED
    BY <1>1, <1>2, <2>1, PlacesFinite, FS_AddElement DEF CountOf
<1>3. CASE q # p
  <2>1. PlacesOf(p, Append(queue, q)) = PlacesOf(p, queue)
    BY <1>3 DEF PlacesOf
  <2> QED
    BY <1>3, <2>1, PlacesFinite DEF CountOf
<1> QED
  BY <1>2, <1>3

(* One less for the peer at the head.                                        *)
LEMMA CountTail ==
    ASSUME NEW queue \in Seq(Peers), queue # <<>>, NEW p \in Peers
    PROVE  CountOf(p, Tail(queue)) + (IF Head(queue) = p THEN 1 ELSE 0) <= CountOf(p, queue)
<1> DEFINE others == PlacesOf(p, queue) \ {1}
           up == [i \in PlacesOf(p, Tail(queue)) |-> i + 1]
<1>1. /\ Len(queue) \in Nat /\ Len(queue) > 0 /\ 1 \in DOMAIN queue
      /\ Tail(queue) \in Seq(Peers) /\ DOMAIN Tail(queue) = 1..(Len(queue) - 1)
      /\ \A i \in 1..(Len(queue) - 1) : Tail(queue)[i] = queue[i + 1]
      /\ Head(queue) = queue[1]
  OBVIOUS
<1>2. \A i \in PlacesOf(p, Tail(queue)) : i \in Nat /\ i + 1 \in others
  BY <1>1 DEF PlacesOf
<1>3. up \in Injection(PlacesOf(p, Tail(queue)), others)
  <2>1. up \in [PlacesOf(p, Tail(queue)) -> others]
    BY <1>2
  <2>2. \A i, j \in PlacesOf(p, Tail(queue)) : up[i] = up[j] => i = j
    BY <1>2
  <2> HIDE DEF up, others
  <2> QED
    BY <2>1, <2>2 DEF Injection, IsInjective
<1>4. /\ IsFiniteSet(others)
      /\ Cardinality(others) = IF Head(queue) = p THEN CountOf(p, queue) - 1 ELSE CountOf(p, queue)
  <2>1. 1 \in PlacesOf(p, queue) <=> Head(queue) = p
    BY <1>1 DEF PlacesOf
  <2> QED
    BY <2>1, PlacesFinite, FS_RemoveElement DEF CountOf
<1>5. CountOf(p, Tail(queue)) <= Cardinality(others)
  BY <1>3, <1>4, FS_Injection DEF CountOf
<1>6. CountOf(p, queue) \in Nat /\ CountOf(p, Tail(queue)) \in Nat
  BY <1>1, PlacesFinite
<1> HIDE DEF others
<1> QED
  BY <1>4, <1>5, <1>6

(* An empty queue holds nothing.                                             *)
LEMMA CountEmpty == \A p : CountOf(p, <<>>) = 0
<1>1. \A p : PlacesOf(p, <<>>) = {}
  BY DEF PlacesOf
<1> QED
  BY <1>1, FS_EmptySet DEF CountOf

(* What a peer is owed, in these terms.                                      *)
One(x, p) == IF x = p THEN 1 ELSE 0

(* What a peer is owed, place by place.                                      *)
LEMMA OwedIs ==
    \A p : Owed(p) = CountOf(p, socketQueue) + One(buffer, p) + One(asker, p) + unsent[p]
BY DEF Owed, CountOf, PlacesOf, One

-----------------------------------------------------------------------------
(* A handler, a shutdown() that it calls included, has somebody to answer.   *)
InTcp == pc[Io] \in {"tcp", "tcpSend"} \/ (pc[Io] \in ShutdownLabels /\ resume = "tcpSend")

(* The Io thread is in the handler of a datagram.                            *)
InUdp == pc[Io] \in {"udp", "udpSend"} \/ (pc[Io] \in ShutdownLabels /\ resume = "udpSend")

(* A handler has somebody to answer.                                         *)
HandlersBusy ==
    /\ InTcp => client \in Clients /\ conn[client] = "replying"
    /\ InUdp => asker \in Peers

(* The steps that leave Io where it is.                                      *)
LEMMA BusyAside ==
    ASSUME HandlersBusy, UNCHANGED <<client, asker, resume>>, pc'[Io] = pc[Io],
           \A c \in Clients : conn[c] = "replying" => conn'[c] = "replying"
    PROVE  HandlersBusy'
BY DEF HandlersBusy, InTcp, InUdp

(* The steps of application threads keep HandlersBusy.                       *)
LEMMA BusyOwner ==
    ASSUME PcOK, ConnectionsOK, HandlersBusy, ~ crashed, NEW t \in Threads,
           OwnerStep(t) \/ (Call(t) /\ UNCHANGED netVars)
    PROVE  HandlersBusy'
<1>1. t \in Procs /\ Io \in Procs /\ t # Io
  BY LifecycleAssumption DEF Procs
<1> USE <1>1 DEF members, ops, history, netVars, tcpVars, udpVars
<1>2. CASE Call(t) /\ UNCHANGED netVars
  BY <1>2, Moves, BusyAside DEF Call, CallStart, CallShutdown, CallDestroy, Enter
<1>3. CASE /\ \/ StartCheck(t) \/ StartSet(t) \/ StartArmTcp(t) \/ StartAssign(t)
              \/ DestroyCheck(t) \/ ShutdownClear(t) \/ ShutdownStop(t)
              \/ ShutdownTest(t) \/ ShutdownJoin(t)
           /\ UNCHANGED netVars
  BY <1>3, Moves, BusyAside
  DEF StartCheck, StartSet, StartArmTcp, acceptTcpConnection, StartAssign, DestroyCheck,
      ShutdownClear, ShutdownStop, ShutdownTest, ShutdownJoin, Crash
<1>4. CASE StartSpawn(t) /\ UNCHANGED netVars
  <2>1. CASE pc' = [pc EXCEPT ![t] = "assign", ![Io] = "run"]
    <3>1. pc'[Io] = "run"
      BY <2>1 DEF PcOK
    <3> QED
      BY <3>1 DEF HandlersBusy, InTcp, InUdp, ShutdownLabels
  <2> QED
    BY <1>4, <2>1, Moves, BusyAside DEF StartSpawn, Crash
<1>5. CASE StartUdp(t)
  BY <1>5, Moves, BusyAside DEF StartUdp, StartArmUdp
<1>6. CASE CloseTcp(t)
  BY <1>6, Moves, BusyAside DEF CloseTcp, ShutdownCloseTcp
<1>7. CASE CloseUdp(t)
  BY <1>7, Moves, BusyAside DEF CloseUdp, ShutdownCloseUdp
<1>8. CASE DestroySockets(t)
  <2>1. CASE crashed'
    <3>1. Crash
      BY <1>8, <2>1 DEF DestroySockets, DestroyMembers
    <3> QED
      BY <1>8, <2>1, <3>1, BusyAside DEF DestroySockets, Crash
  <2>2. CASE ~ crashed'
    <3>1. ~ IoLive /\ pc'[Io] = pc[Io]
      BY <1>8, <2>2, Moves DEF DestroySockets, DestroyMembers, Crash
    <3> QED
      BY <3>1 DEF HandlersBusy, InTcp, InUdp, IoLive, ShutdownLabels
  <2> QED
    BY <2>1, <2>2
<1> QED
  BY <1>2, <1>3, <1>4, <1>5, <1>6, <1>7, <1>8 DEF OwnerStep, ShutdownStep

(* The steps of the Io thread in a handler do.                               *)
LEMMA BusyHandler ==
    ASSUME PcOK, ConnectionsOK, HandlersBusy, HandlerStep
    PROVE  HandlersBusy'
<1>1. Io \in Procs
  BY DEF Procs
<1> USE <1>1
    DEF members, ops, history, netVars, tcpVars, udpVars, At, HandlersBusy, InTcp, InUdp,
        ShutdownLabels
<1>2. CASE (IoExit \/ AcceptCheck \/ AcceptRearm \/ RenderReturn) /\ UNCHANGED netVars
  BY <1>2, Moves DEF IoExit, AcceptCheck, AcceptRearm, acceptTcpConnection, RenderReturn
<1>3. CASE TcpReply \/ UdpReply \/ UdpNext
  <2>1. pc'[Io] \in {"run", "udpRearm"}
    BY <1>3, Moves DEF TcpReply, TcpSend, UdpReply, UdpSend, UdpNext, UdpRearm
  <2> QED
    BY <2>1
<1>4. CASE ShutdownStep(Io)
  <2>1. CASE (ShutdownClear(Io) \/ ShutdownStop(Io)) /\ UNCHANGED netVars
    BY <2>1, Moves DEF ShutdownClear, ShutdownStop
  <2>2. CASE (ShutdownTest(Io) \/ ShutdownJoin(Io)) /\ UNCHANGED netVars
    BY <2>2, Moves DEF ShutdownTest, ShutdownJoin, Return, Crash, PcOK
  <2>3. CASE CloseTcp(Io)
    BY <2>3, Moves DEF CloseTcp, ShutdownCloseTcp
  <2>4. CASE CloseUdp(Io)
    BY <2>4, Moves DEF CloseUdp, ShutdownCloseUdp
  <2> QED
    BY <1>4, <2>1, <2>2, <2>3, <2>4 DEF ShutdownStep
<1> QED
  BY <1>2, <1>3, <1>4 DEF HandlerStep

(* The events that run() takes out of the context do.                        *)
LEMMA BusyEvent ==
    ASSUME PcOK, ConnectionsOK, DatagramsOK, HandlersBusy,
           \/ (RenderShutdown \/ HandlerFails) /\ UNCHANGED netVars
           \/ UdpDeliver \/ UdpReceived \/ UdpError \/ AcceptError
           \/ \E p \in Peers : UdpSendLater(p)
           \/ \E c \in Clients :
                 AcceptClient(c) \/ ReadDone(c) \/ ReadError(c) \/ WriteMore(c) \/ WriteDone(c)
           \/ Network
    PROVE  HandlersBusy'
<1>1. Io \in Procs
  BY DEF Procs
<1> USE <1>1 DEF members, ops, history, netVars, tcpVars, udpVars, lifecycleVars, At
<1>2. CASE (RenderShutdown \/ HandlerFails) /\ UNCHANGED netVars
  BY <1>2, Moves DEF RenderShutdown, HandlerFails, HandlersBusy, InTcp, InUdp, ShutdownLabels
<1>3. CASE UdpReceived
  BY <1>3 DEF UdpReceived, IoReceive, IoDispatch, HandlersBusy, InTcp, InUdp, DatagramsOK,
              ShutdownLabels
<1>4. ASSUME NEW c \in Clients, ReadDone(c) PROVE HandlersBusy'
  <2>1. conn'[c] = "replying" /\ client' = c /\ pc'[Io] = "tcp"
    BY <1>4 DEF ReadDone, ConnectionsOK
  <2> QED
    BY <2>1 DEF HandlersBusy, InTcp, InUdp, ShutdownLabels
<1>5. CASE UdpError \/ AcceptError \/ \E c \in Clients : AcceptClient(c) \/ ReadError(c) \/ WriteDone(c)
  <2>1. pc'[Io] \in {"run", "accepted", "udpRearm"}
    BY <1>5, Moves
    DEF UdpError, IoReceive, AcceptError, AcceptClient, ReadError, WriteDone, IoAccept,
        IoTcp, IoDispatch
  <2> QED
    BY <2>1 DEF HandlersBusy, InTcp, InUdp, ShutdownLabels
<1>6. CASE UdpDeliver \/ \E p \in Peers : UdpSendLater(p) \/ SendDatagram(p)
  BY <1>6, BusyAside DEF UdpDeliver, UdpSendLater, SendDatagram
<1>7. ASSUME NEW c \in Clients, WriteMore(c) \/ Connect(c) \/ SendSegment(c) \/ HangUp(c)
      PROVE  HandlersBusy'
  BY <1>7, BusyAside DEF WriteMore, Connect, SendSegment, HangUp, ConnectionsOK
<1> QED
  BY <1>2, <1>3, <1>4, <1>5, <1>6, <1>7 DEF Network

(* Every step keeps HandlersBusy.                                            *)
LEMMA BusyStep ==
    PcOK /\ ConnectionsOK /\ DatagramsOK /\ HandlersBusy /\ [WebserverNext]_webserverVars
        => HandlersBusy'
<1> SUFFICES ASSUME PcOK, ConnectionsOK, DatagramsOK, HandlersBusy,
                    [WebserverNext]_webserverVars
             PROVE  HandlersBusy'
    OBVIOUS
<1>1. CASE UNCHANGED webserverVars \/ (Done /\ UNCHANGED netVars)
  BY <1>1, BusyAside DEF webserverVars, lifecycleVars, Done, netVars, tcpVars, udpVars
<1> QED
  BY <1>1, BusyOwner, BusyHandler, BusyEvent DEF WebserverNext

-----------------------------------------------------------------------------
(* The phases.  None begins again: a stopped context stays stopped, and a    *)
(* destroyed object destroyed.                                               *)
Answering == pc[Io] \in {"tcp", "tcpSend", "udp", "udpSend"} \cup ShutdownLabels

(* The phase in terms of the stop of the context and the handler.            *)
LEMMA PhaseIs ==
    /\ Phase = "closed" <=> crashed \/ Destroyed \/ (ioStopped /\ ~ Answering)
    /\ Phase = "closing" <=> ~ crashed /\ ~ Destroyed /\ ioStopped /\ Answering
    /\ Phase = "new" <=> ~ crashed /\ ~ Destroyed /\ ~ ioStopped /\ pc[Io] = "none"
    /\ Phase = "serving" <=> ~ crashed /\ ~ Destroyed /\ ~ ioStopped /\ pc[Io] # "none"
BY DEF Phase, Answering

(* The same after a step.                                                    *)
LEMMA PhaseIsNext ==
    /\ Phase' = "closed" <=> crashed' \/ Destroyed' \/ (ioStopped' /\ ~ Answering')
    /\ Phase' = "closing" <=> ~ crashed' /\ ~ Destroyed' /\ ioStopped' /\ Answering'
    /\ Phase' = "new" <=> ~ crashed' /\ ~ Destroyed' /\ ~ ioStopped' /\ pc'[Io] = "none"
    /\ Phase' = "serving" <=> ~ crashed' /\ ~ Destroyed' /\ ~ ioStopped' /\ pc'[Io] # "none"
BY DEF Phase, Answering

(* The ways in which a step may move on.                                     *)
Onward ==
    /\ crashed => crashed'
    /\ Destroyed => Destroyed'
    /\ ioStopped => ioStopped'
    /\ pc'[Io] = "none" => pc[Io] = "none"
    /\ Answering' => Answering \/ (~ ioStopped /\ pc[Io] # "none")

(* Going onward changes the phase as Service has it.                         *)
LEMMA PhaseFollows == Onward => Promise!PhaseMayChange
BY PhaseIs, PhaseIsNext DEF Onward, Promise!PhaseMayChange, Answering, ShutdownLabels

(* Every step goes onward.                                                   *)
LEMMA OnwardStep ==
    TypeOK /\ EndsInOrder /\ [LifecycleNext]_lifecycleVars => Onward
<1> SUFFICES ASSUME TypeOK, EndsInOrder, [LifecycleNext]_lifecycleVars PROVE Onward
    OBVIOUS
<1>1. PcOK /\ ioStopped \in BOOLEAN /\ crashed \in BOOLEAN /\ Io \in Procs
  BY TypeParts DEF TypeOK, Procs
<1> USE <1>1, LifecycleAssumption DEF members, ops, history, At, Procs
<1>2. ASSUME UNCHANGED <<ioStopped, crashed>>, pc'[Io] = pc[Io],
             \A t \in Threads : pc[t] = "gone" => pc'[t] = "gone"
      PROVE  Onward
  BY <1>2 DEF Onward, Destroyed, Answering
<1>3. ASSUME NEW t \in Threads, Call(t) PROVE Onward
  BY <1>2, <1>3, Moves DEF Call, CallStart, CallShutdown, CallDestroy, Enter
<1>4. CASE Crash
  BY <1>4 DEF Crash, Onward, Destroyed, Answering
<1>5. ASSUME NEW t \in Threads, ThreadStep(t), ~ Crash PROVE Onward
  <2>1. CASE StartCheck(t) \/ StartSet(t) \/ StartArmUdp(t) \/ StartArmTcp(t) \/ StartAssign(t)
             \/ DestroyCheck(t)
    BY <1>2, <1>5, <2>1, Moves
    DEF StartCheck, StartSet, StartArmUdp, StartArmTcp, StartAssign, DestroyCheck
  <2>2. CASE StartSpawn(t)
    <3>1. CASE pc' = [pc EXCEPT ![t] = "assign", ![Io] = "run"]
      <4>1. pc'[Io] = "run" /\ UNCHANGED <<ioStopped, crashed>>
        BY <1>5, <2>2, <3>1 DEF StartSpawn, PcOK
      <4>2. \A q \in Threads : pc[q] = "gone" => pc'[q] = "gone"
        BY <2>2, <3>1 DEF StartSpawn, PcOK
      <4> QED
        BY <4>1, <4>2 DEF Onward, Destroyed, Answering, ShutdownLabels
    <3> QED
      BY <1>2, <1>5, <2>2, <3>1, Moves DEF StartSpawn
  <2>3. CASE ShutdownClear(t) \/ ShutdownCloseTcp(t) \/ ShutdownCloseUdp(t) \/ ShutdownTest(t)
             \/ ShutdownJoin(t)
    BY <1>2, <1>5, <2>3, Moves
    DEF ShutdownClear, ShutdownCloseTcp, ShutdownCloseUdp, ShutdownTest, ShutdownJoin
  <2>4. CASE ShutdownStop(t)
    BY <2>4, Moves DEF ShutdownStop, Onward, Destroyed, Answering
  <2>5. CASE DestroyMembers(t)
    BY <1>2, <1>5, <2>5, Moves DEF DestroyMembers
  <2> QED
    BY <1>5, <2>1, <2>2, <2>3, <2>4, <2>5 DEF ThreadStep, Shutdown
<1>6. ASSUME UNCHANGED crashed, \A t \in Threads : pc'[t] = pc[t],
             ioStopped => ioStopped', pc[Io] # "none", pc'[Io] # "none",
             ioStopped /\ Answering' => Answering
      PROVE  Onward
  BY <1>6 DEF Onward, Destroyed
<1>7. CASE IoStep
  <2>1. CASE IoExit \/ AcceptCheck \/ AcceptRearm \/ TcpSend \/ UdpSend \/ UdpRearm
    <3>1. pc[Io] # "none" /\ pc'[Io] \in {"run", "finished", "rearm", "udpRearm"}
      BY <2>1, Moves DEF IoExit, AcceptCheck, AcceptRearm, TcpSend, UdpSend, UdpRearm
    <3> QED
      BY <1>6, <2>1, <3>1, Moves
      DEF IoExit, AcceptCheck, AcceptRearm, TcpSend, UdpSend, UdpRearm, Answering, ShutdownLabels
  <2>2. CASE RenderReturn
    BY <1>6, <2>2, Moves DEF RenderReturn, Answering
  <2>3. CASE Shutdown(Io)
    <3>1. Answering /\ pc'[Io] # "none" /\ UNCHANGED crashed /\ (ioStopped => ioStopped')
      BY <2>3, Moves
      DEF Shutdown, ShutdownClear, ShutdownStop, ShutdownCloseTcp, ShutdownCloseUdp,
          ShutdownTest, ShutdownJoin, Return, PcOK, Answering, ShutdownLabels
    <3>2. \A t \in Threads : pc'[t] = pc[t]
      BY <2>3, Moves
      DEF Shutdown, ShutdownClear, ShutdownStop, ShutdownCloseTcp, ShutdownCloseUdp,
          ShutdownTest, ShutdownJoin
    <3>3. pc[Io] # "none"
      BY <3>1 DEF Answering, ShutdownLabels
    <3> QED
      BY <1>6, <3>1, <3>2, <3>3
  <2> QED
    BY <1>7, <2>1, <2>2, <2>3 DEF IoStep
<1>8. CASE IoEvent
  <2>1. CASE IoAccept \/ IoReceive \/ IoTcp
    <3>1. ~ ioStopped /\ pc[Io] # "none" /\ pc'[Io] # "none" /\ UNCHANGED <<crashed, ioStopped>>
          /\ \A t \in Threads : pc'[t] = pc[t]
      BY <2>1, Moves DEF IoAccept, IoReceive, IoTcp, IoDispatch
    <3> QED
      BY <1>6, <3>1
  <2>2. CASE RenderShutdown
    BY <1>6, <2>2, Moves DEF RenderShutdown, Answering
  <2>3. CASE HandlerFails
    BY <2>3 DEF HandlerFails, Onward, Destroyed, Answering
  <2> QED
    BY <1>8, <2>1, <2>2, <2>3 DEF IoEvent
<1>9. CASE UNCHANGED lifecycleVars
  BY <1>2, <1>9 DEF lifecycleVars
<1> QED
  BY <1>3, <1>4, <1>5, <1>7, <1>8, <1>9 DEF LifecycleNext, Done

-----------------------------------------------------------------------------
(* The steps of Service.                                                     *)
Refined == [Promise!ServiceNext]_Promise!serviceVars

(* Nobody is given up; datagrams may be lost.                                *)
LEMMA LosesOnly ==
    ASSUME Promise!PhaseMayChange, UNCHANGED <<hungUp, replied>>,
           \A c \in Clients : TcpPromise(c)' = TcpPromise(c),
           \A p \in Peers : Owed(p)' <= Owed(p)
    PROVE  Refined
<1>1. Promise!GiveUp({})
  BY DEF Promise!GiveUp
<1> QED
  BY <1>1 DEF Refined, Promise!ServiceNext

(* Clients are given up, and datagrams may be lost.                          *)
LEMMA GivesUp ==
    ASSUME Promise!PhaseMayChange, UNCHANGED <<hungUp, replied>>,
           NEW S \in SUBSET Clients,
           S \subseteq hungUp \/ Phase' \in {"closing", "closed"},
           \A c \in S : TcpPromise(c) = "in" /\ TcpPromise(c)' = "dropped",
           \A c \in Clients \ S : TcpPromise(c)' = TcpPromise(c),
           \A p \in Peers : Owed(p)' <= Owed(p)
    PROVE  Refined
<1>1. Promise!GiveUp(S)
  BY DEF Promise!GiveUp
<1> QED
  BY <1>1 DEF Refined, Promise!ServiceNext

(* A client is answered.                                                     *)
LEMMA AnswersOne ==
    ASSUME Promise!MayAnswer, UNCHANGED <<hungUp, replied>>, NEW c \in Clients,
           TcpPromise(c) = "in", TcpPromise(c)' = "answered",
           \A d \in Clients \ {c} : TcpPromise(d)' = TcpPromise(d),
           \A p \in Peers : Owed(p)' = Owed(p)
    PROVE  Refined
<1>1. [d \in Clients |-> TcpPromise(d)]'
          = [[d \in Clients |-> TcpPromise(d)] EXCEPT ![c] = "answered"]
  OBVIOUS
<1>2. [p \in Peers |-> Owed(p)]' = [p \in Peers |-> Owed(p)]
  OBVIOUS
<1>3. Promise!Answer(c)
  BY <1>1, <1>2 DEF Promise!Answer
<1> QED
  BY <1>3 DEF Refined, Promise!ServiceNext

(* A reply uses up a datagram of the peer that it goes to.                   *)
LEMMA RepliesOne ==
    ASSUME Promise!MayAnswer, UNCHANGED <<hungUp, conn>>, NEW q \in Peers,
           replied' = [replied EXCEPT ![q] = @ + 1],
           Owed(q) > 0, Owed(q)' = Owed(q) - 1,
           \A p \in Peers \ {q} : Owed(p)' = Owed(p)
    PROVE  Refined
<1>1. [p \in Peers |-> Owed(p)]' = [[p \in Peers |-> Owed(p)] EXCEPT ![q] = @ - 1]
  OBVIOUS
<1>2. [c \in Clients |-> TcpPromise(c)]' = [c \in Clients |-> TcpPromise(c)]
  BY DEF TcpPromise
<1>3. Promise!Reply(q)
  BY <1>1, <1>2 DEF Promise!Reply
<1> QED
  BY <1>3 DEF Refined, Promise!ServiceNext

(* What a peer is owed is a number.                                          *)
LEMMA OwedType == DatagramsOK => \A p \in Peers : Owed(p) \in Nat
<1> SUFFICES ASSUME DatagramsOK, NEW p \in Peers PROVE Owed(p) \in Nat
    OBVIOUS
<1>1. CountOf(p, socketQueue) \in Nat /\ unsent[p] \in Nat
  BY PlacesFinite DEF DatagramsOK
<1>2. One(buffer, p) \in Nat /\ One(asker, p) \in Nat
  BY DEF One
<1> QED
  BY <1>1, <1>2, OwedIs

(* What a peer is owed after a step, in terms of its parts.                  *)
LEMMA OwedIsNext ==
    \A p : Owed(p)' = CountOf(p, socketQueue') + One(buffer', p) + One(asker', p) + unsent'[p]
BY DEF Owed, CountOf, PlacesOf, One

(* What is unchanged is promised as before.                                  *)
LEMMA OwedSame ==
    ASSUME DatagramsOK, UNCHANGED <<socketQueue, buffer, asker, unsent>>
    PROVE  \A p \in Peers : Owed(p)' = Owed(p) /\ Owed(p)' <= Owed(p)
BY OwedType, OwedIs, OwedIsNext

(* Connections that do not change are promised as before.                    *)
LEMMA TcpSame ==
    ASSUME UNCHANGED conn
    PROVE  \A c \in Clients : TcpPromise(c)' = TcpPromise(c)
BY DEF TcpPromise

(* The phase depends on the variables of Lifecycle only.                     *)
LEMMA PhaseSame == UNCHANGED lifecycleVars => Phase' = Phase
BY DEF lifecycleVars, members, Phase, Destroyed

(* A step that leaves the network alone may end a phase.                     *)
LEMMA StillRefined ==
    ASSUME DatagramsOK, Promise!PhaseMayChange, UNCHANGED netVars
    PROVE  Refined
BY LosesOnly, OwedSame, TcpSame DEF netVars, tcpVars, udpVars

(* A datagram that is delivered may be lost on the way, and may replace one  *)
(* in the buffer, but nobody is owed more.                                   *)
LEMMA DeliverLoses ==
    ASSUME DatagramsOK, Deliver, UNCHANGED <<asker, unsent>>
    PROVE  \A p \in Peers : Owed(p)' <= Owed(p)
<1> SUFFICES ASSUME NEW p \in Peers PROVE Owed(p)' <= Owed(p)
    OBVIOUS
<1>1. /\ socketQueue \in Seq(Peers) /\ socketQueue # <<>>
      /\ socketQueue' = Tail(socketQueue) /\ socketQueue' \in Seq(Peers)
      /\ buffer' = Head(socketQueue)
  BY DeliverTyped DEF DatagramsOK, Deliver
<1>2. CountOf(p, socketQueue') + One(buffer', p) <= CountOf(p, socketQueue)
  BY <1>1, CountTail DEF One
<1>3. /\ CountOf(p, socketQueue') \in Nat /\ CountOf(p, socketQueue) \in Nat
      /\ unsent[p] \in Nat
  BY <1>1, PlacesFinite DEF DatagramsOK
<1>4. /\ One(buffer', p) \in Nat /\ One(buffer, p) \in Nat /\ One(asker, p) \in Nat
      /\ One(asker', p) = One(asker, p)
  BY DEF One
<1>5. \A a, b, x, y, z, u \in Nat : a + x <= b => a + x + z + u <= b + y + z + u
  OBVIOUS
<1> HIDE DEF CountOf
<1>6. /\ Owed(p)' = CountOf(p, socketQueue') + One(buffer', p) + One(asker, p) + unsent[p]
      /\ Owed(p) = CountOf(p, socketQueue) + One(buffer, p) + One(asker, p) + unsent[p]
  BY <1>4, OwedIs, OwedIsNext
<1> QED
  BY <1>2, <1>3, <1>4, <1>5, <1>6

(* A closed socket loses what it held.                                       *)
LEMMA ClosedLoses ==
    ASSUME DatagramsOK, socketQueue' = <<>>, buffer' = buffer \/ buffer' = NoPeer,
           unsent' = [p \in Peers |-> 0], UNCHANGED asker
    PROVE  \A p \in Peers : Owed(p)' <= Owed(p)
<1> SUFFICES ASSUME NEW p \in Peers PROVE Owed(p)' <= Owed(p)
    OBVIOUS
<1>1. /\ CountOf(p, socketQueue) \in Nat /\ CountOf(p, socketQueue') = 0
      /\ unsent[p] \in Nat /\ unsent'[p] = 0
  BY PlacesFinite, CountEmpty DEF DatagramsOK
<1>2. One(buffer', p) <= One(buffer, p) /\ One(asker', p) = One(asker, p)
      /\ One(buffer, p) \in Nat /\ One(buffer', p) \in Nat /\ One(asker, p) \in Nat
  BY WebserverAssumption DEF One
<1>3. /\ Owed(p)' = CountOf(p, socketQueue') + One(buffer', p) + One(asker', p) + unsent'[p]
      /\ Owed(p) = CountOf(p, socketQueue) + One(buffer, p) + One(asker, p) + unsent[p]
  BY OwedIs, OwedIsNext
<1> QED
  BY <1>1, <1>2, <1>3

-----------------------------------------------------------------------------
(* What the steps need to know of the state.                                 *)
RefinementInv ==
    /\ IInv /\ EndsInOrder /\ UdpInv /\ HandlersBusy
    /\ ConnectionsOK /\ DatagramsOK

(* No step takes a phase back, or skips one that it may not skip.            *)
LEMMA EveryPhaseStep ==
    RefinementInv /\ [WebserverNext]_webserverVars => Promise!PhaseMayChange
BY StepIsLifecycle, OnwardStep, PhaseFollows DEF RefinementInv, IInv

(* The steps of shutdown(), on any thread.                                   *)
LEMMA RefinesShutdown ==
    ASSUME RefinementInv, Promise!PhaseMayChange, NEW q \in Procs, ShutdownStep(q)
    PROVE  Refined
<1>1. DatagramsOK /\ ConnectionsOK
  BY DEF RefinementInv
<1>2. CASE UNCHANGED netVars
  BY <1>1, <1>2, StillRefined
<1>3. CASE CloseTcp(q)
  <2> DEFINE S == {c \in Clients : conn[c] = "backlog"}
  <2>1. ioStopped'
    BY <1>3 DEF RefinementInv, EndsInOrder, CloseTcp, ShutdownCloseTcp, At
  <2>2. Phase' \in {"closing", "closed"}
    BY <2>1, PhaseIsNext
  <2>3. \A c \in S : TcpPromise(c) = "in" /\ TcpPromise(c)' = "dropped"
    BY <1>3 DEF CloseTcp, TcpPromise
  <2>4. \A c \in Clients \ S : TcpPromise(c)' = TcpPromise(c)
    BY <1>3 DEF CloseTcp, TcpPromise
  <2>5. UNCHANGED <<hungUp, replied>> /\ \A p \in Peers : Owed(p)' <= Owed(p)
    BY <1>1, <1>3, OwedSame DEF CloseTcp, udpVars
  <2> HIDE DEF S
  <2>6. S \in SUBSET Clients
    BY DEF S
  <2> QED
    BY <2>2, <2>3, <2>4, <2>5, <2>6, GivesUp
<1>4. CASE CloseUdp(q)
  <2>1. \A p \in Peers : Owed(p)' <= Owed(p)
    BY <1>1, <1>4, ClosedLoses DEF CloseUdp
  <2>2. UNCHANGED <<hungUp, replied, conn>>
    BY <1>4 DEF CloseUdp, tcpVars
  <2> QED
    BY <2>1, <2>2, TcpSame, LosesOnly
<1> QED
  BY <1>2, <1>3, <1>4 DEF ShutdownStep

(* The steps of application threads are steps of Service.                    *)
LEMMA RefinesOwner ==
    ASSUME RefinementInv, Promise!PhaseMayChange, ~ crashed, NEW t \in Threads,
           OwnerStep(t) \/ (Call(t) /\ UNCHANGED netVars)
    PROVE  Refined
<1>1. DatagramsOK /\ ConnectionsOK /\ PcOK /\ t \in Procs
  BY TypeParts DEF RefinementInv, IInv, Procs
<1>2. CASE UNCHANGED netVars
  BY <1>1, <1>2, StillRefined
<1>3. CASE StartUdp(t)
  <2>1. \A p \in Peers : Owed(p)' <= Owed(p)
    BY <1>1, <1>3, DeliverLoses, OwedSame DEF StartUdp, ReceiveStarts
  <2>2. UNCHANGED <<hungUp, replied, conn>>
    BY <1>3 DEF StartUdp, tcpVars
  <2> QED
    BY <2>1, <2>2, TcpSame, LosesOnly
<1>4. CASE ShutdownStep(t)
  BY <1>1, <1>4, RefinesShutdown
<1>5. CASE DestroySockets(t) /\ crashed'
  <2>1. UNCHANGED <<hungUp, replied, conn, socketQueue, buffer, asker, unsent>>
    BY <1>5 DEF DestroySockets, udpVars
  <2> QED
    BY <1>1, <2>1, OwedSame, TcpSame, LosesOnly
<1>6. CASE DestroySockets(t) /\ ~ crashed'
  <2> DEFINE S == {c \in Clients : conn[c] \in {"backlog", "reading", "replying"}}
  <2>1. pc'[t] = "gone"
    BY <1>1, <1>6, Moves DEF DestroySockets, DestroyMembers, Crash
  <2>2. Phase' \in {"closing", "closed"}
    BY <2>1, PhaseIsNext DEF Destroyed
  <2>3. \A c \in S : TcpPromise(c) = "in" /\ TcpPromise(c)' = "dropped"
    BY <1>6 DEF DestroySockets, TcpPromise
  <2>4. \A c \in Clients \ S : TcpPromise(c)' = TcpPromise(c)
    BY <1>1, <1>6 DEF DestroySockets, TcpPromise, ConnectionsOK, Accepted
  <2>5. UNCHANGED <<hungUp, replied>> /\ \A p \in Peers : Owed(p)' <= Owed(p)
    BY <1>1, <1>6, ClosedLoses DEF DestroySockets
  <2> HIDE DEF S
  <2>6. S \in SUBSET Clients
    BY DEF S
  <2> QED
    BY <2>2, <2>3, <2>4, <2>5, <2>6, GivesUp
<1> QED
  BY <1>2, <1>3, <1>4, <1>5, <1>6 DEF OwnerStep

(* While a handler is executed the object serves, or closes.                 *)
LEMMA HandlerMayAnswer ==
    ASSUME RefinementInv, ~ crashed, ~ crashed', UNCHANGED ioStopped,
           pc[Io] \in {"tcpSend", "udpSend"}, pc'[Io] \in {"run", "udpRearm"},
           \A t \in Threads : pc'[t] = pc[t]
    PROVE  Promise!MayAnswer
<1>1. ~ Destroyed /\ ~ Destroyed'
  BY DEF RefinementInv, EndsInOrder, Vacated, IoLive, Destroyed
<1>2. ioStopped \in BOOLEAN
  BY DEF RefinementInv, IInv, TypeOK
<1>3. Answering /\ ~ Answering'
  BY DEF Answering, ShutdownLabels
<1> QED
  BY <1>1, <1>2, <1>3, PhaseIs, PhaseIsNext DEF Promise!MayAnswer

(* sendTcpResponse is the answer to the client of the handler.               *)
LEMMA RefinesTcpReply ==
    ASSUME RefinementInv, Promise!PhaseMayChange, ~ crashed, TcpReply
    PROVE  Refined
<1>1. DatagramsOK /\ ConnectionsOK /\ PcOK /\ Io \in Procs /\ Io \notin Threads
  BY TypeParts, LifecycleAssumption DEF RefinementInv, IInv, Procs
<1>2. PICK c \in Clients : c = client /\ conn[c] = "replying"
  BY DEF TcpReply, TcpSend, At, RefinementInv, HandlersBusy, InTcp
<1>3. conn' = [conn EXCEPT ![c] = "writing"] /\ UNCHANGED hungUp
  BY <1>2 DEF TcpReply
<1>4. TcpPromise(c) = "in" /\ TcpPromise(c)' = "answered"
      /\ \A d \in Clients \ {c} : TcpPromise(d)' = TcpPromise(d)
  <2>1. conn'[c] = "writing" /\ \A d \in Clients \ {c} : conn'[d] = conn[d]
    BY <1>1, <1>3 DEF ConnectionsOK
  <2> QED
    BY <1>2, <2>1 DEF TcpPromise
<1>5. Promise!MayAnswer
  <2>1. pc[Io] = "tcpSend" /\ pc'[Io] = "run" /\ UNCHANGED <<ioStopped, crashed>>
        /\ \A t \in Threads : pc'[t] = pc[t]
    BY <1>1, Moves DEF TcpReply, TcpSend, At, members, Procs
  <2> QED
    BY <2>1, HandlerMayAnswer
<1>6. UNCHANGED replied /\ \A p \in Peers : Owed(p)' = Owed(p)
  BY <1>1, OwedSame DEF TcpReply, udpVars
<1> QED
  BY <1>2, <1>3, <1>4, <1>5, <1>6, AnswersOne

(* A reply uses up the datagram that is answered.                            *)
LEMMA RefinesUdpReply ==
    ASSUME RefinementInv, Promise!PhaseMayChange, ~ crashed, ~ overlapped, UdpReply
    PROVE  Refined
<1>1. DatagramsOK /\ PcOK /\ Io \in Procs /\ Io \notin Threads
  BY TypeParts, LifecycleAssumption DEF RefinementInv, IInv, Procs
<1>2. PICK q \in Peers : q = asker /\ m_remoteEndpoint = q /\ q # NoPeer
  BY WebserverAssumption
  DEF UdpReply, UdpSend, At, RefinementInv, HandlersBusy, InUdp, UdpInv, UdpReplyToSender
<1>3. asker' = NoPeer /\ UNCHANGED <<conn, hungUp, socketQueue, buffer>>
  BY DEF UdpReply, tcpVars
<1>4. \A p \in Peers : One(asker', p) = 0 /\ One(asker, p) = IF p = q THEN 1 ELSE 0
  BY <1>2, <1>3, WebserverAssumption DEF One
<1>5. \A p \in Peers :
        /\ CountOf(p, socketQueue) + One(buffer, p) \in Nat /\ unsent[p] \in Nat
        /\ Owed(p) = CountOf(p, socketQueue) + One(buffer, p) + One(asker, p) + unsent[p]
        /\ Owed(p)' = CountOf(p, socketQueue) + One(buffer, p) + One(asker', p) + unsent'[p]
  <2>1. \A p \in Peers : CountOf(p, socketQueue) \in Nat /\ One(buffer, p) \in Nat
    BY <1>1, PlacesFinite DEF DatagramsOK, One
  <2>2. \A p \in Peers : unsent[p] \in Nat
    BY <1>1 DEF DatagramsOK
  <2>3. \A p \in Peers :
          Owed(p)' = CountOf(p, socketQueue) + One(buffer, p) + One(asker', p) + unsent'[p]
    BY <1>3, OwedIsNext
  <2> QED
    BY <2>1, <2>2, <2>3, OwedIs
<1>6. CASE replied' = [replied EXCEPT ![m_remoteEndpoint] = @ + 1] /\ UNCHANGED unsent
  <2>1. Promise!MayAnswer
    <3>1. pc[Io] = "udpSend" /\ pc'[Io] = "udpRearm" /\ UNCHANGED <<ioStopped, crashed>>
          /\ \A t \in Threads : pc'[t] = pc[t]
      BY <1>1, Moves DEF UdpReply, UdpSend, At, members, Procs
    <3> QED
      BY <3>1, HandlerMayAnswer
  <2>2. Owed(q) > 0 /\ Owed(q)' = Owed(q) - 1
    BY <1>2, <1>4, <1>5, <1>6
  <2>3. \A p \in Peers \ {q} : Owed(p)' = Owed(p)
    BY <1>4, <1>5, <1>6
  <2> QED
    BY <1>2, <1>3, <1>6, <2>1, <2>2, <2>3, RepliesOne
<1>7. CASE unsent' = [unsent EXCEPT ![m_remoteEndpoint] = @ + 1] /\ UNCHANGED replied
  <2>1. \A p \in Peers : unsent'[p] = unsent[p] + One(asker, p)
    BY <1>1, <1>2, <1>4, <1>7 DEF DatagramsOK
  <2>2. \A p \in Peers : Owed(p)' <= Owed(p)
    BY <1>4, <1>5, <2>1
  <2> QED
    BY <1>3, <1>7, <2>2, TcpSame, LosesOnly
<1>8. CASE UNCHANGED <<replied, unsent>>
  <2>1. \A p \in Peers : Owed(p)' <= Owed(p)
    BY <1>4, <1>5, <1>8
  <2> QED
    BY <1>3, <1>8, <2>1, TcpSame, LosesOnly
<1> QED
  BY <1>6, <1>7, <1>8 DEF UdpReply

(* The steps of the Io thread in a handler are steps of Service.             *)
LEMMA RefinesHandler ==
    ASSUME RefinementInv, Promise!PhaseMayChange, ~ crashed, ~ overlapped, HandlerStep
    PROVE  Refined
<1>1. DatagramsOK /\ Io \in Procs
  BY DEF RefinementInv, Procs
<1>2. CASE UNCHANGED netVars
  BY <1>1, <1>2, StillRefined
<1>3. CASE UdpNext
  <2>1. \A p \in Peers : Owed(p)' <= Owed(p)
    BY <1>1, <1>3, DeliverLoses, OwedSame DEF UdpNext, ReceiveStarts
  <2>2. UNCHANGED <<hungUp, replied, conn>>
    BY <1>3 DEF UdpNext, tcpVars
  <2> QED
    BY <2>1, <2>2, TcpSame, LosesOnly
<1> QED
  BY <1>1, <1>2, <1>3, RefinesShutdown, RefinesTcpReply, RefinesUdpReply DEF HandlerStep

(* So are the events that run() takes out of the context.                    *)
LEMMA RefinesEvent ==
    ASSUME RefinementInv, Promise!PhaseMayChange,
           \/ (RenderShutdown \/ HandlerFails) /\ UNCHANGED netVars
           \/ UdpDeliver \/ UdpReceived \/ UdpError \/ AcceptError
           \/ \E c \in Clients :
                 AcceptClient(c) \/ ReadDone(c) \/ ReadError(c) \/ WriteMore(c) \/ WriteDone(c)
    PROVE  Refined
<1>1. DatagramsOK /\ ConnectionsOK
  BY DEF RefinementInv
<1>2. CASE UNCHANGED netVars
  BY <1>1, <1>2, StillRefined
<1>3. CASE UdpDeliver
  <2>1. \A p \in Peers : Owed(p)' <= Owed(p)
    BY <1>1, <1>3, DeliverLoses DEF UdpDeliver
  <2> QED
    BY <1>3, <2>1, TcpSame, LosesOnly DEF UdpDeliver, tcpVars
<1>4. CASE UdpReceived
  <2>1. asker' = buffer /\ buffer' = NoPeer
        /\ UNCHANGED <<hungUp, replied, conn, socketQueue, unsent>>
    BY <1>4 DEF UdpReceived, tcpVars
  <2>2. \A p \in Peers :
          /\ One(asker', p) = One(buffer, p) /\ One(buffer', p) = 0
          /\ One(buffer, p) \in Nat /\ One(asker, p) \in Nat
    BY <2>1, WebserverAssumption DEF One
  <2>3. \A p \in Peers : CountOf(p, socketQueue) \in Nat /\ unsent[p] \in Nat
    BY <1>1, PlacesFinite DEF DatagramsOK
  <2>4. \A p \in Peers :
          Owed(p)' = CountOf(p, socketQueue) + One(buffer', p) + One(asker', p) + unsent[p]
    BY <2>1, OwedIsNext
  <2>5. \A p \in Peers : Owed(p)' <= Owed(p)
    BY <2>2, <2>3, <2>4, OwedIs
  <2> QED
    BY <2>1, <2>5, TcpSame, LosesOnly
<1>5. ASSUME NEW c \in Clients,
             AcceptClient(c) \/ ReadDone(c) \/ ReadError(c) \/ WriteMore(c) \/ WriteDone(c)
      PROVE  Refined
  <2>1. UNCHANGED <<hungUp, replied>> /\ \A p \in Peers : Owed(p)' <= Owed(p)
    BY <1>1, <1>5, OwedSame
    DEF AcceptClient, ReadDone, ReadError, WriteMore, WriteDone, udpVars
  <2>2. CASE AcceptClient(c) \/ ReadDone(c) \/ WriteDone(c)
    <3>1. /\ \A d \in Clients \ {c} : conn'[d] = conn[d]
          /\ \/ conn[c] \in {"backlog", "reading"} /\ conn'[c] \in {"reading", "replying"}
             \/ conn[c] = "writing" /\ conn'[c] = "done"
      BY <1>1, <2>2 DEF AcceptClient, ReadDone, WriteDone, ConnectionsOK
    <3>2. \A d \in Clients : TcpPromise(d)' = TcpPromise(d)
      BY <3>1 DEF TcpPromise
    <3> QED
      BY <2>1, <3>2, LosesOnly
  <2>3. CASE WriteMore(c)
    BY <2>1, <2>3, TcpSame, LosesOnly DEF WriteMore
  <2>4. CASE ReadError(c)
    <3>1. /\ conn[c] = "reading" /\ c \in hungUp /\ conn'[c] = "closed"
          /\ \A d \in Clients \ {c} : conn'[d] = conn[d]
      BY <1>1, <2>4 DEF ReadError, ConnectionsOK
    <3>2. /\ TcpPromise(c) = "in" /\ TcpPromise(c)' = "dropped"
          /\ \A d \in Clients \ {c} : TcpPromise(d)' = TcpPromise(d)
      BY <3>1 DEF TcpPromise
    <3>3. {c} \in SUBSET Clients /\ {c} \subseteq hungUp
      BY <3>1
    <3> QED
      BY <2>1, <3>2, <3>3, GivesUp
  <2> QED
    BY <1>5, <2>2, <2>3, <2>4
<1> QED
  BY <1>2, <1>3, <1>4, <1>5 DEF UdpError, AcceptError

(* The clients, and the replies that the reactor sends later.                *)
LEMMA RefinesNetwork ==
    ASSUME RefinementInv, Promise!PhaseMayChange, ~ crashed,
           Network \/ \E p \in Peers : UdpSendLater(p)
    PROVE  Refined
<1>1. DatagramsOK /\ ConnectionsOK
  BY DEF RefinementInv
<1>2. Phase' = Phase
  BY PhaseSame DEF Network, Connect, SendSegment, HangUp, SendDatagram, UdpSendLater
<1>3. [p \in Peers |-> Owed(p)]' = [p \in Peers |-> Owed(p)]
        \/ ~ UNCHANGED <<socketQueue, buffer, asker, unsent>>
  BY <1>1, OwedSame
<1>4. [c \in Clients |-> TcpPromise(c)]' = [c \in Clients |-> TcpPromise(c)]
        \/ ~ UNCHANGED conn
  BY TcpSame
<1>5. ASSUME NEW c \in Clients, Connect(c) PROVE Refined
  <2>1. conn[c] = "out" /\ conn'[c] = "backlog"
        /\ \A d \in Clients \ {c} : conn'[d] = conn[d]
    BY <1>1, <1>5 DEF Connect, ConnectionsOK
  <2>2. TcpPromise(c) = "out" /\ TcpPromise(c)' = "in"
        /\ \A d \in Clients \ {c} : TcpPromise(d)' = TcpPromise(d)
    BY <2>1 DEF TcpPromise
  <2>3. [d \in Clients |-> TcpPromise(d)]'
            = [[d \in Clients |-> TcpPromise(d)] EXCEPT ![c] = "in"]
    BY <2>2
  <2>4. Promise!Connect(c)
    BY <1>2, <1>3, <1>5, <2>2, <2>3 DEF Promise!Connect, Connect, udpVars
  <2> QED
    BY <2>4 DEF Refined, Promise!ServiceNext
<1>6. ASSUME NEW c \in Clients, HangUp(c) PROVE Refined
  <2>1. Promise!HangUp(c)
    BY <1>2, <1>3, <1>4, <1>6 DEF Promise!HangUp, HangUp, udpVars
  <2> QED
    BY <2>1 DEF Refined, Promise!ServiceNext
<1>7. ASSUME NEW c \in Clients, SendSegment(c) PROVE Refined
  <2>1. UNCHANGED <<hungUp, replied, conn, socketQueue, buffer, asker, unsent>>
    BY <1>7 DEF SendSegment, udpVars
  <2> QED
    BY <1>1, <2>1, OwedSame, TcpSame, LosesOnly
<1>8. ASSUME NEW q \in Peers, SendDatagram(q) PROVE Refined
  <2>1. UNCHANGED <<hungUp, replied, conn, buffer, asker, unsent>>
        /\ socketQueue' = Append(socketQueue, q)
    BY <1>8 DEF SendDatagram, tcpVars
  <2>2. \A p \in Peers :
          CountOf(p, socketQueue') = CountOf(p, socketQueue) + (IF q = p THEN 1 ELSE 0)
    BY <1>1, <2>1, CountAppend DEF DatagramsOK
  <2>3. \A p \in Peers :
          /\ CountOf(p, socketQueue) \in Nat /\ unsent[p] \in Nat
          /\ One(buffer, p) \in Nat /\ One(asker, p) \in Nat
    BY <1>1, PlacesFinite DEF DatagramsOK, One
  <2>4. \A p \in Peers :
          Owed(p)' = CountOf(p, socketQueue') + One(buffer, p) + One(asker, p) + unsent[p]
    BY <2>1, OwedIsNext
  <2>5. Owed(q)' = Owed(q) + 1 /\ \A p \in Peers \ {q} : Owed(p)' = Owed(p)
    BY <2>2, <2>3, <2>4, OwedIs
  <2>6. [p \in Peers |-> Owed(p)]' = [[p \in Peers |-> Owed(p)] EXCEPT ![q] = @ + 1]
    BY <2>5
  <2>7. Promise!Ask(q)
    BY <1>2, <1>4, <2>1, <2>6 DEF Promise!Ask
  <2> QED
    BY <2>7 DEF Refined, Promise!ServiceNext
<1>9. ASSUME NEW q \in Peers, UdpSendLater(q) PROVE Refined
  <2>1. /\ UNCHANGED <<hungUp, conn, socketQueue, buffer, asker>>
        /\ replied' = [replied EXCEPT ![q] = @ + 1]
        /\ unsent[q] > 0 /\ unsent'[q] = unsent[q] - 1
        /\ \A p \in Peers \ {q} : unsent'[p] = unsent[p]
    BY <1>1, <1>9 DEF UdpSendLater, tcpVars, DatagramsOK
  <2>2. Promise!MayAnswer
    <3>1. ~ Destroyed
      BY <1>9 DEF RefinementInv, EndsInOrder, Vacated, IoLive, UdpSendLater, At
    <3>2. Phase = "serving"
      BY <1>9, <3>1, PhaseIs DEF UdpSendLater, At
    <3> QED
      BY <1>2, <3>2 DEF Promise!MayAnswer
  <2>3. \A p \in Peers :
          /\ CountOf(p, socketQueue) \in Nat /\ unsent[p] \in Nat
          /\ One(buffer, p) \in Nat /\ One(asker, p) \in Nat
    BY <1>1, PlacesFinite DEF DatagramsOK, One
  <2>4. \A p \in Peers :
          Owed(p)' = CountOf(p, socketQueue) + One(buffer, p) + One(asker, p) + unsent'[p]
    BY <2>1, OwedIsNext
  <2>5. /\ Owed(q) > 0 /\ Owed(q)' = Owed(q) - 1
        /\ \A p \in Peers \ {q} : Owed(p)' = Owed(p)
    BY <2>1, <2>3, <2>4, OwedIs
  <2> QED
    BY <2>1, <2>2, <2>5, RepliesOne
<1> QED
  BY <1>5, <1>6, <1>7, <1>8, <1>9 DEF Network

(* The server keeps its promise to any number of clients and peers, TCP and  *)
(* UDP side by side, as long as lifecycle calls do not overlap.              *)
THEOREM PromiseKept == WebserverSpec /\ [](~ overlapped) => KeepsPromise
<1>1. WebserverInit => Promise!ServiceInit
  <2> SUFFICES ASSUME WebserverInit PROVE Promise!ServiceInit
      OBVIOUS
  <2>1. Phase = "new"
    BY PhaseIs, LifecycleAssumption DEF WebserverInit, LifecycleInit, Destroyed, Procs
  <2>2. \A c \in Clients : TcpPromise(c) = "out"
    BY DEF WebserverInit, TcpPromise
  <2>3. \A p \in Peers : Owed(p) = 0
    BY OwedIs, CountEmpty, WebserverAssumption DEF WebserverInit, One
  <2> QED
    BY <2>1, <2>2, <2>3 DEF Promise!ServiceInit, WebserverInit
<1>2. WebserverInit => EndsInOrder /\ HandlersBusy
  <2> SUFFICES ASSUME WebserverInit PROVE EndsInOrder /\ HandlersBusy
      OBVIOUS
  <2>1. pc[Io] = "none"
    BY DEF WebserverInit, LifecycleInit, Procs
  <2> QED
    BY <2>1, EndsInit DEF WebserverInit, HandlersBusy, InTcp, InUdp, ShutdownLabels
<1>3. IInv /\ ConnectionsOK /\ DatagramsOK /\ EndsInOrder /\ HandlersBusy
        /\ [WebserverNext]_webserverVars
        => EndsInOrder' /\ HandlersBusy'
  BY StepIsLifecycle, ClosedStep, BusyStep, TypeParts DEF IInv, EndsKept
<1>4. RefinementInv /\ ~ overlapped /\ [WebserverNext]_webserverVars => Refined
  <2> SUFFICES ASSUME RefinementInv, ~ overlapped, [WebserverNext]_webserverVars
               PROVE  Refined
      OBVIOUS
  <2>1. Promise!PhaseMayChange
    BY EveryPhaseStep
  <2>2. CASE UNCHANGED webserverVars \/ (Done /\ UNCHANGED netVars)
    BY <2>1, <2>2, StillRefined DEF webserverVars, RefinementInv
  <2> QED
    BY <2>1, <2>2, RefinesOwner, RefinesHandler, RefinesEvent, RefinesNetwork DEF WebserverNext
<1>5. WebserverTypeOK => ConnectionsOK /\ DatagramsOK
  BY NetTypeParts
<1> QED
  BY <1>1, <1>2, <1>3, <1>4, <1>5, WebserverIsLifecycle, Invariance, WebserverTypeCorrect,
     UdpInvariance, PTL
  DEF WebserverSpec, KeepsPromise, Promise!ServiceSpec, RefinementInv, Refined
=============================================================================
