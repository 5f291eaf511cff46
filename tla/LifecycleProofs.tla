--------------------------- MODULE LifecycleProofs ---------------------------
(***************************************************************************)
(* Proofs about one Webserver object for any set of application threads    *)
(* and any bounds.                                                         *)
(***************************************************************************)
EXTENDS Lifecycle, TLAPS

(* TypeOK, apart: the program counters, and the rest.                        *)
PcOK ==
    /\ pc \in [Procs -> ThreadLabels \cup IoLabels]
    /\ \A t \in Threads : pc[t] \in ThreadLabels
    /\ pc[Io] \in IoLabels
    /\ resume \in {"udpSend", "tcpSend"}

(* The types of the variables besides pc.                                    *)
DataOK ==
    /\ m_keepRunning \in BOOLEAN
    /\ m_isUdpOn \in BOOLEAN
    /\ joinable \in BOOLEAN
    /\ ioStopped \in BOOLEAN
    /\ acceptorOpen \in BOOLEAN
    /\ udpOpen \in BOOLEAN
    /\ accepts \in Nat
    /\ receives \in Nat
    /\ connections \in Nat
    /\ destroyer \in Threads \cup {NoThread}
    /\ crashed \in BOOLEAN
    /\ starts \in Nat
    /\ overlapped \in BOOLEAN
    /\ selfShutdown \in BOOLEAN
    /\ handlerFailed \in BOOLEAN

(* The type invariant by its two parts.                                      *)
LEMMA TypeParts == TypeOK <=> PcOK /\ DataOK
BY DEF TypeOK, PcOK, DataOK

(* The same of the next state.                                               *)
LEMMA TypePartsNext == TypeOK' <=> PcOK' /\ DataOK'
BY DEF TypeOK, PcOK, DataOK

(* What a jump to another label does to the program counters.                *)
LEMMA GotoPc ==
    ASSUME PcOK, NEW p \in Procs, NEW label, Goto(p, label),
           resume' \in {"udpSend", "tcpSend"},
           p = Io => label \in IoLabels,
           p # Io => label \in ThreadLabels
    PROVE  PcOK'
BY LifecycleAssumption DEF PcOK, Procs, Goto

(* TypeOK holds initially.                                                   *)
LEMMA TypeInit == LifecycleInit => TypeOK
<1> SUFFICES ASSUME LifecycleInit PROVE TypeOK
    OBVIOUS
<1>1. PcOK
  BY LifecycleAssumption
  DEF LifecycleInit, PcOK, Procs, ThreadLabels, IoLabels
<1> QED
  BY <1>1 DEF LifecycleInit, TypeOK, PcOK

(* Every action keeps the program counters typed.                            *)
LEMMA PcStep == PcOK /\ [LifecycleNext]_lifecycleVars => PcOK'
<1> SUFFICES ASSUME PcOK, [LifecycleNext]_lifecycleVars PROVE PcOK'
    OBVIOUS
<1> USE DEF members, ops, history
<1>a. \A t \in Threads : t # Io /\ t \in Procs
  BY LifecycleAssumption DEF Procs
<1>b. StartLabels \cup ShutdownLabels \cup DtorLabels \cup {"idle", "gone"} = ThreadLabels
  BY DEF ThreadLabels
<1>c. HandlerLabels \cup ShutdownLabels \cup {"run", "finished"} \subseteq IoLabels
  BY DEF IoLabels
<1>d. resume \in HandlerLabels /\ resume \in {"udpSend", "tcpSend"}
  BY DEF PcOK, HandlerLabels
<1>1. ASSUME NEW t \in Threads, CallStart(t) \/ CallShutdown(t) \/ CallDestroy(t)
      PROVE  PcOK'
  <2>1. \E label \in {"start", "clear", "dtor"} : Goto(t, label) /\ resume' = resume
    BY <1>1 DEF CallStart, CallShutdown, CallDestroy, Enter
  <2> QED
    BY <2>1, <1>a, <1>b, <1>d, GotoPc DEF StartLabels, ShutdownLabels, DtorLabels
<1>2. ASSUME NEW t \in Threads,
             StartCheck(t) \/ StartSet(t) \/ StartArmUdp(t) \/ StartArmTcp(t) \/ StartAssign(t)
      PROVE  PcOK'
  <2>1. CASE \E label \in {"idle", "set", "armUdp", "armTcp", "spawn"} :
                Goto(t, label) /\ resume' = resume
    BY <2>1, <1>a, <1>b, <1>d, GotoPc DEF StartLabels
  <2>2. CASE UNCHANGED <<pc, resume>>
    BY <2>2 DEF PcOK
  <2> QED
    BY <1>2, <2>1, <2>2 DEF StartCheck, StartSet, StartArmUdp, StartArmTcp, StartAssign, Crash
<1>3. ASSUME NEW t \in Threads, StartSpawn(t) PROVE PcOK'
  <2>1. CASE pc' = [pc EXCEPT ![t] = "assign", ![Io] = "run"] /\ resume' = resume
    BY <2>1, <1>a, <1>b, <1>c DEF PcOK, StartLabels, Procs
  <2>2. CASE UNCHANGED <<pc, resume>>
    BY <2>2 DEF PcOK
  <2>3. CASE Goto(t, "idle") /\ resume' = resume
    BY <2>3, <1>a, <1>b, <1>d, GotoPc
  <2> QED
    BY <1>3, <2>1, <2>2, <2>3 DEF StartSpawn, Crash
<1>4. ASSUME NEW p \in Procs, Shutdown(p) PROVE PcOK'
  <2>1. CASE \E label \in ShutdownLabels : Goto(p, label) /\ resume' = resume
    BY <2>1, <1>a, <1>b, <1>c, <1>d, GotoPc
  <2>2. CASE Goto(p, Return(p)) /\ resume' = resume
    BY <2>2, <1>a, <1>b, <1>c, <1>d, GotoPc DEF Return, DtorLabels
  <2>3. CASE UNCHANGED <<pc, resume>>
    BY <2>3 DEF PcOK
  <2>4. CASE Goto(Io, resume) /\ resume' = resume
    BY <2>4, <1>c, <1>d, GotoPc DEF Procs
  <2> QED
    BY <1>4, <2>1, <2>2, <2>3, <2>4
    DEF Shutdown, ShutdownClear, ShutdownStop, ShutdownCloseTcp, ShutdownCloseUdp,
        ShutdownTest, ShutdownJoin, Crash, ShutdownLabels
<1>5. ASSUME NEW t \in Threads, DestroyCheck(t) \/ DestroyMembers(t) PROVE PcOK'
  <2>1. CASE \E label \in {"clear", "members", "gone"} : Goto(t, label) /\ resume' = resume
    BY <2>1, <1>a, <1>b, <1>d, GotoPc DEF ShutdownLabels, DtorLabels
  <2>2. CASE UNCHANGED <<pc, resume>>
    BY <2>2 DEF PcOK
  <2> QED
    BY <1>5, <2>1, <2>2 DEF DestroyCheck, DestroyMembers, Crash
<1>6. ASSUME IoExit \/ AcceptCheck \/ AcceptRearm \/ RenderReturn \/ TcpSend \/ UdpSend
             \/ UdpRearm \/ (IoEvent /\ ~ HandlerFails)
      PROVE  PcOK'
  <2>1. \E label \in HandlerLabels \cup {"run", "finished", "clear"} : Goto(Io, label)
    BY <1>6
    DEF IoExit, AcceptCheck, AcceptRearm, RenderReturn, TcpSend, UdpSend, UdpRearm,
        IoEvent, IoAccept, IoReceive, IoTcp, RenderShutdown, IoDispatch, HandlerLabels
  <2>2. resume' \in {"udpSend", "tcpSend"}
    BY <1>6, <1>d
    DEF IoExit, AcceptCheck, AcceptRearm, RenderReturn, TcpSend, UdpSend, UdpRearm,
        IoEvent, IoAccept, IoReceive, IoTcp, RenderShutdown, IoDispatch
  <2> QED
    BY <2>1, <2>2, <1>c, GotoPc DEF Procs, ShutdownLabels
<1>7. CASE UNCHANGED lifecycleVars \/ HandlerFails
  BY <1>7 DEF lifecycleVars, HandlerFails, PcOK
<1> QED
  BY <1>1, <1>2, <1>3, <1>4, <1>5, <1>6, <1>7
  DEF LifecycleNext, Call, ThreadStep, IoStep, Done, Procs

(* Every action keeps the other variables typed.                             *)
LEMMA DataStep == DataOK /\ [LifecycleNext]_lifecycleVars => DataOK'
<1> SUFFICES ASSUME DataOK, [LifecycleNext]_lifecycleVars PROVE DataOK'
    OBVIOUS
<1> USE DEF DataOK, members, ops, history
<1>1. ASSUME NEW t \in Threads, Call(t) PROVE DataOK'
  <2>1. CASE CallStart(t)
    BY <2>1 DEF CallStart, Enter
  <2>2. CASE CallShutdown(t)
    BY <2>2 DEF CallShutdown, Enter
  <2>3. CASE CallDestroy(t)
    BY <2>3 DEF CallDestroy, Enter
  <2> QED
    BY <1>1, <2>1, <2>2, <2>3 DEF Call
<1>2. ASSUME NEW t \in Threads, ThreadStep(t), ~ Shutdown(t) PROVE DataOK'
  <2>1. CASE StartCheck(t)
    BY <2>1 DEF StartCheck
  <2>2. CASE StartSet(t)
    BY <2>2 DEF StartSet
  <2>3. CASE StartArmUdp(t)
    BY <2>3 DEF StartArmUdp, receiveUdpRequest
  <2>4. CASE StartArmTcp(t)
    BY <2>4 DEF StartArmTcp, acceptTcpConnection
  <2>5. CASE StartSpawn(t)
    BY <2>5 DEF StartSpawn, Crash
  <2>6. CASE StartAssign(t)
    BY <2>6 DEF StartAssign, Crash
  <2>7. CASE DestroyCheck(t)
    BY <2>7 DEF DestroyCheck
  <2>8. CASE DestroyMembers(t)
    <3>1. CASE Crash
      BY <3>1 DEF Crash
    <3>2. CASE /\ UNCHANGED <<m_keepRunning, m_isUdpOn, joinable, ioStopped,
                              destroyer, crashed, history>>
               /\ acceptorOpen' = FALSE /\ udpOpen' = FALSE
               /\ accepts' = 0 /\ receives' = 0 /\ connections' = 0
      BY <3>2
    <3> QED
      BY <2>8, <3>1, <3>2 DEF DestroyMembers
  <2> QED
    BY <1>2, <2>1, <2>2, <2>3, <2>4, <2>5, <2>6, <2>7, <2>8 DEF ThreadStep
<1>3. ASSUME NEW p \in Procs, Shutdown(p) PROVE DataOK'
  <2>1. CASE ShutdownClear(p)
    BY <2>1 DEF ShutdownClear
  <2>2. CASE ShutdownStop(p)
    BY <2>2 DEF ShutdownStop
  <2>3. CASE ShutdownCloseTcp(p)
    BY <2>3 DEF ShutdownCloseTcp
  <2>4. CASE ShutdownCloseUdp(p)
    BY <2>4 DEF ShutdownCloseUdp
  <2>5. CASE ShutdownTest(p)
    BY <2>5 DEF ShutdownTest
  <2>6. CASE ShutdownJoin(p)
    BY <2>6 DEF ShutdownJoin, Crash
  <2> QED
    BY <1>3, <2>1, <2>2, <2>3, <2>4, <2>5, <2>6 DEF Shutdown
<1>4. ASSUME IoStep, ~ Shutdown(Io) PROVE DataOK'
  <2>1. CASE IoExit
    BY <2>1 DEF IoExit
  <2>2. CASE AcceptCheck
    BY <2>2 DEF AcceptCheck
  <2>3. CASE AcceptRearm
    BY <2>3 DEF AcceptRearm, acceptTcpConnection
  <2>4. CASE RenderReturn
    BY <2>4 DEF RenderReturn
  <2>5. CASE TcpSend
    BY <2>5 DEF TcpSend
  <2>6. CASE UdpSend
    BY <2>6 DEF UdpSend
  <2>7. CASE UdpRearm
    BY <2>7 DEF UdpRearm, receiveUdpRequest
  <2> QED
    BY <1>4, <2>1, <2>2, <2>3, <2>4, <2>5, <2>6, <2>7 DEF IoStep
<1>5. ASSUME IoEvent PROVE DataOK'
  <2>1. CASE IoAccept
    BY <2>1 DEF IoAccept, IoDispatch
  <2>2. CASE IoReceive
    BY <2>2 DEF IoReceive, IoDispatch
  <2>3. CASE IoTcp
    BY <2>3 DEF IoTcp, IoDispatch
  <2>4. CASE RenderShutdown
    BY <2>4 DEF RenderShutdown
  <2>5. CASE HandlerFails
    BY <2>5 DEF HandlerFails
  <2> QED
    BY <1>5, <2>1, <2>2, <2>3, <2>4, <2>5 DEF IoEvent
<1>6. CASE UNCHANGED lifecycleVars
  BY <1>6 DEF lifecycleVars
<1> QED
  BY <1>1, <1>2, <1>3, <1>4, <1>5, <1>6 DEF LifecycleNext, Done, Procs

(* The program's variables keep their types.                                 *)
THEOREM TypeCorrect == LifecycleSpec => []TypeOK
<1>1. TypeOK /\ [LifecycleNext]_lifecycleVars => TypeOK'
  BY TypeParts, TypePartsNext, PcStep, DataStep
<1> QED
  BY TypeInit, <1>1, PTL DEF LifecycleSpec

-----------------------------------------------------------------------------
(* A jump changes the label of one process, and of no other.                 *)
LEMMA Moves ==
    ASSUME PcOK, NEW p \in Procs, NEW label, Goto(p, label)
    PROVE  pc'[p] = label /\ \A q \in Procs \ {p} : pc'[q] = pc[q]
BY DEF PcOK, Goto

(* Every step preserves ThreadIsOwned.                                       *)
LEMMA OwnedStep ==
    PcOK /\ ThreadIsOwned /\ [LifecycleNext]_lifecycleVars => ThreadIsOwned'
<1> SUFFICES ASSUME PcOK, ThreadIsOwned, [LifecycleNext]_lifecycleVars PROVE ThreadIsOwned'
    OBVIOUS
<1> USE LifecycleAssumption DEF ThreadIsOwned, IoLive, Procs, At, members, ops
<1>1. ASSUME NEW t \in Threads, Call(t) PROVE ThreadIsOwned'
  <2>1. CASE CallStart(t)
    BY <2>1, Moves DEF CallStart, Enter
  <2>2. CASE CallShutdown(t)
    BY <2>2, Moves DEF CallShutdown, Enter
  <2>3. CASE CallDestroy(t)
    BY <2>3, Moves DEF CallDestroy, Enter
  <2> QED
    BY <1>1, <2>1, <2>2, <2>3 DEF Call
<1>2. ASSUME NEW t \in Threads, ThreadStep(t), ~ Shutdown(t) PROVE ThreadIsOwned'
  <2>1. CASE StartCheck(t)
    BY <2>1, Moves DEF StartCheck
  <2>2. CASE StartSet(t)
    BY <2>2, Moves DEF StartSet
  <2>3. CASE StartArmUdp(t)
    BY <2>3, Moves DEF StartArmUdp
  <2>4. CASE StartArmTcp(t)
    BY <2>4, Moves DEF StartArmTcp
  <2>5. CASE StartSpawn(t)
    BY <2>5, Moves DEF StartSpawn, Crash, PcOK, Goto
  <2>6. CASE StartAssign(t)
    BY <2>6, Moves DEF StartAssign, Crash
  <2>7. CASE DestroyCheck(t)
    BY <2>7, Moves DEF DestroyCheck
  <2>8. CASE DestroyMembers(t)
    BY <2>8, Moves DEF DestroyMembers, Crash
  <2> QED
    BY <1>2, <2>1, <2>2, <2>3, <2>4, <2>5, <2>6, <2>7, <2>8 DEF ThreadStep
<1>3. ASSUME NEW p \in Procs, Shutdown(p) PROVE ThreadIsOwned'
  <2>1. CASE ShutdownClear(p)
    BY <2>1, Moves DEF ShutdownClear
  <2>2. CASE ShutdownStop(p)
    BY <2>2, Moves DEF ShutdownStop
  <2>3. CASE ShutdownCloseTcp(p)
    BY <2>3, Moves DEF ShutdownCloseTcp
  <2>4. CASE ShutdownCloseUdp(p)
    BY <2>4, Moves DEF ShutdownCloseUdp
  <2>5. CASE ShutdownTest(p)
    BY <2>5, Moves DEF ShutdownTest
  <2>6. CASE ShutdownJoin(p)
    BY <2>6, Moves DEF ShutdownJoin, Crash, PcOK, Goto
  <2> QED
    BY <1>3, <2>1, <2>2, <2>3, <2>4, <2>5, <2>6 DEF Shutdown
<1>4. ASSUME IoStep, ~ Shutdown(Io) PROVE ThreadIsOwned'
  <2>1. CASE IoExit
    BY <2>1, Moves DEF IoExit
  <2>2. CASE AcceptCheck
    BY <2>2, Moves DEF AcceptCheck
  <2>3. CASE AcceptRearm
    BY <2>3, Moves DEF AcceptRearm, acceptTcpConnection
  <2>4. CASE RenderReturn
    BY <2>4, Moves DEF RenderReturn
  <2>5. CASE TcpSend
    BY <2>5, Moves DEF TcpSend
  <2>6. CASE UdpSend
    BY <2>6, Moves DEF UdpSend
  <2>7. CASE UdpRearm
    BY <2>7, Moves DEF UdpRearm, receiveUdpRequest
  <2> QED
    BY <1>4, <2>1, <2>2, <2>3, <2>4, <2>5, <2>6, <2>7 DEF IoStep
<1>5. ASSUME IoEvent PROVE ThreadIsOwned'
  <2>1. CASE IoAccept
    BY <2>1, Moves DEF IoAccept, IoDispatch
  <2>2. CASE IoReceive
    BY <2>2, Moves DEF IoReceive, IoDispatch
  <2>3. CASE IoTcp
    BY <2>3, Moves DEF IoTcp, IoDispatch
  <2>4. CASE RenderShutdown
    BY <2>4, Moves DEF RenderShutdown
  <2>5. CASE HandlerFails
    BY <2>5 DEF HandlerFails
  <2> QED
    BY <1>5, <2>1, <2>2, <2>3, <2>4, <2>5 DEF IoEvent
<1>6. CASE UNCHANGED lifecycleVars
  BY <1>6 DEF lifecycleVars
<1> QED
  BY <1>1, <1>2, <1>3, <1>4, <1>5, <1>6 DEF LifecycleNext, Done

(* The thread inside run() is never detached.                                *)
THEOREM Owned == LifecycleSpec => []ThreadIsOwned
<1>1. LifecycleInit => ThreadIsOwned
  BY LifecycleAssumption DEF LifecycleInit, ThreadIsOwned, IoLive, Procs
<1> QED
  BY <1>1, OwnedStep, TypeCorrect, TypeParts, PTL DEF LifecycleSpec

-----------------------------------------------------------------------------
(* The inductive invariant.  Calls that do not overlap have the object to    *)
(* themselves; Io is in shutdown() only when a handler called it.            *)
Alone ==
    ~overlapped => \A p, q \in Procs : InCall(p) /\ InCall(q) => p = q

(* As long as no handler calls shutdown(), the Io thread is outside of it.   *)
IoOutside == ~selfShutdown => pc[Io] \notin ShutdownLabels

(* While calls are orderly the flag tells whether there is a thread to join, *)
(* except where a call is about to change one of the two.                    *)
FlagTellsThread ==
    Orderly =>
        /\ crashed => handlerFailed
        /\ joinable =>
              \/ m_keepRunning
              \/ \E t \in Threads : pc[t] \in ShutdownLabels \ {"clear"}
        /\ \A t \in Threads :
              /\ pc[t] = "set" => ~m_keepRunning
              /\ pc[t] \in {"armUdp", "armTcp", "spawn", "assign"} => m_keepRunning /\ ~joinable
              /\ pc[t] = "join" => joinable
              /\ pc[t] \in ShutdownLabels \ {"clear"} => ~m_keepRunning
              /\ pc[t] = "members" => ~m_keepRunning /\ ~joinable

(* The operations in progress, the one whose handler is executed included.   *)
AcceptCount == accepts + (IF pc[Io] \in {"accepted", "rearm"} THEN 1 ELSE 0)

(* Receives in progress, and the one whose handler is executed.              *)
ReceiveCount == receives + (IF pc[Io] \in {"udp", "udpSend", "udpRearm"} THEN 1 ELSE 0)

(* Nothing is in progress on a context that start() has yet to use.          *)
LoopsBegunOnce ==
    Orderly /\ ~ioStopped =>
        /\ AcceptCount <= 1 /\ ReceiveCount <= 1
        /\ ~m_keepRunning /\ (\A t \in Threads : pc[t] # "stop") =>
              AcceptCount = 0 /\ ReceiveCount = 0
        /\ \A t \in Threads :
              /\ pc[t] = "armUdp" => AcceptCount = 0 /\ ReceiveCount = 0
              /\ pc[t] = "armTcp" => AcceptCount = 0

(* The inductive invariant.                                                  *)
IInv == TypeOK /\ ThreadIsOwned /\ Alone /\ IoOutside /\ FlagTellsThread /\ LoopsBegunOnce

(* A call that begins while another is in progress sets overlapped.          *)
LEMMA EnterAlone ==
    ASSUME PcOK, Alone, NEW t \in Threads, NEW label, Enter(t, label)
    PROVE  Alone'
<1>1. t \in Procs /\ Goto(t, label)
  BY DEF Enter, Procs
<1>2. CASE overlapped \/ \E q \in Procs \ {t} : InCall(q)
  <2>1. overlapped'
    BY <1>2 DEF Enter
  <2> QED
    BY <2>1 DEF Alone
<1>3. CASE \A q \in Procs \ {t} : ~ InCall(q)
  <2>1. \A q \in Procs \ {t} : ~ InCall(q)'
    BY <1>1, <1>3, Moves DEF InCall
  <2> QED
    BY <2>1 DEF Alone
<1> QED
  BY <1>2, <1>3

(* Every step keeps calls that do not overlap alone.                          *)
LEMMA AloneStep ==
    PcOK /\ Alone /\ IoOutside /\ [LifecycleNext]_lifecycleVars => Alone'
<1> SUFFICES ASSUME PcOK, Alone, IoOutside,
                    [LifecycleNext]_lifecycleVars
             PROVE  Alone'
    OBVIOUS
<1> USE LifecycleAssumption
    DEF Alone, InCall, Procs, At, members, ops, history, StartLabels,
        ShutdownLabels, DtorLabels
<1>1. ASSUME NEW t \in Threads, Call(t) PROVE Alone'
  <2>1. CASE CallStart(t)
    BY <2>1, EnterAlone DEF CallStart
  <2>2. CASE CallShutdown(t)
    BY <2>2, EnterAlone DEF CallShutdown
  <2>3. CASE CallDestroy(t)
    BY <2>3, EnterAlone DEF CallDestroy
  <2> QED
    BY <1>1, <2>1, <2>2, <2>3 DEF Call
<1>2. ASSUME NEW t \in Threads, ThreadStep(t), ~ Shutdown(t) PROVE Alone'
  <2>1. CASE StartCheck(t)
    BY <2>1, Moves DEF StartCheck
  <2>2. CASE StartSet(t)
    BY <2>2, Moves DEF StartSet
  <2>3. CASE StartArmUdp(t)
    BY <2>3, Moves DEF StartArmUdp, receiveUdpRequest
  <2>4. CASE StartArmTcp(t)
    BY <2>4, Moves DEF StartArmTcp, acceptTcpConnection
  <2>5. CASE StartSpawn(t)
    BY <2>5, Moves DEF StartSpawn, Crash, PcOK, Goto
  <2>6. CASE StartAssign(t)
    BY <2>6, Moves DEF StartAssign, Crash
  <2>7. CASE DestroyCheck(t)
    BY <2>7, Moves DEF DestroyCheck
  <2>8. CASE DestroyMembers(t)
    BY <2>8, Moves DEF DestroyMembers, Crash
  <2> QED
    BY <1>2, <2>1, <2>2, <2>3, <2>4, <2>5, <2>6, <2>7, <2>8 DEF ThreadStep
<1>3. ASSUME NEW p \in Procs, Shutdown(p) PROVE Alone'
  <2>1. CASE ShutdownClear(p)
    BY <2>1, Moves DEF ShutdownClear
  <2>2. CASE ShutdownStop(p)
    BY <2>2, Moves DEF ShutdownStop
  <2>3. CASE ShutdownCloseTcp(p)
    BY <2>3, Moves DEF ShutdownCloseTcp
  <2>4. CASE ShutdownCloseUdp(p)
    BY <2>4, Moves DEF ShutdownCloseUdp
  <2>5. CASE ShutdownTest(p)
    BY <2>5, Moves DEF ShutdownTest, Return, PcOK
  <2>6. CASE ShutdownJoin(p)
    BY <2>6, Moves DEF ShutdownJoin, Crash, PcOK, Goto, Return
  <2> QED
    BY <1>3, <2>1, <2>2, <2>3, <2>4, <2>5, <2>6 DEF Shutdown
<1>4. ASSUME IoStep, ~ Shutdown(Io) PROVE Alone'
  <2>1. CASE IoExit
    BY <2>1, Moves DEF IoExit
  <2>2. CASE AcceptCheck
    BY <2>2, Moves DEF AcceptCheck
  <2>3. CASE AcceptRearm
    BY <2>3, Moves DEF AcceptRearm, acceptTcpConnection
  <2>4. CASE RenderReturn
    BY <2>4, Moves DEF RenderReturn, PcOK
  <2>5. CASE TcpSend
    BY <2>5, Moves DEF TcpSend
  <2>6. CASE UdpSend
    BY <2>6, Moves DEF UdpSend
  <2>7. CASE UdpRearm
    BY <2>7, Moves DEF UdpRearm, receiveUdpRequest
  <2> QED
    BY <1>4, <2>1, <2>2, <2>3, <2>4, <2>5, <2>6, <2>7 DEF IoStep
<1>5. ASSUME IoEvent PROVE Alone'
  <2>1. CASE IoAccept
    BY <2>1, Moves DEF IoAccept, IoDispatch
  <2>2. CASE IoReceive
    BY <2>2, Moves DEF IoReceive, IoDispatch
  <2>3. CASE IoTcp
    BY <2>3, Moves DEF IoTcp, IoDispatch
  <2>4. CASE RenderShutdown
    BY <2>4, Moves DEF RenderShutdown
  <2>5. CASE HandlerFails
    BY <2>5 DEF HandlerFails
  <2> QED
    BY <1>5, <2>1, <2>2, <2>3, <2>4, <2>5 DEF IoEvent
<1>6. CASE UNCHANGED lifecycleVars
  BY <1>6 DEF lifecycleVars
<1> QED
  BY <1>1, <1>2, <1>3, <1>4, <1>5, <1>6 DEF LifecycleNext, Done, Procs

(* Only a handler's call takes Io into shutdown().                             *)
LEMMA OutsideStep ==
    PcOK /\ IoOutside /\ [LifecycleNext]_lifecycleVars => IoOutside'
<1> SUFFICES ASSUME PcOK, IoOutside,
                    [LifecycleNext]_lifecycleVars
             PROVE  IoOutside'
    OBVIOUS
<1> USE LifecycleAssumption
    DEF IoOutside, Procs, At, members, ops, history, ShutdownLabels
<1>1. ASSUME NEW t \in Threads, Call(t) PROVE IoOutside'
  <2>1. CASE CallStart(t)
    BY <2>1, Moves DEF CallStart, Enter
  <2>2. CASE CallShutdown(t)
    BY <2>2, Moves DEF CallShutdown, Enter
  <2>3. CASE CallDestroy(t)
    BY <2>3, Moves DEF CallDestroy, Enter
  <2> QED
    BY <1>1, <2>1, <2>2, <2>3 DEF Call
<1>2. ASSUME NEW t \in Threads, ThreadStep(t), ~ Shutdown(t) PROVE IoOutside'
  <2>1. CASE StartCheck(t)
    BY <2>1, Moves DEF StartCheck
  <2>2. CASE StartSet(t)
    BY <2>2, Moves DEF StartSet
  <2>3. CASE StartArmUdp(t)
    BY <2>3, Moves DEF StartArmUdp, receiveUdpRequest
  <2>4. CASE StartArmTcp(t)
    BY <2>4, Moves DEF StartArmTcp, acceptTcpConnection
  <2>5. CASE StartSpawn(t)
    BY <2>5, Moves DEF StartSpawn, Crash, PcOK, Goto
  <2>6. CASE StartAssign(t)
    BY <2>6, Moves DEF StartAssign, Crash
  <2>7. CASE DestroyCheck(t)
    BY <2>7, Moves DEF DestroyCheck
  <2>8. CASE DestroyMembers(t)
    BY <2>8, Moves DEF DestroyMembers, Crash
  <2> QED
    BY <1>2, <2>1, <2>2, <2>3, <2>4, <2>5, <2>6, <2>7, <2>8 DEF ThreadStep
<1>3. ASSUME NEW p \in Procs, Shutdown(p) PROVE IoOutside'
  <2>1. CASE ShutdownClear(p)
    BY <2>1, Moves DEF ShutdownClear
  <2>2. CASE ShutdownStop(p)
    BY <2>2, Moves DEF ShutdownStop
  <2>3. CASE ShutdownCloseTcp(p)
    BY <2>3, Moves DEF ShutdownCloseTcp
  <2>4. CASE ShutdownCloseUdp(p)
    BY <2>4, Moves DEF ShutdownCloseUdp
  <2>5. CASE ShutdownTest(p)
    BY <2>5, Moves DEF ShutdownTest, Return, PcOK
  <2>6. CASE ShutdownJoin(p)
    BY <2>6, Moves DEF ShutdownJoin, Crash, PcOK, Goto, Return
  <2> QED
    BY <1>3, <2>1, <2>2, <2>3, <2>4, <2>5, <2>6 DEF Shutdown
<1>4. ASSUME IoStep, ~ Shutdown(Io) PROVE IoOutside'
  <2>1. CASE IoExit
    BY <2>1, Moves DEF IoExit
  <2>2. CASE AcceptCheck
    BY <2>2, Moves DEF AcceptCheck
  <2>3. CASE AcceptRearm
    BY <2>3, Moves DEF AcceptRearm, acceptTcpConnection
  <2>4. CASE RenderReturn
    BY <2>4, Moves DEF RenderReturn, PcOK
  <2>5. CASE TcpSend
    BY <2>5, Moves DEF TcpSend
  <2>6. CASE UdpSend
    BY <2>6, Moves DEF UdpSend
  <2>7. CASE UdpRearm
    BY <2>7, Moves DEF UdpRearm, receiveUdpRequest
  <2> QED
    BY <1>4, <2>1, <2>2, <2>3, <2>4, <2>5, <2>6, <2>7 DEF IoStep
<1>5. ASSUME IoEvent PROVE IoOutside'
  <2>1. CASE IoAccept
    BY <2>1, Moves DEF IoAccept, IoDispatch
  <2>2. CASE IoReceive
    BY <2>2, Moves DEF IoReceive, IoDispatch
  <2>3. CASE IoTcp
    BY <2>3, Moves DEF IoTcp, IoDispatch
  <2>4. CASE RenderShutdown
    BY <2>4, Moves DEF RenderShutdown
  <2>5. CASE HandlerFails
    BY <2>5 DEF HandlerFails
  <2> QED
    BY <1>5, <2>1, <2>2, <2>3, <2>4, <2>5 DEF IoEvent
<1>6. CASE UNCHANGED lifecycleVars
  BY <1>6 DEF lifecycleVars
<1> QED
  BY <1>1, <1>2, <1>3, <1>4, <1>5, <1>6 DEF LifecycleNext, Done, Procs

(* A call does not change what FlagTellsThread speaks of.                    *)
LEMMA EnterFlag ==
    ASSUME PcOK, FlagTellsThread, NEW t \in Threads, NEW label \in {"start", "clear", "dtor"},
           Enter(t, label)
    PROVE  FlagTellsThread'
<1>1. t \in Procs /\ Goto(t, label)
  BY DEF Enter, Procs
<1>2. pc'[t] = label /\ \A q \in Threads \ {t} : pc'[q] = pc[q]
  BY <1>1, Moves DEF Procs
<1>3. pc[t] = "idle" /\ Orderly' => Orderly
  BY DEF Enter, At, Orderly
<1>4. UNCHANGED <<m_keepRunning, joinable, crashed>>
  BY DEF Enter, members
<1> QED
  BY <1>2, <1>3, <1>4 DEF FlagTellsThread, ShutdownLabels, Enter, At

(* Every step keeps FlagTellsThread.                                          *)
LEMMA FlagStep ==
    PcOK /\ ThreadIsOwned /\ Alone /\ IoOutside /\ FlagTellsThread
        /\ [LifecycleNext]_lifecycleVars
        => FlagTellsThread'
<1> SUFFICES ASSUME PcOK, ThreadIsOwned, Alone, IoOutside, FlagTellsThread,
                    [LifecycleNext]_lifecycleVars
             PROVE  FlagTellsThread'
    OBVIOUS
<1> USE LifecycleAssumption
    DEF FlagTellsThread, Orderly, Alone, InCall, IoOutside, Procs, At, members,
        ops, history, StartLabels, ShutdownLabels, DtorLabels
<1>1. ASSUME NEW t \in Threads, Call(t) PROVE FlagTellsThread'
  <2>1. CASE CallStart(t)
    BY <2>1, EnterFlag DEF CallStart
  <2>2. CASE CallShutdown(t)
    BY <2>2, EnterFlag DEF CallShutdown
  <2>3. CASE CallDestroy(t)
    BY <2>3, EnterFlag DEF CallDestroy
  <2> QED
    BY <1>1, <2>1, <2>2, <2>3 DEF Call
<1>2. ASSUME NEW t \in Threads, ThreadStep(t), ~ Shutdown(t) PROVE FlagTellsThread'
  <2>1. CASE StartCheck(t)
    BY <2>1, Moves DEF StartCheck
  <2>2. CASE StartSet(t)
    BY <2>2, Moves DEF StartSet
  <2>3. CASE StartArmUdp(t)
    BY <2>3, Moves DEF StartArmUdp, receiveUdpRequest
  <2>4. CASE StartArmTcp(t)
    BY <2>4, Moves DEF StartArmTcp, acceptTcpConnection
  <2>5. CASE StartSpawn(t)
    BY <2>5, Moves DEF StartSpawn, Crash, PcOK, Goto, IoLive, ThreadIsOwned
  <2>6. CASE StartAssign(t)
    BY <2>6, Moves DEF StartAssign, Crash
  <2>7. CASE DestroyCheck(t)
    BY <2>7, Moves DEF DestroyCheck
  <2>8. CASE DestroyMembers(t)
    BY <2>8, Moves DEF DestroyMembers, Crash, IoLive, ThreadIsOwned
  <2> QED
    BY <1>2, <2>1, <2>2, <2>3, <2>4, <2>5, <2>6, <2>7, <2>8 DEF ThreadStep
<1>3. ASSUME NEW p \in Procs, Shutdown(p) PROVE FlagTellsThread'
  <2>1. CASE ShutdownClear(p)
    BY <2>1, Moves DEF ShutdownClear
  <2>2. CASE ShutdownStop(p)
    BY <2>2, Moves DEF ShutdownStop
  <2>3. CASE ShutdownCloseTcp(p)
    BY <2>3, Moves DEF ShutdownCloseTcp
  <2>4. CASE ShutdownCloseUdp(p)
    BY <2>4, Moves DEF ShutdownCloseUdp
  <2>5. CASE ShutdownTest(p)
    <3>1. CASE p = Io
      BY <2>5, <3>1 DEF ShutdownTest, history
    <3>2. CASE p \in Threads /\ joinable
      BY <2>5, <3>2, Moves DEF ShutdownTest
    <3>3. CASE p \in Threads /\ ~ joinable
      BY <2>5, <3>3, Moves DEF ShutdownTest, Return
    <3> QED
      BY <3>1, <3>2, <3>3
  <2>6. CASE ShutdownJoin(p)
    <3>1. CASE p = Io
      BY <2>6, <3>1 DEF ShutdownJoin, history
    <3>2. CASE p \in Threads /\ joinable
      BY <2>6, <3>2, Moves DEF ShutdownJoin, Return
    <3>3. CASE p \in Threads /\ ~ joinable
      BY <2>6, <3>3 DEF ShutdownJoin, Crash
    <3> QED
      BY <3>1, <3>2, <3>3
  <2> QED
    BY <1>3, <2>1, <2>2, <2>3, <2>4, <2>5, <2>6 DEF Shutdown
<1>4. ASSUME IoStep, ~ Shutdown(Io) PROVE FlagTellsThread'
  <2>1. CASE IoExit
    BY <2>1, Moves DEF IoExit
  <2>2. CASE AcceptCheck
    BY <2>2, Moves DEF AcceptCheck
  <2>3. CASE AcceptRearm
    BY <2>3, Moves DEF AcceptRearm, acceptTcpConnection
  <2>4. CASE RenderReturn
    BY <2>4, Moves DEF RenderReturn, PcOK
  <2>5. CASE TcpSend
    BY <2>5, Moves DEF TcpSend
  <2>6. CASE UdpSend
    BY <2>6, Moves DEF UdpSend
  <2>7. CASE UdpRearm
    BY <2>7, Moves DEF UdpRearm, receiveUdpRequest
  <2> QED
    BY <1>4, <2>1, <2>2, <2>3, <2>4, <2>5, <2>6, <2>7 DEF IoStep
<1>5. ASSUME IoEvent PROVE FlagTellsThread'
  <2>1. CASE IoAccept
    BY <2>1, Moves DEF IoAccept, IoDispatch
  <2>2. CASE IoReceive
    BY <2>2, Moves DEF IoReceive, IoDispatch
  <2>3. CASE IoTcp
    BY <2>3, Moves DEF IoTcp, IoDispatch
  <2>4. CASE RenderShutdown
    BY <2>4, Moves DEF RenderShutdown
  <2>5. CASE HandlerFails
    BY <2>5 DEF HandlerFails
  <2> QED
    BY <1>5, <2>1, <2>2, <2>3, <2>4, <2>5 DEF IoEvent
<1>6. CASE UNCHANGED lifecycleVars
  BY <1>6 DEF lifecycleVars
<1> QED
  BY <1>1, <1>2, <1>3, <1>4, <1>5, <1>6 DEF LifecycleNext, Done, Procs

(* A call does not change what LoopsBegunOnce speaks of.                     *)
LEMMA EnterLoops ==
    ASSUME PcOK, LoopsBegunOnce, NEW t \in Threads, NEW label \in {"start", "clear", "dtor"},
           Enter(t, label)
    PROVE  LoopsBegunOnce'
<1>1. t \in Procs /\ Goto(t, label) /\ t # Io /\ Io \in Procs
  BY LifecycleAssumption DEF Enter, Procs
<1>2. pc'[t] = label /\ pc'[Io] = pc[Io] /\ \A q \in Threads \ {t} : pc'[q] = pc[q]
  BY <1>1, Moves DEF Procs
<1>3. pc[t] = "idle" /\ (Orderly' => Orderly)
  BY DEF Enter, At, Orderly
<1>4. UNCHANGED <<m_keepRunning, ioStopped, accepts, receives>>
  BY DEF Enter, members, ops
<1>5. AcceptCount' = AcceptCount /\ ReceiveCount' = ReceiveCount
  BY <1>2, <1>4 DEF AcceptCount, ReceiveCount
<1> QED
  BY <1>2, <1>3, <1>4, <1>5 DEF LoopsBegunOnce

(* Every step keeps LoopsBegunOnce.                                           *)
LEMMA LoopsStep ==
    PcOK /\ DataOK /\ ThreadIsOwned /\ Alone /\ IoOutside
        /\ FlagTellsThread /\ LoopsBegunOnce
        /\ [LifecycleNext]_lifecycleVars
        => LoopsBegunOnce'
<1> SUFFICES ASSUME PcOK, DataOK, ThreadIsOwned, Alone, IoOutside,
                    FlagTellsThread, LoopsBegunOnce,
                    [LifecycleNext]_lifecycleVars
             PROVE  LoopsBegunOnce'
    OBVIOUS
<1> USE LifecycleAssumption
    DEF LoopsBegunOnce, AcceptCount, ReceiveCount, Orderly, IoOutside, Procs,
        At, DataOK, members, ops, history, ShutdownLabels
<1>1. ASSUME NEW t \in Threads, Call(t) PROVE LoopsBegunOnce'
  <2>1. CASE CallStart(t)
    BY <2>1, EnterLoops DEF CallStart
  <2>2. CASE CallShutdown(t)
    BY <2>2, EnterLoops DEF CallShutdown
  <2>3. CASE CallDestroy(t)
    BY <2>3, EnterLoops DEF CallDestroy
  <2> QED
    BY <1>1, <2>1, <2>2, <2>3 DEF Call
<1>2. ASSUME NEW t \in Threads, ThreadStep(t), ~ Shutdown(t) PROVE LoopsBegunOnce'
  <2>1. CASE StartCheck(t)
    BY <2>1, Moves DEF StartCheck
  <2>2. CASE StartSet(t)
    <3>1. pc'[Io] = pc[Io] /\ pc'[t] # pc[t] /\ Orderly' = Orderly
      BY <2>2, Moves DEF StartSet
    <3>2. Orderly => \A q \in Threads \ {t} : ~ InCall(q) /\ pc'[q] = pc[q]
      BY <2>2, Moves DEF StartSet, Alone, InCall, StartLabels
    <3>3. AcceptCount' = AcceptCount /\ ReceiveCount' = ReceiveCount
      BY <2>2, <3>1 DEF StartSet
    <3>4. Orderly => ~ m_keepRunning
      BY <2>2 DEF StartSet, FlagTellsThread
    <3> QED
      BY <2>2, <3>1, <3>2, <3>3, <3>4, Moves
      DEF StartSet, InCall, StartLabels
  <2>3. CASE StartArmUdp(t)
    <3>1. pc'[Io] = pc[Io] /\ pc'[t] # pc[t] /\ Orderly' = Orderly
      BY <2>3, Moves DEF StartArmUdp
    <3>2. Orderly => \A q \in Threads \ {t} : ~ InCall(q) /\ pc'[q] = pc[q]
      BY <2>3, Moves DEF StartArmUdp, Alone, InCall, StartLabels
    <3>3. AcceptCount' = AcceptCount /\ ReceiveCount' = ReceiveCount + 1
      BY <2>3, <3>1 DEF StartArmUdp, receiveUdpRequest
    <3>4. Orderly => m_keepRunning
      BY <2>3 DEF StartArmUdp, FlagTellsThread
    <3> QED
      BY <2>3, <3>1, <3>2, <3>3, <3>4, Moves
      DEF StartArmUdp, InCall, StartLabels
  <2>4. CASE StartArmTcp(t)
    <3>1. pc'[Io] = pc[Io] /\ pc'[t] # pc[t] /\ Orderly' = Orderly
      BY <2>4, Moves DEF StartArmTcp
    <3>2. Orderly => \A q \in Threads \ {t} : ~ InCall(q) /\ pc'[q] = pc[q]
      BY <2>4, Moves DEF StartArmTcp, Alone, InCall, StartLabels
    <3>3. AcceptCount' = AcceptCount + 1 /\ ReceiveCount' = ReceiveCount
      BY <2>4, <3>1 DEF StartArmTcp, acceptTcpConnection
    <3>4. Orderly => m_keepRunning
      BY <2>4 DEF StartArmTcp, FlagTellsThread
    <3> QED
      BY <2>4, <3>1, <3>2, <3>3, <3>4, Moves
      DEF StartArmTcp, InCall, StartLabels
  <2>5. CASE StartSpawn(t)
    BY <2>5, Moves DEF StartSpawn, Crash, PcOK, Goto, IoLive
  <2>6. CASE StartAssign(t)
    BY <2>6, Moves DEF StartAssign, Crash
  <2>7. CASE DestroyCheck(t)
    BY <2>7, Moves DEF DestroyCheck
  <2>8. CASE DestroyMembers(t)
    BY <2>8, Moves DEF DestroyMembers, Crash, IoLive
  <2> QED
    BY <1>2, <2>1, <2>2, <2>3, <2>4, <2>5, <2>6, <2>7, <2>8 DEF ThreadStep
<1>3. ASSUME NEW p \in Procs, Shutdown(p) PROVE LoopsBegunOnce'
  <2>1. CASE ShutdownClear(p)
    BY <2>1, Moves DEF ShutdownClear
  <2>2. CASE ShutdownStop(p)
    BY <2>2, Moves DEF ShutdownStop
  <2>3. CASE ShutdownCloseTcp(p)
    BY <2>3, Moves DEF ShutdownCloseTcp
  <2>4. CASE ShutdownCloseUdp(p)
    BY <2>4, Moves DEF ShutdownCloseUdp
  <2>5. CASE ShutdownTest(p)
    BY <2>5, Moves DEF ShutdownTest, Return
  <2>6. CASE ShutdownJoin(p)
    BY <2>6, Moves DEF ShutdownJoin, Crash, Return
  <2> QED
    BY <1>3, <2>1, <2>2, <2>3, <2>4, <2>5, <2>6 DEF Shutdown
<1>4. ASSUME IoStep, ~ Shutdown(Io) PROVE LoopsBegunOnce'
  <2>1. CASE IoExit
    BY <2>1, Moves DEF IoExit
  <2>2. CASE AcceptCheck
    BY <2>2, Moves DEF AcceptCheck
  <2>3. CASE AcceptRearm
    BY <2>3, Moves DEF AcceptRearm, acceptTcpConnection
  <2>4. CASE RenderReturn
    BY <2>4, Moves DEF RenderReturn
  <2>5. CASE TcpSend
    BY <2>5, Moves DEF TcpSend
  <2>6. CASE UdpSend
    BY <2>6, Moves DEF UdpSend
  <2>7. CASE UdpRearm
    BY <2>7, Moves DEF UdpRearm, receiveUdpRequest
  <2> QED
    BY <1>4, <2>1, <2>2, <2>3, <2>4, <2>5, <2>6, <2>7 DEF IoStep
<1>5. ASSUME IoEvent PROVE LoopsBegunOnce'
  <2>1. CASE IoAccept
    BY <2>1, Moves DEF IoAccept, IoDispatch
  <2>2. CASE IoReceive
    BY <2>2, Moves DEF IoReceive, IoDispatch
  <2>3. CASE IoTcp
    BY <2>3, Moves DEF IoTcp, IoDispatch
  <2>4. CASE RenderShutdown
    BY <2>4, Moves DEF RenderShutdown
  <2>5. CASE HandlerFails
    BY <2>5 DEF HandlerFails
  <2> QED
    BY <1>5, <2>1, <2>2, <2>3, <2>4, <2>5 DEF IoEvent
<1>6. CASE UNCHANGED lifecycleVars
  BY <1>6 DEF lifecycleVars
<1> QED
  BY <1>1, <1>2, <1>3, <1>4, <1>5, <1>6 DEF LifecycleNext, Done, Procs

-----------------------------------------------------------------------------
(* The invariant holds in every reachable state.                             *)
LEMMA Invariance == LifecycleSpec => []IInv
<1>1. LifecycleInit => IInv
  <2> SUFFICES ASSUME LifecycleInit PROVE IInv
      OBVIOUS
  <2>1. TypeOK
    BY TypeInit
  <2>2. pc[Io] = "none" /\ \A t \in Threads : pc[t] = "idle"
    BY LifecycleAssumption DEF LifecycleInit, Procs
  <2>3. \A p \in Procs : ~ InCall(p)
    BY <2>2 DEF InCall, Procs, StartLabels, ShutdownLabels, DtorLabels
  <2>4. ThreadIsOwned /\ Alone /\ IoOutside /\ FlagTellsThread
    BY <2>2, <2>3
    DEF LifecycleInit, ThreadIsOwned, IoLive, Alone, IoOutside, FlagTellsThread, ShutdownLabels
  <2>5. LoopsBegunOnce
    BY <2>2 DEF LifecycleInit, LoopsBegunOnce, AcceptCount, ReceiveCount
  <2> QED
    BY <2>1, <2>4, <2>5 DEF IInv
<1>2. IInv /\ [LifecycleNext]_lifecycleVars => IInv'
  BY TypeParts, TypePartsNext, PcStep, DataStep, OwnedStep, AloneStep, OutsideStep, FlagStep, LoopsStep
  DEF IInv
<1> QED
  BY <1>1, <1>2, PTL DEF LifecycleSpec

(* Calls made one at a time and outside the handlers never reach             *)
(* std::terminate or undefined behaviour.                                    *)
THEOREM NoCrashWithoutMisuse == LifecycleSpec => []CrashNeedsMisuse
<1>1. IInv => CrashNeedsMisuse
  BY DEF IInv, FlagTellsThread, CrashNeedsMisuse
<1> QED
  BY <1>1, Invariance, PTL

(* Between orderly calls a clear m_keepRunning means that no thread is left. *)
THEOREM QuietAfterShutdown == LifecycleSpec => []QuietWhenDown
<1>1. IInv => QuietWhenDown
  BY DEF IInv, FlagTellsThread, ThreadIsOwned, QuietWhenDown, InCall, StartLabels
<1> QED
  BY <1>1, Invariance, PTL

(* As long as calls are orderly, a running context serves one accept loop    *)
(* and one UDP receive loop.                                                 *)
THEOREM LoopsNeverDouble == LifecycleSpec => []OneLoopEach
<1>1. IInv => OneLoopEach
  BY DEF IInv, LoopsBegunOnce, AcceptCount, ReceiveCount, OneLoopEach
<1> QED
  BY <1>1, Invariance, PTL

(* Only the test and the join of a thread's own shutdown() end the call, and *)
(* both see a joined Io thread.                                              *)
LEMMA ShutdownEnds ==
    ASSUME IInv, [LifecycleNext]_lifecycleVars,
           NEW t \in Threads, ~ overlapped,
           pc[t] \in ShutdownLabels, pc'[t] \in {"idle", "members"}
    PROVE  ~ joinable' /\ ~ IoLive'
<1>1. PcOK /\ ThreadIsOwned /\ Alone
  BY TypeParts DEF IInv
<1>2. t \in Procs /\ Io \in Procs /\ t # Io
  BY LifecycleAssumption DEF Procs
<1>3. CASE ShutdownTest(t)
  <2>1. ~ joinable /\ UNCHANGED joinable
    BY <1>1, <1>2, <1>3, Moves DEF ShutdownTest, members, ShutdownLabels
  <2>2. \A q \in Threads : pc[q] # "assign"
    BY <1>1, <1>3 DEF Alone, InCall, Procs, ShutdownTest, At, StartLabels, ShutdownLabels
  <2>3. ~ IoLive
    BY <1>1, <2>1, <2>2 DEF ThreadIsOwned
  <2> QED
    BY <1>1, <1>2, <1>3, <2>1, <2>3, Moves DEF ShutdownTest, IoLive
<1>4. CASE ShutdownJoin(t)
  BY <1>1, <1>2, <1>4, Moves DEF ShutdownJoin, Crash, IoLive, ShutdownLabels
<1>5. ASSUME ~ ShutdownTest(t), ~ ShutdownJoin(t) PROVE FALSE
  <2> USE <1>1, <1>2, Moves DEF At, Procs, ShutdownLabels
  <2>1. ~ (\E u \in Threads : Call(u))
    BY DEF Call, CallStart, CallShutdown, CallDestroy, Enter
  <2>2. ~ (\E u \in Threads : StartCheck(u) \/ StartSet(u))
    BY DEF StartCheck, StartSet
  <2>3. ~ (\E u \in Threads : StartArmUdp(u) \/ StartArmTcp(u))
    BY DEF StartArmUdp, StartArmTcp
  <2>4. ~ (\E u \in Threads : StartSpawn(u))
    BY DEF StartSpawn, Crash, Goto, PcOK
  <2>5. ~ (\E u \in Threads : StartAssign(u))
    BY DEF StartAssign, Crash
  <2>6. ~ (\E u \in Threads : DestroyCheck(u) \/ DestroyMembers(u))
    BY DEF DestroyCheck, DestroyMembers, Crash
  <2>7. ~ (\E p \in Procs : ShutdownClear(p) \/ ShutdownStop(p))
    BY DEF ShutdownClear, ShutdownStop
  <2>8. ~ (\E p \in Procs : ShutdownCloseTcp(p) \/ ShutdownCloseUdp(p))
    BY DEF ShutdownCloseTcp, ShutdownCloseUdp
  <2>9. ~ (\E p \in Procs \ {t} : ShutdownTest(p) \/ ShutdownJoin(p))
    BY DEF ShutdownTest, ShutdownJoin, Crash
  <2>10. ~ (IoExit \/ AcceptCheck \/ AcceptRearm \/ RenderReturn \/ TcpSend \/ UdpSend \/ UdpRearm)
    BY DEF IoExit, AcceptCheck, AcceptRearm, RenderReturn, TcpSend, UdpSend, UdpRearm
  <2>11. ~ (IoEvent)
    BY DEF IoEvent, IoAccept, IoReceive, IoTcp, RenderShutdown, HandlerFails, IoDispatch
  <2>12. ~ (UNCHANGED lifecycleVars)
    BY DEF lifecycleVars
  <2> QED
    BY <1>5, <2>1, <2>2, <2>3, <2>4, <2>5, <2>6, <2>7, <2>8, <2>9, <2>10, <2>11, <2>12
    DEF LifecycleNext, ThreadStep, IoStep, Shutdown, Done
<1> QED
  BY <1>3, <1>4, <1>5

(* A shutdown() that overlaps no other call returns with the Io thread       *)
(* joined.                                                                   *)
THEOREM ShutdownAlwaysJoins == LifecycleSpec => ShutdownJoins
<1>1. IInv /\ [LifecycleNext]_lifecycleVars =>
        [\A t \in Threads :
            pc[t] \in ShutdownLabels /\ pc'[t] \in {"idle", "members"} /\ ~overlapped
                => ~joinable' /\ ~IoLive']_lifecycleVars
  BY ShutdownEnds
<1> QED
  BY <1>1, Invariance, PTL DEF LifecycleSpec, ShutdownJoins

-----------------------------------------------------------------------------
(* The acceptor is closed only behind a stopped context, or by a destructor  *)
(* that has the object to itself, for ever.                                  *)
Vacated == destroyer # NoThread /\ ~ IoLive /\ \A t \in Threads : ~ InCall(t)

(* How the server ends: the context is stopped before the acceptor is        *)
(* closed, and destructors destroy what they have left.                      *)
EndsInOrder ==
    /\ \A p \in Procs : pc[p] = "closeTcp" => ioStopped
    /\ \A t \in Threads : pc[t] \in DtorLabels => destroyer = t
    /\ Destroyed => Vacated

(* The acceptor is closed only behind a stopped context or a destructor.     *)
OpenUnlessStopped == acceptorOpen \/ ioStopped \/ Vacated

(* A step keeps both.                                                        *)
EndsKept == EndsInOrder' /\ (OpenUnlessStopped => OpenUnlessStopped')

(* Every step keeps EndsInOrder and, with it, OpenUnlessStopped.             *)
LEMMA ClosedStep ==
    PcOK /\ DataOK /\ EndsInOrder /\ [LifecycleNext]_lifecycleVars => EndsKept
<1> SUFFICES ASSUME PcOK, DataOK, EndsInOrder,
                    [LifecycleNext]_lifecycleVars
             PROVE  EndsKept
    OBVIOUS
<1> USE LifecycleAssumption
    DEF EndsKept, EndsInOrder, OpenUnlessStopped, Destroyed, DataOK, Vacated, IoLive, InCall, Procs, At, members,
        ops, StartLabels, ShutdownLabels, DtorLabels
<1>1. ASSUME NEW t \in Threads, Call(t) PROVE EndsKept
  <2>1. CASE CallStart(t)
    BY <2>1, Moves DEF CallStart, Enter
  <2>2. CASE CallShutdown(t)
    BY <2>2, Moves DEF CallShutdown, Enter
  <2>3. CASE CallDestroy(t)
    BY <2>3, Moves DEF CallDestroy, Enter
  <2> QED
    BY <1>1, <2>1, <2>2, <2>3 DEF Call
<1>2. ASSUME NEW t \in Threads, ThreadStep(t), ~ Shutdown(t) PROVE EndsKept
  <2>1. CASE StartCheck(t)
    BY <2>1, Moves DEF StartCheck
  <2>2. CASE StartSet(t)
    BY <2>2, Moves DEF StartSet
  <2>3. CASE StartArmUdp(t)
    BY <2>3, Moves DEF StartArmUdp, receiveUdpRequest
  <2>4. CASE StartArmTcp(t)
    BY <2>4, Moves DEF StartArmTcp, acceptTcpConnection
  <2>5. CASE StartSpawn(t)
    BY <2>5, Moves DEF StartSpawn, Crash, PcOK, Goto
  <2>6. CASE StartAssign(t)
    BY <2>6, Moves DEF StartAssign, Crash
  <2>7. CASE DestroyCheck(t)
    BY <2>7, Moves DEF DestroyCheck
  <2>8. CASE DestroyMembers(t)
    BY <2>8, Moves DEF DestroyMembers, Crash
  <2> QED
    BY <1>2, <2>1, <2>2, <2>3, <2>4, <2>5, <2>6, <2>7, <2>8 DEF ThreadStep
<1>3. ASSUME NEW p \in Procs, Shutdown(p) PROVE EndsKept
  <2>1. CASE ShutdownClear(p)
    BY <2>1, Moves DEF ShutdownClear
  <2>2. CASE ShutdownStop(p)
    BY <2>2, Moves DEF ShutdownStop
  <2>3. CASE ShutdownCloseTcp(p)
    BY <2>3, Moves DEF ShutdownCloseTcp
  <2>4. CASE ShutdownCloseUdp(p)
    BY <2>4, Moves DEF ShutdownCloseUdp
  <2>5. CASE ShutdownTest(p)
    BY <2>5, Moves DEF ShutdownTest, Return, PcOK
  <2>6. CASE ShutdownJoin(p)
    BY <2>6, Moves DEF ShutdownJoin, Crash, Return, PcOK
  <2> QED
    BY <1>3, <2>1, <2>2, <2>3, <2>4, <2>5, <2>6 DEF Shutdown
<1>4. ASSUME IoStep, ~ Shutdown(Io) PROVE EndsKept
  <2>1. CASE IoExit
    BY <2>1, Moves DEF IoExit
  <2>2. CASE AcceptCheck
    BY <2>2, Moves DEF AcceptCheck
  <2>3. CASE AcceptRearm
    BY <2>3, Moves DEF AcceptRearm, acceptTcpConnection
  <2>4. CASE RenderReturn
    BY <2>4, Moves DEF RenderReturn
  <2>5. CASE TcpSend
    BY <2>5, Moves DEF TcpSend
  <2>6. CASE UdpSend
    BY <2>6, Moves DEF UdpSend
  <2>7. CASE UdpRearm
    BY <2>7, Moves DEF UdpRearm, receiveUdpRequest
  <2> QED
    BY <1>4, <2>1, <2>2, <2>3, <2>4, <2>5, <2>6, <2>7 DEF IoStep
<1>5. ASSUME IoEvent PROVE EndsKept
  <2>1. CASE IoAccept
    BY <2>1, Moves DEF IoAccept, IoDispatch
  <2>2. CASE IoReceive
    BY <2>2, Moves DEF IoReceive, IoDispatch
  <2>3. CASE IoTcp
    BY <2>3, Moves DEF IoTcp, IoDispatch
  <2>4. CASE RenderShutdown
    BY <2>4, Moves DEF RenderShutdown
  <2>5. CASE HandlerFails
    BY <2>5 DEF HandlerFails
  <2> QED
    BY <1>5, <2>1, <2>2, <2>3, <2>4, <2>5 DEF IoEvent
<1>6. CASE UNCHANGED lifecycleVars
  BY <1>6 DEF lifecycleVars
<1> QED
  BY <1>1, <1>2, <1>3, <1>4, <1>5, <1>6 DEF LifecycleNext, Done, Procs

(* It holds initially.                                                      *)
LEMMA EndsInit == LifecycleInit => EndsInOrder
<1>1. LifecycleInit
          => \A p \in Procs : pc[p] \notin {"closeTcp", "gone"} \cup DtorLabels
  BY LifecycleAssumption DEF LifecycleInit, Procs, DtorLabels
<1> QED
  BY <1>1 DEF EndsInOrder, Destroyed, Procs

(* As long as the Io thread runs the context, the acceptor of a server that  *)
(* the Builder made is open.                                                 *)
THEOREM AcceptorOutlivesContext == LifecycleSpec => AcceptLoopWaits
<1>1. LifecycleInit => PcOK /\ DataOK /\ EndsInOrder
  BY TypeInit, TypeParts, EndsInit
<1>2. PcOK /\ DataOK /\ EndsInOrder /\ [LifecycleNext]_lifecycleVars
        => (PcOK /\ DataOK /\ EndsInOrder)' /\ (OpenUnlessStopped => OpenUnlessStopped')
  BY PcStep, DataStep, ClosedStep DEF EndsKept
<1>3. acceptorOpen => OpenUnlessStopped
  BY DEF OpenUnlessStopped
<1>4. OpenUnlessStopped => (IoLive /\ ~ioStopped => acceptorOpen)
  BY DEF OpenUnlessStopped, Vacated
<1> QED
  BY <1>1, <1>2, <1>3, <1>4, PTL DEF LifecycleSpec, AcceptLoopWaits
=============================================================================
