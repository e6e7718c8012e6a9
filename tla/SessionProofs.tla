--------------------------- MODULE SessionProofs ---------------------------
(***************************************************************************)
(* What Session guarantees for any number of concurrent requests, sessions *)
(* and faults and any capacity of the queues.                              *)
(***************************************************************************)
EXTENDS Session, TLAPS

---------------------------------------------------------------------------
(* Types.                                                                  *)

\* A handler that sends has a packet left to send.
SendInv == \A c \in Clients : cpc[c] = "send" => left[c] \in 1..2

TInv == TypeOK /\ SendInv

\* What enters the queue towards the phone keeps it well typed.
LEMMA PutType ==
  ASSUME TypeOK, NEW k \in AllKinds \cup {"car"}, NEW ch \in 0..MaxSessions, Put(k, ch)
  PROVE  QueueType'
<1>1. Packet(k, ch) \in PacketType
  BY DEF Packet, PacketType
<1>. QED
  BY <1>1, CapacityAssumption DEF Put, TypeOK, QueueType

LEMMA EmptyType == ASSUME NEW S PROVE <<>> \in Seq(S) /\ Len(<<>>) = 0
  OBVIOUS

\* The logger task's queue stays well typed, whatever enters or leaves it.
LEMMA CmdsType ==
  ASSUME TypeOK
  PROVE  /\ Len(cmds) < LoggerCapacity =>
              \A x \in {"start", "stop"} : /\ Append(cmds, x) \in Seq({"start", "stop"})
                                          /\ Len(Append(cmds, x)) <= LoggerCapacity
         /\ cmds # <<>> => /\ Tail(cmds) \in Seq({"start", "stop"})
                           /\ Len(Tail(cmds)) <= LoggerCapacity
  BY CapacityAssumption DEF TypeOK, CommandsType

LEMMA InitTInv == Init => TInv
<1>. SUFFICES ASSUME Init PROVE TInv
  OBVIOUS
<1>1. QueueType /\ CommandsType
  BY EmptyType, CapacityAssumption DEF Init, QueueType, CommandsType
<1>2. ContextType
  BY BoundsAssumption DEF Init, ContextType, Owners
<1>3. ClientType
  <2>1. \A x : {x} \subseteq AllKinds => [Clients -> {x}] \subseteq [Clients -> AllKinds]
    OBVIOUS
  <2>2. kind \in [Clients -> AllKinds]
    BY <2>1 DEF Init, AllKinds
  <2>. QED
    BY <2>2, BoundsAssumption DEF Init, ClientType
<1>4. SendInv
  BY DEF Init, SendInv
<1>5. action \in BOOLEAN /\ late \in BOOLEAN /\ task \in BOOLEAN /\ stray \in BOOLEAN
  BY Zenon DEF Init
<1>6. iopc = "idle" /\ sid = 0 /\ {cfg, pcfg} \subseteq Configs /\ hupc = "off"
  BY Zenon DEF Init
<1>7. logger = "none" /\ xpc = "none" /\ xtx = 0 /\ faults = 0 /\ requests = 0
  BY Zenon DEF Init
<1>8. IoType
  BY <1>5, <1>6, BoundsAssumption DEF IoType, IoPc
<1>9. LoggerType /\ ExitType
  BY <1>5, <1>7, BoundsAssumption DEF LoggerType, ExitType
<1>. QED
  BY <1>1, <1>2, <1>3, <1>4, <1>8, <1>9 DEF TInv, TypeOK

LEMMA NextTInv == TInv /\ [Next]_vars => TInv'
<1>. SUFFICES ASSUME TInv, [Next]_vars PROVE TInv'
  OBVIOUS
<1>. USE BoundsAssumption
      DEF TInv, TypeOK, IoType, ContextType, QueueType, ClientType, CommandsType, LoggerType,
          ExitType, SendInv, IoPc, Teardown, Owners, Locks, ioVars, lockVars, proxyVars,
          clientVars, loggerVars, exitVars
<1>1. CASE Begin
  BY <1>1 DEF Begin, Publishes
<1>2. CASE EndOnRequest
  <2>1. QueueType'
    BY <1>2, EmptyType, CapacityAssumption DEF EndOnRequest, End
  <2>. QED
    BY <1>2, <2>1 DEF EndOnRequest, End
<1>3. CASE EndOnError
  BY <1>3, CapacityAssumption DEF EndOnError, End, Fault
<1>4. CASE ClearContext
  BY <1>4 DEF ClearContext, Clear
<1>5. CASE EndTeardown
  <2>1. stray' \in BOOLEAN
    BY <1>5, Zenon DEF EndTeardown
  <2>2. LoggerType'
    BY <1>5, <2>1, Zenon DEF EndTeardown
  <2>. HIDE DEF LoggerType
  <2>. QED
    BY <1>5, <2>2, CmdsType DEF EndTeardown, Release
<1>6. CASE Announce
  BY <1>6 DEF Announce
<1>7. CASE StartLogger
  BY <1>7, CmdsType DEF StartLogger
<1>8. CASE StartLoggerError
  BY <1>8, CapacityAssumption DEF StartLoggerError, End
<1>9. CASE CarPacket
  <2>1. QueueType'
    BY <1>9, PutType DEF CarPacket
  <2>. QED
    BY <1>9, <2>1 DEF CarPacket
<1>10. CASE Drain
  BY <1>10, CapacityAssumption DEF Drain
<1>11. CASE LoggerStart
  <2>. HIDE DEF CommandsType, QueueType, ContextType, ClientType, IoType, SendInv
  <2>1. CommandsType'
    <3>1. cmds # <<>> /\ (cmds' = Tail(cmds) \/ cmds' = <<>>)
      BY <1>11 DEF LoggerStart
    <3>2. CASE cmds' = Tail(cmds)
      BY <3>1, <3>2, CmdsType DEF CommandsType
    <3>3. CASE cmds' = <<>>
      BY <3>3, EmptyType, CapacityAssumption DEF CommandsType
    <3>. QED
      BY <3>1, <3>2, <3>3
  <2>2. UNCHANGED <<stray, xpc, xtx, late, requests>>
    BY <1>11 DEF LoggerStart
  <2>5. stray' \in BOOLEAN
    BY <2>2, Zenon
  <2>4. LoggerType' /\ ExitType'
    <3>1. CASE logger' = "running" /\ UNCHANGED <<task, faults>>
      BY <2>2, <2>5, <3>1
    <3>2. CASE Fault /\ task' = FALSE /\ UNCHANGED logger
      <4>1. task' \in BOOLEAN
        BY <3>2, Zenon
      <4>2. logger' \in {"none", "running", "stopping"} /\ faults' \in 0..MaxFaults
        BY <3>2 DEF Fault
      <4>. QED
        BY <2>2, <2>5, <4>1, <4>2
    <3>. HIDE DEF LoggerType, ExitType
    <3>3. \/ logger' = "running" /\ UNCHANGED <<task, faults>>
          \/ Fault /\ task' = FALSE /\ UNCHANGED logger
      BY <1>11, Zenon DEF LoggerStart
    <3>. QED
      BY <3>1, <3>2, <3>3
  <2>3. (IoType /\ ContextType /\ QueueType /\ ClientType /\ SendInv)'
    BY <1>11 DEF LoggerStart, IoType, ContextType, QueueType, ClientType, SendInv
  <2>. QED
    BY <2>1, <2>3, <2>4
<1>12. CASE LoggerStop
  BY <1>12, CmdsType DEF LoggerStop
<1>13. CASE LoggerGone
  BY <1>13 DEF LoggerGone
<1>14. CASE Signal
  BY <1>14 DEF Signal, ExitGoto
<1>15. CASE ExitTakeTx
  BY <1>15 DEF ExitTakeTx, ExitGoto
<1>16. CASE ExitByeBye
  <2>1. QueueType'
    BY <1>16, PutType DEF ExitByeBye, AllKinds
  <2>. QED
    BY <1>16, <2>1 DEF ExitByeBye, ExitGoto
<1>17. CASE ExitRelease
  BY <1>17 DEF ExitRelease, ExitGoto, Release
<1>18. CASE ExitRequest
  BY <1>18 DEF ExitRequest, ExitGoto
<1>19. CASE Deadline
  BY <1>19 DEF Deadline
<1>20. CASE ExitPoll
  BY <1>20 DEF ExitPoll, ExitGoto
<1>21. ASSUME NEW c \in Clients, Request(c) PROVE TInv'
  BY <1>21, KindsAssumption DEF Request, ChannelLock, AllKinds
<1>22. ASSUME NEW c \in Clients, NoChannel(c) PROVE TInv'
  BY <1>22 DEF NoChannel, ChannelLock
<1>23. ASSUME NEW c \in Clients, TakeChannel(c) PROVE TInv'
  BY <1>23 DEF TakeChannel, ChannelLock, HoldsGuards
<1>24. ASSUME NEW c \in Clients, NoTx(c) PROVE TInv'
  BY <1>24 DEF NoTx, Return, Release
<1>25. ASSUME NEW c \in Clients, TakeTx(c) PROVE TInv'
  BY <1>25 DEF TakeTx, HoldsGuards
<1>26. ASSUME NEW c \in Clients, SendPacket(c) PROVE TInv'
  <2>1. QueueType'
    <3>1. kind[c] \in AllKinds /\ (IF kind[c] = "disconnect" THEN 0 ELSE cch[c]) \in 0..MaxSessions
      BY DEF AllKinds
    <3>. QED
      BY <1>26, <3>1, PutType DEF SendPacket
  <2>2. left[c] \in 1..2 /\ left' = [left EXCEPT ![c] = left[c] - 1]
    BY <1>26 DEF SendPacket
  <2>. HIDE DEF CommandsType, QueueType, ContextType, IoType, LoggerType, ExitType, SendInv
  <2>3. ClientType'
    BY <1>26, <2>2 DEF SendPacket, Return
  <2>4. SendInv'
    BY <1>26, <2>2 DEF SendPacket, Return, SendInv
  <2>5. ContextType'
    BY <1>26 DEF SendPacket, Return, Release, ContextType
  <2>6. (IoType /\ CommandsType /\ LoggerType /\ ExitType)'
    BY <1>26 DEF SendPacket, IoType, CommandsType, LoggerType, ExitType
  <2>. QED
    BY <2>1, <2>3, <2>4, <2>5, <2>6
<1>27. ASSUME NEW c \in Clients, SendFails(c) PROVE TInv'
  BY <1>27 DEF SendFails, Return, Release, Open
<1>28. ASSUME NEW c \in Clients, RequestReconnect(c) PROVE TInv'
  BY <1>28 DEF RequestReconnect
<1>30. CASE Reload
  BY <1>30 DEF Reload
<1>31. CASE CloneConfig
  BY <1>31 DEF CloneConfig
<1>29. CASE UNCHANGED vars
  BY <1>29 DEF vars
<1>. QED
  BY <1>1, <1>2, <1>3, <1>4, <1>5, <1>6, <1>7, <1>8, <1>9, <1>10, <1>11, <1>12, <1>13, <1>14, <1>15, <1>16, <1>17, <1>18, <1>19, <1>20, <1>21, <1>22, <1>23, <1>24, <1>25, <1>26, <1>27, <1>28, <1>29,
     <1>30, <1>31
  DEF Next, IoStep, Proxies, Logger, Exit, Client
THEOREM TypeCorrect == Spec => []TypeOK
<1>1. Spec => []TInv
  BY InitTInv, NextTInv, PTL DEF Spec
<1>2. TInv => TypeOK
  BY DEF TInv
<1>. QED
  BY <1>1, <1>2, PTL

---------------------------------------------------------------------------
(* What the mutexes hold while a session begins, runs and ends.            *)

\* The slots are empty between sessions and filled for the running one; the
\* teardown keeps what it has locked, and what it has locked is empty.
StageInv ==
    /\ \A l \in Locks : slot[l] \in {0, sid}
    /\ iopc \in {"idle", "wait"} => slot["tx"] = 0 /\ slot["sensor"] = 0 /\ slot["input"] = 0
    /\ iopc \in {"lock_sensor", "lock_input", "stop_logger"} => owner["tx"] = Io /\ slot["tx"] = 0
    /\ iopc \in {"lock_input", "stop_logger"} => owner["sensor"] = Io /\ slot["sensor"] = 0
    /\ iopc = "stop_logger" => owner["input"] = Io /\ slot["input"] = 0
    /\ iopc # "run" => hupc = "off" /\ queue = <<>>
    /\ Publishes /\ iopc \in {"run", "lock_tx"} => slot["tx"] = sid
    /\ sid = 0 => iopc \in {"idle", "wait"}

LEMMA InitStageInv == Init => StageInv
  BY DEF Init, StageInv, Locks

LEMMA NextStageInv == TInv /\ StageInv /\ [Next]_vars => StageInv'
<1>. SUFFICES ASSUME TInv, StageInv, [Next]_vars PROVE StageInv'
  OBVIOUS
<1>. USE BoundsAssumption, OwnersAssumption
      DEF TInv, TypeOK, IoType, ContextType, StageInv, Publishes, Locks, ioVars, lockVars, proxyVars,
          clientVars, loggerVars, exitVars
<1>1. CASE Begin
  BY <1>1 DEF Begin, Publishes
<1>2. CASE EndOnRequest
  BY <1>2 DEF EndOnRequest, End
<1>3. CASE EndOnError
  BY <1>3 DEF EndOnError, End, Fault
<1>4. CASE ClearContext
  BY <1>4 DEF ClearContext, Clear
<1>5. CASE EndTeardown
  BY <1>5 DEF EndTeardown, Release
<1>6. CASE Announce
  BY <1>6 DEF Announce
<1>7. CASE StartLogger
  BY <1>7 DEF StartLogger
<1>8. CASE StartLoggerError
  BY <1>8 DEF StartLoggerError, End
<1>9. CASE CarPacket
  BY <1>9 DEF CarPacket, Put
<1>10. CASE Drain
  BY <1>10 DEF Drain
<1>11. CASE LoggerStart
  BY <1>11 DEF LoggerStart, Fault
<1>12. CASE LoggerStop
  BY <1>12 DEF LoggerStop
<1>13. CASE LoggerGone
  BY <1>13 DEF LoggerGone
<1>14. CASE Signal
  BY <1>14 DEF Signal, ExitGoto
<1>15. CASE ExitTakeTx
  BY <1>15 DEF ExitTakeTx, ExitGoto
<1>16. CASE ExitByeBye
  BY <1>16 DEF ExitByeBye, ExitGoto, Put, Open
<1>17. CASE ExitRelease
  BY <1>17 DEF ExitRelease, ExitGoto, Release
<1>18. CASE ExitRequest
  BY <1>18 DEF ExitRequest, ExitGoto
<1>19. CASE Deadline
  BY <1>19 DEF Deadline
<1>20. CASE ExitPoll
  BY <1>20 DEF ExitPoll, ExitGoto
<1>21. ASSUME NEW c \in Clients, Request(c) PROVE StageInv'
  BY <1>21 DEF Request, ChannelLock
<1>22. ASSUME NEW c \in Clients, NoChannel(c) PROVE StageInv'
  BY <1>22 DEF NoChannel, ChannelLock
<1>23. ASSUME NEW c \in Clients, TakeChannel(c) PROVE StageInv'
  BY <1>23 DEF TakeChannel, ChannelLock, HoldsGuards
<1>24. ASSUME NEW c \in Clients, NoTx(c) PROVE StageInv'
  BY <1>24 DEF NoTx, Return, Release
<1>25. ASSUME NEW c \in Clients, TakeTx(c) PROVE StageInv'
  BY <1>25 DEF TakeTx, HoldsGuards
<1>26. ASSUME NEW c \in Clients, SendPacket(c) PROVE StageInv'
  BY <1>26 DEF SendPacket, Return, Release, Put, Open
<1>27. ASSUME NEW c \in Clients, SendFails(c) PROVE StageInv'
  BY <1>27 DEF SendFails, Return, Release, Open
<1>28. ASSUME NEW c \in Clients, RequestReconnect(c) PROVE StageInv'
  BY <1>28 DEF RequestReconnect
<1>30. CASE Reload
  BY <1>30 DEF Reload
<1>31. CASE CloneConfig
  BY <1>31 DEF CloneConfig
<1>29. CASE UNCHANGED vars
  BY <1>29 DEF vars
<1>. QED
  BY <1>1, <1>2, <1>3, <1>4, <1>5, <1>6, <1>7, <1>8, <1>9, <1>10, <1>11, <1>12, <1>13, <1>14,
     <1>15, <1>16, <1>17, <1>18, <1>19, <1>20, <1>21, <1>22, <1>23, <1>24, <1>25, <1>26, <1>27, <1>28, <1>29,
     <1>30, <1>31
  DEF Next, IoStep, Proxies, Logger, Exit, Client

---------------------------------------------------------------------------
(* The guards of the handlers.                                             *)

\* A handler that holds its guards holds the channel of the mutex, unchanged.
GuardInv ==
    \A c \in Clients : kind[c] \in {"sensor", "input"} /\ cpc[c] \in {"tx", "send"} =>
        /\ owner[kind[c]] = c
        /\ cch[c] = slot[kind[c]] /\ cch[c] # 0

LEMMA InitGuardInv == Init => GuardInv
  BY DEF Init, GuardInv

LEMMA NextGuardInv == TInv /\ GuardInv /\ [Next]_vars => GuardInv'
<1>. SUFFICES ASSUME TInv, GuardInv, [Next]_vars PROVE GuardInv'
  OBVIOUS
<1>. USE OwnersAssumption
      DEF TInv, TypeOK, ContextType, ClientType, GuardInv, Locks, ioVars, lockVars, proxyVars,
          clientVars, loggerVars, exitVars
<1>1. CASE Begin
  BY <1>1 DEF Begin, Publishes
<1>2. CASE EndOnRequest
  BY <1>2 DEF EndOnRequest, End
<1>3. CASE EndOnError
  BY <1>3 DEF EndOnError, End, Fault
<1>4. CASE ClearContext
  BY <1>4 DEF ClearContext, Clear
<1>5. CASE EndTeardown
  BY <1>5 DEF EndTeardown, Release
<1>6. CASE Announce
  BY <1>6 DEF Announce
<1>7. CASE StartLogger
  BY <1>7 DEF StartLogger
<1>8. CASE StartLoggerError
  BY <1>8 DEF StartLoggerError, End
<1>9. CASE CarPacket
  BY <1>9 DEF CarPacket, Put
<1>10. CASE Drain
  BY <1>10 DEF Drain
<1>11. CASE LoggerStart
  BY <1>11 DEF LoggerStart, Fault
<1>12. CASE LoggerStop
  BY <1>12 DEF LoggerStop
<1>13. CASE LoggerGone
  BY <1>13 DEF LoggerGone
<1>14. CASE Signal
  BY <1>14 DEF Signal, ExitGoto
<1>15. CASE ExitTakeTx
  BY <1>15 DEF ExitTakeTx, ExitGoto
<1>16. CASE ExitByeBye
  BY <1>16 DEF ExitByeBye, ExitGoto, Put, Open
<1>17. CASE ExitRelease
  BY <1>17 DEF ExitRelease, ExitGoto, Release
<1>18. CASE ExitRequest
  BY <1>18 DEF ExitRequest, ExitGoto
<1>19. CASE Deadline
  BY <1>19 DEF Deadline
<1>20. CASE ExitPoll
  BY <1>20 DEF ExitPoll, ExitGoto
<1>21. ASSUME NEW c \in Clients, Request(c) PROVE GuardInv'
  BY <1>21 DEF Request, ChannelLock
<1>22. ASSUME NEW c \in Clients, NoChannel(c) PROVE GuardInv'
  BY <1>22 DEF NoChannel, ChannelLock
<1>23. ASSUME NEW c \in Clients, TakeChannel(c) PROVE GuardInv'
  BY <1>23 DEF TakeChannel, ChannelLock, HoldsGuards
<1>24. ASSUME NEW c \in Clients, NoTx(c) PROVE GuardInv'
  BY <1>24 DEF NoTx, Return, Release
<1>25. ASSUME NEW c \in Clients, TakeTx(c) PROVE GuardInv'
  BY <1>25 DEF TakeTx, HoldsGuards
<1>26. ASSUME NEW c \in Clients, SendPacket(c) PROVE GuardInv'
  BY <1>26 DEF SendPacket, Return, Release, Put, Open
<1>27. ASSUME NEW c \in Clients, SendFails(c) PROVE GuardInv'
  BY <1>27 DEF SendFails, Return, Release, Open
<1>28. ASSUME NEW c \in Clients, RequestReconnect(c) PROVE GuardInv'
  BY <1>28 DEF RequestReconnect
<1>30. CASE Reload
  BY <1>30 DEF Reload
<1>31. CASE CloneConfig
  BY <1>31 DEF CloneConfig
<1>29. CASE UNCHANGED vars
  BY <1>29 DEF vars
<1>. QED
  BY <1>1, <1>2, <1>3, <1>4, <1>5, <1>6, <1>7, <1>8, <1>9, <1>10, <1>11, <1>12, <1>13, <1>14,
     <1>15, <1>16, <1>17, <1>18, <1>19, <1>20, <1>21, <1>22, <1>23, <1>24, <1>25, <1>26, <1>27, <1>28, <1>29,
     <1>30, <1>31
  DEF Next, IoStep, Proxies, Logger, Exit, Client

---------------------------------------------------------------------------
(* What the properties say.                                                *)

IInv == TInv /\ StageInv /\ GuardInv

LEMMA Invariant == Spec => []IInv
<1>1. Init => IInv
  BY InitTInv, InitStageInv, InitGuardInv DEF IInv
<1>2. IInv /\ [Next]_vars => IInv'
  BY NextTInv, NextStageInv, NextGuardInv DEF IInv
<1>. QED
  BY <1>1, <1>2, PTL DEF Spec

\* The queue holds no packet of a guarded handler with a channel of another
\* session, whatever the interleaving of handlers, proxies and sessions.
THEOREM ChannelsAreOwn == Spec => []OwnChannel
<1>1. Init => OwnChannel
  BY DEF Init, OwnChannel
<1>2. IInv /\ OwnChannel /\ [Next]_vars => OwnChannel'
  <2>. SUFFICES ASSUME IInv, OwnChannel, [Next]_vars PROVE OwnChannel'
    OBVIOUS
  <2>. USE DEF IInv, TInv, TypeOK, QueueType, OwnChannel
  <2>1. CASE UNCHANGED <<queue, sid>>
    BY <2>1
  <2>2. CASE queue' = <<>>
    BY <2>2
  <2>3. CASE UNCHANGED sid /\ queue # <<>> /\ queue' = Tail(queue)
    BY <2>3
  <2>4. ASSUME UNCHANGED sid, NEW k, NEW ch, Put(k, ch), k \in {"sensor", "input"} => ch = sid
        PROVE  OwnChannel'
    BY <2>4 DEF Put, Packet
  <2>5. CASE Begin
    BY <2>2, <2>5 DEF Begin, StageInv
  <2>6. CASE CarPacket
    BY <2>4, <2>6 DEF CarPacket, ioVars
  <2>7. CASE ExitByeBye
    BY <2>1, <2>4, <2>7 DEF ExitByeBye, ioVars
  <2>8. ASSUME NEW c \in Clients, SendPacket(c) PROVE OwnChannel'
    <3>1. kind[c] \in {"sensor", "input"} => cch[c] = sid
      BY <2>8 DEF SendPacket, GuardInv, StageInv, Locks
    <3>. QED
      BY <2>4, <2>8, <3>1 DEF SendPacket, ioVars
  <2>9. CASE EndOnRequest \/ EndOnError \/ StartLoggerError
    BY <2>2, <2>9 DEF EndOnRequest, EndOnError, StartLoggerError, End
  <2>10. CASE Drain
    BY <2>3, <2>10 DEF Drain, ioVars
  <2>11. CASE Reload \/ ClearContext \/ EndTeardown \/ CloneConfig \/ Announce \/ StartLogger
              \/ Logger
    BY <2>1, <2>11 DEF Reload, ClearContext, EndTeardown, CloneConfig, Announce, StartLogger, Logger, LoggerStart,
                       LoggerStop, LoggerGone, ioVars
  <2>12. CASE Signal \/ ExitTakeTx \/ ExitRelease \/ ExitRequest \/ Deadline \/ ExitPoll
    BY <2>1, <2>12 DEF Signal, ExitTakeTx, ExitRelease, ExitRequest, Deadline, ExitPoll, ioVars
  <2>13. ASSUME NEW c \in Clients, Request(c) \/ NoChannel(c) \/ TakeChannel(c) \/ NoTx(c)
                                   \/ TakeTx(c) \/ SendFails(c) \/ RequestReconnect(c)
         PROVE  OwnChannel'
    BY <2>1, <2>13 DEF Request, NoChannel, TakeChannel, NoTx, TakeTx, SendFails,
                       RequestReconnect, ioVars
  <2>14. CASE UNCHANGED vars
    BY <2>1, <2>14 DEF vars, ioVars
  <2>. QED
    BY <2>5, <2>6, <2>7, <2>8, <2>9, <2>10, <2>11, <2>12, <2>13, <2>14
    DEF Next, IoStep, Proxies, Exit, Client
<1>. QED
  BY <1>1, <1>2, Invariant, PTL DEF Spec

\* The signal handler exits after the teardown of a session that publishes its
\* sender, or after its deadline.
THEOREM ExitsAfterTeardown == Spec => ExitAfterTeardown
<1>1. IInv /\ [Next]_vars =>
        [xpc # "exited" /\ xpc' = "exited" =>
            iopc \in {"idle", "wait"} \/ late \/ ~Publishes]_vars
  <2>. SUFFICES ASSUME IInv, Next, xpc # "exited", xpc' = "exited"
                PROVE  iopc \in {"idle", "wait"} \/ late \/ ~Publishes
    OBVIOUS
  <2>1. ExitPoll
    BY DEF Next, IoStep, Proxies, Logger, Exit, Client, Reload, Begin, EndOnRequest, EndOnError, End,
           ClearContext, EndTeardown, CloneConfig, Announce, StartLogger, StartLoggerError, CarPacket, Drain,
           LoggerStart, LoggerStop, LoggerGone, Signal, ExitGoto, ExitTakeTx, ExitByeBye,
           ExitRelease, ExitRequest, Deadline, Request, NoChannel, TakeChannel, NoTx, TakeTx,
           SendPacket, SendFails, RequestReconnect, exitVars
  <2>2. iopc \in IoPc /\ iopc # "returned"
    BY DEF IInv, TInv, TypeOK, IoType, Next, Running
  <2>. QED
    BY <2>1, <2>2, OwnersAssumption DEF ExitPoll, IInv, StageInv, IoPc, Teardown
<1>. QED
  BY <1>1, Invariant, PTL DEF Spec, ExitAfterTeardown

---------------------------------------------------------------------------
(* The battery logger.                                                     *)

\* What is queued leaves the logger stopped.
Settled == IF cmds = <<>> THEN logger # "running" ELSE cmds[Len(cmds)] = "stop"

\* It is anything else only in a session whose teardown will stop it, or if the
\* proxy started it in one whose teardown will not.
LoggerInv ==
    Settled \/ stray \/ iopc = "returned" \/ (iopc \notin {"idle", "wait"} /\ cfg.logger)

LEMMA NextLoggerInv == TInv /\ StageInv /\ LoggerInv /\ [Next]_vars => LoggerInv'
<1>. SUFFICES ASSUME TInv, StageInv, LoggerInv, [Next]_vars PROVE LoggerInv'
  OBVIOUS
<1>. USE DEF ioVars, lockVars, proxyVars, clientVars, loggerVars, exitVars
<1>1. ASSUME UNCHANGED <<cfg, cmds, logger, stray>>,
             iopc' = iopc \/ (iopc # "returned" /\ iopc' \notin {"idle", "wait"})
      PROVE  LoggerInv'
  <2>1. Settled => Settled'
    BY <1>1 DEF Settled
  <2>. QED
    BY <1>1, <2>1 DEF LoggerInv
<1>2. CASE Begin
  BY <1>2, <1>1 DEF Begin
<1>3. CASE EndOnRequest \/ EndOnError \/ StartLoggerError
  BY <1>3, <1>1 DEF EndOnRequest, EndOnError, StartLoggerError, End, StageInv
<1>4. CASE ClearContext
  BY <1>4, <1>1 DEF ClearContext
<1>5. CASE EndTeardown
  <2>1. CASE ~cfg.logger /\ UNCHANGED <<cmds, stray>>
    <3>1. Settled \/ stray
      BY <1>5, <2>1 DEF LoggerInv, EndTeardown
    <3>. QED
      BY <1>5, <2>1, <3>1 DEF EndTeardown, LoggerInv, Settled
  <2>2. CASE cmds' = Append(cmds, "stop")
    <3>1. cmds' # <<>> /\ cmds'[Len(cmds')] = "stop"
      BY <2>2 DEF TInv, TypeOK, CommandsType
    <3>. QED
      BY <3>1 DEF LoggerInv, Settled
  <2>3. CASE iopc' = "returned"
    BY <2>3 DEF LoggerInv
  <2>. QED
    BY <1>5, <2>1, <2>2, <2>3 DEF EndTeardown
<1>6. CASE CloneConfig \/ Announce
  BY <1>6, <1>1 DEF CloneConfig, Announce
<1>7. CASE StartLogger
  <2>1. iopc = "run"
    BY <1>7 DEF StartLogger, StageInv
  <2>2. UNCHANGED <<iopc, cfg>> /\ stray' = (stray \/ ~cfg.logger)
    BY <1>7 DEF StartLogger
  <2>. QED
    BY <2>1, <2>2 DEF LoggerInv
<1>8. CASE CarPacket \/ Drain
  BY <1>8, <1>1 DEF CarPacket, Drain
<1>9. ASSUME cmds # <<>>, cmds' = Tail(cmds), UNCHANGED <<cfg, iopc, stray>>,
             Head(cmds) = "stop" => logger' # "running"
      PROVE  LoggerInv'
  <2>. DEFINE q == cmds
  <2>1. q \in Seq({"start", "stop"}) /\ q # <<>>
    BY <1>9 DEF TInv, TypeOK, CommandsType
  <2>2. Len(q) \in Nat \ {0} /\ Len(Tail(q)) = Len(q) - 1 /\ Head(q) = q[1]
    <3>. HIDE DEF q
    <3>. QED
      BY <2>1
  <2>3. CASE Tail(cmds) = <<>>
    <3>1. Len(q) = 1
      <4>. HIDE DEF q
      <4>1. Tail(q) = <<>>
        BY <2>3 DEF q
      <4>. QED
        BY <2>2, <4>1
    <3>2. cmds[Len(cmds)] = Head(cmds)
      BY <2>2, <3>1
    <3>. QED
      BY <1>9, <2>3, <3>2 DEF LoggerInv, Settled
  <2>4. CASE Tail(cmds) # <<>>
    <3>1. Tail(q)[Len(Tail(q))] = q[Len(q)]
      <4>. HIDE DEF q
      <4>1. Tail(q) # <<>>
        BY <2>4 DEF q
      <4>. QED
        BY <2>1, <2>2, <4>1
    <3>2. cmds'[Len(cmds')] = cmds[Len(cmds)]
      BY <1>9, <3>1
    <3>. QED
      BY <1>9, <2>4, <3>2 DEF LoggerInv, Settled
  <2>. QED
    BY <2>3, <2>4
<1>10. CASE LoggerStart
  BY <1>9, <1>10 DEF LoggerStart, LoggerInv, Settled
<1>11. CASE LoggerStop
  BY <1>9, <1>11 DEF LoggerStop
<1>12. CASE LoggerGone
  BY <1>12 DEF LoggerGone, LoggerInv, Settled
<1>13. CASE Signal \/ Exit
  BY <1>13, <1>1 DEF Signal, Exit, ExitTakeTx, ExitByeBye, ExitRelease, ExitRequest, Deadline,
                     ExitPoll
<1>14. ASSUME NEW c \in Clients, Request(c) \/ Client(c) PROVE LoggerInv'
  BY <1>14, <1>1 DEF Client, Request, NoChannel, TakeChannel, NoTx, TakeTx, SendPacket, SendFails,
                     RequestReconnect
<1>15. CASE UNCHANGED vars
  BY <1>15, <1>1 DEF vars
<1>16. CASE Reload
  <2>1. Settled => Settled'
    BY <1>16 DEF Reload, Settled
  <2>. QED
    BY <1>16, <2>1 DEF Reload, LoggerInv
<1>. QED
  BY <1>2, <1>3, <1>4, <1>5, <1>6, <1>7, <1>8, <1>10, <1>11, <1>12, <1>13, <1>14, <1>15,
     <1>16
  DEF Next, IoStep, Proxies, Logger

\* Between sessions, once its commands are worked off, no battery logger runs but
\* one that a proxy started where io_loop knew of none, whenever the session ended,
\* however long the commands took, and whatever was saved when.
THEOREM LoggerStops == Spec => []LoggerEndsWithSession
<1>1. Init => LoggerInv
  BY DEF Init, LoggerInv, Settled
<1>2. IInv /\ LoggerInv /\ [Next]_vars => LoggerInv'
  BY NextLoggerInv DEF IInv
<1>3. LoggerInv => LoggerEndsWithSession
  BY DEF LoggerInv, Settled, LoggerEndsWithSession
<1>. QED
  BY <1>1, <1>2, <1>3, Invariant, PTL DEF Spec
=============================================================================
