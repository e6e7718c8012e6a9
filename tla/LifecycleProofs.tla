-------------------------- MODULE LifecycleProofs --------------------------
(***************************************************************************)
(* Proofs about Lifecycle, for every set of configurations, number of      *)
(* Bluetooth tasks and bound.                                              *)
(***************************************************************************)
EXTENDS Lifecycle, TLAPS

\* The phone is only reached over Bluetooth and Wi-Fi.
WirelessOnly == WifiConfigured /\ \A c \in Configs : ~c.wired /\ ~c.aaServer

\* Either quick_reconnect or the SCO keepalive is never enabled.
OneTaskKind == (\A c \in Configs : ~c.quick) \/ (\A c \in Configs : ~c.keep)

NoQuick == \A c \in Configs : ~c.quick

Started == permit \/ Busy

\* A receiver without an unread message was created, or answered the last
\* message, after a tcp_start that io_loop has not yet answered.
TaskAnswered == \A t \in Tasks : tpc[t] \in {"q_start", "q_recv"} /\ tunread[t] = 0 => Started
HandshakeAnswered == mpc = "hs_finish" /\ hsUnread = 0 => Started
HandshakeHears == mpc \in Handshaking /\ hsUnread > 0 => munread > 0

\* Once main is past the handshake it will be woken.
MainHears == mpc \in {"usb_late", "wait"} =>
                 Started \/ munread > 0 \/ \E t \in Tasks : Waking(t)

TaskKinds ==
    /\ (\A c \in Configs : ~c.keep) =>
           \A t \in Tasks : tpc[t] \notin {"k_start", "k_recv", "k_end", "k_clear"}
WirelessInv == ~usb /\ TaskKinds

WaitInv == /\ TypeOK /\ ProfileHasTask /\ WirelessInv
           /\ TaskAnswered /\ HandshakeAnswered /\ HandshakeHears /\ MainHears

\* Without quick_reconnect one token circulates: it is with main before the
\* handshake, then in the permit, then with io_loop, then in the broadcast.
Token ==
    IF mpc \in {"hs_finish", "usb_late", "wait"}
    THEN \/ permit /\ ~Busy /\ munread = 0
         \/ ~permit /\ Busy /\ munread = 0
         \/ ~permit /\ ~Busy /\ munread = 1
    ELSE ~permit /\ ~Busy /\ munread = 0
NoQuickTasks == \A t \in Tasks : tpc[t] \in {"free", "k_start", "k_recv", "k_end", "k_clear"}
TokenInv == TypeOK /\ ~usb /\ NoQuickTasks /\ Token

---------------------------------------------------------------------------
(* Type correctness.                                                       *)

\* Every reachable state is well typed (main.rs, io_uring.rs, bluetooth.rs).
THEOREM TypeCorrect == Spec => []TypeOK
<1>. USE BoundsAssumption
       DEF BoundsAssumption, TypeOK, Actions, MainPc, Handshaking, IoPc, TaskPc, Lag
<1>1. Init => TypeOK
  <2>. SUFFICES ASSUME Init PROVE TypeOK
    OBVIOUS
  <2>1. /\ {stale, missed, gadget, usb, permit, profile, phone, plugged} \subseteq BOOLEAN
        /\ toff \in [Tasks -> BOOLEAN]
    BY Zenon DEF Init
  <2>2. powered \in BOOLEAN
    BY Zenon DEF Init
  <2>. QED
    BY <2>1, <2>2 DEF Init
<1>2. ASSUME TypeOK, [Next]_vars PROVE TypeOK'
  <2>. USE <1>2 DEF MainGoto, IoGoto, TaskGoto, Send, More, Fault, NotifyTcpStart,
           mainVars, ioVars, taskVars, chanVars, reqVars, envVars
  <2>1. CASE Subscribe
    BY <2>1 DEF Subscribe
  <2>2. CASE UsbInit
    BY <2>2 DEF UsbInit
  <2>3. CASE UsbFirst
    BY <2>3 DEF UsbFirst
  <2>4. CASE StartHandshake
    BY <2>4 DEF StartHandshake
  <2>5. CASE SkipHandshake
    BY <2>5 DEF SkipHandshake
  <2>6. CASE NoBluetooth
    BY <2>6 DEF NoBluetooth
  <2>7. CASE Backoff
    BY <2>7 DEF Backoff
  <2>8. CASE UsbLate
    BY <2>8 DEF UsbLate
  <2>9. CASE RecvRestart
    BY <2>9 DEF RecvRestart
  <2>10. CASE Reread
    BY <2>10 DEF Reread
  <2>11. CASE HsPower
    BY <2>11 DEF HsPower
  <2>12. CASE HsTimeout
    BY <2>12 DEF HsTimeout
  <2>13. CASE HsDisconnect
    BY <2>13 DEF HsDisconnect
  <2>14. CASE IoTop
    BY <2>14 DEF IoTop
  <2>15. CASE UsbPhone
    BY <2>15 DEF UsbPhone
  <2>16. CASE TcpStart
    <3>1. permit' \in BOOLEAN
      BY <2>16, Zenon DEF TcpStart
    <3>. QED
      BY <2>16, <3>1 DEF TcpStart
  <2>17. CASE AcceptTimeout
    BY <2>17 DEF AcceptTimeout
  <2>18. CASE ConnectMdError
    BY <2>18 DEF ConnectMdError
  <2>19. CASE SessionError
    BY <2>19 DEF SessionError
  <2>20. CASE MonitorAct
    <3>1. stale' \in BOOLEAN
      BY <2>20, Zenon DEF MonitorAct
    <3>2. action' \in Actions \cup {"none"}
      BY <2>20 DEF MonitorAct
    <3>. QED
      BY <2>20, <3>1, <3>2 DEF MonitorAct
  <2>21. CASE Cleanup
    BY <2>21 DEF Cleanup
  <2>22. CASE BroadcastRestart
    BY <2>22 DEF BroadcastRestart
  <2>23. CASE ResetUsb
    <3>1. usb' \in BOOLEAN
      BY <2>23, Zenon DEF ResetUsb
    <3>. QED
      BY <2>23, <3>1 DEF ResetUsb
  <2>24. CASE MonitorRead
    BY <2>24 DEF MonitorRead
  <2>25. CASE RebootSeen
    BY <2>25 DEF RebootSeen
  <2>26. CASE RebootNow
    <3>1. stale' \in BOOLEAN
      BY <2>26, Zenon DEF RebootNow
    <3>. QED
      BY <2>26, <3>1 DEF RebootNow
  <2>27. CASE HsDial
    BY <2>27 DEF HsDial
  <2>28. CASE HsConnect
    BY <2>28 DEF HsConnect
  <2>29. CASE HsParams
    BY <2>29 DEF HsParams
  <2>30. CASE Accept
    BY <2>30 DEF Accept
  <2>31. CASE OpenHu
    <3>1. stale' \in BOOLEAN
      BY <2>31, Zenon DEF OpenHu, BeginSession
    <3>. QED
      BY <2>31, <3>1 DEF OpenHu, BeginSession
  <2>32. CASE ConnectMd
    BY <2>32 DEF ConnectMd, BeginSession
  <2>33. CASE PhoneReturns
    BY <2>33 DEF PhoneReturns
  <2>34. CASE HsError
    BY <2>34 DEF HsError
  <2>35. CASE OpenHuError
    BY <2>35 DEF OpenHuError
  <2>36. CASE LinkError
    BY <2>36 DEF LinkError
  <2>37. CASE PhoneLeaves
    <3>1. phone' \in BOOLEAN
      BY <2>37, Zenon DEF PhoneLeaves
    <3>. QED
      BY <2>37, <3>1 DEF PhoneLeaves
  <2>38. CASE PlugOrUnplug
    BY <2>38 DEF PlugOrUnplug
  <2>39. CASE RequestReconnect
    <3>1. stale' \in BOOLEAN
      BY <2>39, Zenon DEF RequestReconnect, Request
    <3>. QED
      BY <2>39, <3>1 DEF RequestReconnect, Request
  <2>40. CASE RequestReboot
    <3>1. stale' \in BOOLEAN
      BY <2>40, Zenon DEF RequestReboot, Request
    <3>. QED
      BY <2>40, <3>1 DEF RequestReboot, Request
  <2>41. CASE RequestStop
    <3>1. stale' \in BOOLEAN
      BY <2>41, Zenon DEF RequestStop, Request
    <3>. QED
      BY <2>41, <3>1 DEF RequestStop, Request
  <2>42. CASE SaveConfig
    <3>1. stale' \in BOOLEAN
      BY <2>42, Zenon DEF SaveConfig
    <3>. QED
      BY <2>42, <3>1 DEF SaveConfig
  <2>43. ASSUME NEW t \in Tasks, TaskStart(t) PROVE TypeOK'
    BY <2>43 DEF TaskStart
  <2>44. ASSUME NEW t \in Tasks, QuickRecv(t) PROVE TypeOK'
    BY <2>44 DEF QuickRecv
  <2>45. ASSUME NEW t \in Tasks, QuickStop(t) PROVE TypeOK'
    BY <2>45 DEF QuickStop
  <2>46. ASSUME NEW t \in Tasks, QuickClear(t) PROVE TypeOK'
    <3>1. profile' \in BOOLEAN
      BY <2>46, Zenon DEF QuickClear
    <3>. QED
      BY <2>46, <3>1 DEF QuickClear
  <2>47. ASSUME NEW t \in Tasks, QuickNotify(t) PROVE TypeOK'
    BY <2>47 DEF QuickNotify
  <2>48. ASSUME NEW t \in Tasks, KeepRecv(t) PROVE TypeOK'
    BY <2>48 DEF KeepRecv
  <2>49. ASSUME NEW t \in Tasks, KeepEnd(t) PROVE TypeOK'
    BY <2>49 DEF KeepEnd
  <2>50. ASSUME NEW t \in Tasks, KeepClear(t) PROVE TypeOK'
    <3>1. profile' \in BOOLEAN
      BY <2>50, Zenon DEF KeepClear
    <3>. QED
      BY <2>50, <3>1 DEF KeepClear
  <2>51. ASSUME NEW t \in Tasks, QuickParams(t) PROVE TypeOK'
    BY <2>51 DEF QuickParams
  <2>52. ASSUME NEW t \in Tasks, QuickParamsError(t) PROVE TypeOK'
    BY <2>52 DEF QuickParamsError
  <2>53. ASSUME NEW t \in Tasks, HsSpawn(t) PROVE TypeOK'
    <3>1. mcfg.poweroff \in BOOLEAN
      BY ConfigsAssumption DEF ConfigsAssumption, ConfigType
    <3>2. toff' \in [Tasks -> BOOLEAN]
      BY <2>53, <3>1, Zenon DEF HsSpawn, SpawnTask
    <3>. QED
      BY <2>53, <3>1, <3>2 DEF HsSpawn, SpawnTask
  <2>54. CASE Transfer
    BY <2>54 DEF Transfer, vars
  <2>55. CASE UNCHANGED vars
    BY <2>55 DEF vars
  <2>. QED
    BY <2>1, <2>2, <2>3, <2>4, <2>5, <2>6, <2>7, <2>8, <2>9, <2>10, <2>11,
       <2>12, <2>13, <2>14, <2>15, <2>16, <2>17, <2>18, <2>19, <2>20, <2>21,
       <2>22, <2>23, <2>24, <2>25, <2>26, <2>27, <2>28, <2>29, <2>30, <2>31,
       <2>32, <2>33, <2>34, <2>35, <2>36, <2>37, <2>38, <2>39, <2>40, <2>41,
       <2>42, <2>43, <2>44, <2>45, <2>46, <2>47, <2>48, <2>49, <2>50, <2>51,
       <2>52, <2>53, <2>54, <2>55
       DEF Next, Main, Task, Io, HandshakePeer, SessionPeer, Failure, User
<1>. QED
  BY <1>1, <1>2, PTL DEF Spec

---------------------------------------------------------------------------
(* While profile_connected is set a task holds the link.                   *)

TaskStep(t) == \/ HsSpawn(t) \/ TaskStart(t) \/ QuickRecv(t) \/ QuickParams(t)
               \/ QuickParamsError(t) \/ QuickStop(t) \/ QuickClear(t) \/ QuickNotify(t)
               \/ KeepRecv(t) \/ KeepEnd(t) \/ KeepClear(t)

\* Only the steps of a task, and its creation, touch the tasks.
LEMMA TaskFrame ==
  ASSUME [Next]_vars
  PROVE  UNCHANGED taskVars \/ \E t \in Tasks : TaskStep(t)
  BY DEF TaskStep, taskVars, mainVars, ioVars, chanVars, reqVars, envVars, vars,
         Subscribe, UsbInit, UsbFirst, StartHandshake, SkipHandshake,
         NoBluetooth, Backoff, UsbLate, RecvRestart, Reread,
         HsPower, HsTimeout, HsDisconnect, IoTop, UsbPhone,
         TcpStart, AcceptTimeout, ConnectMdError, SessionError,
         MonitorAct, Cleanup, BroadcastRestart, ResetUsb,
         MonitorRead, RebootSeen, RebootNow, HsDial, HsConnect,
         HsParams, Accept, OpenHu, ConnectMd, PhoneReturns,
         HsError, OpenHuError, LinkError, PhoneLeaves,
         PlugOrUnplug, RequestReconnect, RequestReboot,
         RequestStop, SaveConfig, Request, BeginSession, Transfer,
         Next, Main, Task, Io, HandshakePeer, SessionPeer,
         Failure, User

\* profile_connected is never left set by a task that has ended (bluetooth.rs).
THEOREM ProfileHeld == Spec => []ProfileHasTask
<1>1. Init => ProfileHasTask
  BY DEF Init, ProfileHasTask
<1>2. ASSUME TypeOK, ProfileHasTask, [Next]_vars PROVE ProfileHasTask'
  <2>1. CASE UNCHANGED taskVars
    BY <1>2, <2>1 DEF ProfileHasTask, taskVars
  <2>2. ASSUME NEW t \in Tasks, TaskStep(t) PROVE ProfileHasTask'
    <3>1. tpc \in [Tasks -> TaskPc]
      BY <1>2 DEF TypeOK
    <3>2. CASE HsSpawn(t)
      <4>1. /\ tpc[t] = "free" /\ profile' = profile
            /\ tpc' = [tpc EXCEPT ![t] = IF mcfg.quick THEN "q_start" ELSE "k_start"]
        BY <3>2, Zenon DEF HsSpawn, SpawnTask
      <4>. QED
        BY <1>2, <3>1, <4>1 DEF ProfileHasTask, Holding
    <3>3. CASE TaskStart(t)
      <4>1. tpc'[t] \in {"q_recv", "k_recv"}
        BY <3>1, <3>3 DEF TaskStart, TaskGoto
      <4>. QED
        BY <4>1 DEF ProfileHasTask, Holding
    <3>4. CASE QuickClear(t) \/ KeepClear(t)
      <4>1. profile' = FALSE
        BY <3>4 DEF QuickClear, KeepClear
      <4>. QED
        BY <4>1 DEF ProfileHasTask
    <3>5. CASE QuickRecv(t) \/ QuickParams(t) \/ QuickParamsError(t) \/ QuickStop(t)
               \/ KeepRecv(t) \/ KeepEnd(t)
      <4>1. tpc'[t] \in Holding
        BY <3>1, <3>5 DEF QuickRecv, QuickParams, QuickParamsError, QuickStop, KeepRecv,
                          KeepEnd, TaskGoto, Holding
      <4>. QED
        BY <4>1 DEF ProfileHasTask
    <3>6. CASE QuickNotify(t)
      <4>1. profile' = profile /\ tpc[t] = "q_notify" /\ tpc' = [tpc EXCEPT ![t] = "free"]
        BY <3>6, Zenon DEF QuickNotify, TaskGoto
      <4>. QED
        BY <1>2, <3>1, <4>1 DEF ProfileHasTask, Holding
    <3>. QED
      BY <2>2, <3>2, <3>3, <3>4, <3>5, <3>6 DEF TaskStep
  <2>. QED
    BY <1>2, <2>1, <2>2, TaskFrame
<1>. QED
  BY <1>1, <1>2, TypeCorrect, PTL DEF Spec

---------------------------------------------------------------------------
(* Without quick_reconnect one token circulates between the two loops.     *)

\* Every step of the loops keeps the token unique.
LEMMA TokenStep ==
  ASSUME WirelessOnly, NoQuick, TokenInv, [Next]_vars, TypeOK'
  PROVE  TokenInv'
<1>. USE DEF TokenInv, NoQuickTasks, Token, Busy, Handshaking, MainGoto, IoGoto, TaskGoto,
         Send, More, Lag, NotifyTcpStart, Fault,
         mainVars, ioVars, taskVars, chanVars, reqVars, envVars
<1>a. ~mcfg.quick /\ ~mcfg.aaServer /\ ~icfg.aaServer /\ ~icfg.wired /\ ~config.aaServer
  BY DEF WirelessOnly, NoQuick, TypeOK
<1>b. munread \in 0..2 /\ tpc \in [Tasks -> TaskPc]
  BY DEF TypeOK
<1>1. CASE Subscribe
  BY <1>1, <1>a, <1>b DEF Subscribe
<1>2. CASE UsbInit
  BY <1>2, <1>a, <1>b DEF UsbInit
<1>3. CASE UsbFirst
  BY <1>3, <1>a, <1>b DEF UsbFirst
<1>4. CASE StartHandshake
  BY <1>4, <1>a, <1>b DEF StartHandshake, NeedsHandshake, WirelessOnly
<1>5. CASE SkipHandshake
  BY <1>5, <1>a, <1>b DEF SkipHandshake, NeedsHandshake, WirelessOnly
<1>6. CASE NoBluetooth
  BY <1>6, <1>a, <1>b DEF NoBluetooth, NeedsHandshake, WirelessOnly
<1>7. CASE Backoff
  BY <1>7, <1>a, <1>b DEF Backoff
<1>8. CASE UsbLate
  BY <1>8, <1>a, <1>b DEF UsbLate
<1>9. CASE RecvRestart
  BY <1>9, <1>a, <1>b DEF RecvRestart
<1>10. CASE Reread
  BY <1>10, <1>a, <1>b DEF Reread
<1>11. CASE HsPower
  BY <1>11, <1>a, <1>b DEF HsPower
<1>12. CASE HsTimeout
  BY <1>12, <1>a, <1>b DEF HsTimeout
<1>13. CASE HsDisconnect
  BY <1>13, <1>a, <1>b DEF HsDisconnect
<1>14. CASE IoTop
  BY <1>14, <1>a, <1>b DEF IoTop
<1>15. CASE UsbPhone
  BY <1>15, <1>a, <1>b DEF UsbPhone
<1>16. CASE TcpStart
  BY <1>16, <1>a, <1>b DEF TcpStart
<1>17. CASE AcceptTimeout
  BY <1>17, <1>a, <1>b DEF AcceptTimeout
<1>18. CASE ConnectMdError
  BY <1>18, <1>a, <1>b DEF ConnectMdError
<1>19. CASE SessionError
  BY <1>19, <1>a, <1>b DEF SessionError
<1>20. CASE MonitorAct
  BY <1>20, <1>a, <1>b DEF MonitorAct
<1>21. CASE Cleanup
  BY <1>21, <1>a, <1>b DEF Cleanup
<1>22. CASE BroadcastRestart
  BY <1>22, <1>a, <1>b DEF BroadcastRestart
<1>23. CASE ResetUsb
  BY <1>23, <1>a, <1>b DEF ResetUsb
<1>24. CASE MonitorRead
  BY <1>24, <1>a, <1>b DEF MonitorRead
<1>25. CASE RebootSeen
  BY <1>25, <1>a, <1>b DEF RebootSeen
<1>26. CASE RebootNow
  BY <1>26, <1>a, <1>b DEF RebootNow
<1>27. CASE HsDial
  BY <1>27, <1>a, <1>b DEF HsDial
<1>28. CASE HsConnect
  BY <1>28, <1>a, <1>b DEF HsConnect
<1>29. CASE HsParams
  BY <1>29, <1>a, <1>b DEF HsParams
<1>30. CASE Accept
  BY <1>30, <1>a, <1>b DEF Accept
<1>31. CASE OpenHu
  BY <1>31, <1>a, <1>b DEF OpenHu, BeginSession
<1>32. CASE ConnectMd
  BY <1>32, <1>a, <1>b DEF ConnectMd, BeginSession
<1>33. CASE PhoneReturns
  BY <1>33, <1>a, <1>b DEF PhoneReturns
<1>34. CASE HsError
  BY <1>34, <1>a, <1>b DEF HsError
<1>35. CASE OpenHuError
  BY <1>35, <1>a, <1>b DEF OpenHuError
<1>36. CASE LinkError
  BY <1>36, <1>a, <1>b DEF LinkError
<1>37. CASE PhoneLeaves
  BY <1>37, <1>a, <1>b DEF PhoneLeaves
<1>38. CASE PlugOrUnplug
  BY <1>38, <1>a, <1>b DEF PlugOrUnplug
<1>39. CASE RequestReconnect
  BY <1>39, <1>a, <1>b DEF RequestReconnect, Request
<1>40. CASE RequestReboot
  BY <1>40, <1>a, <1>b DEF RequestReboot, Request
<1>41. CASE RequestStop
  BY <1>41, <1>a, <1>b DEF RequestStop, Request
<1>42. CASE SaveConfig
  BY <1>42, <1>a, <1>b DEF SaveConfig
<1>43. ASSUME NEW t \in Tasks, TaskStart(t) PROVE TokenInv'
  BY <1>43, <1>a, <1>b DEF TaskStart
<1>44. ASSUME NEW t \in Tasks, QuickRecv(t) PROVE TokenInv'
  BY <1>44, <1>a, <1>b DEF QuickRecv
<1>45. ASSUME NEW t \in Tasks, QuickStop(t) PROVE TokenInv'
  BY <1>45, <1>a, <1>b DEF QuickStop
<1>46. ASSUME NEW t \in Tasks, QuickClear(t) PROVE TokenInv'
  BY <1>46, <1>a, <1>b DEF QuickClear
<1>47. ASSUME NEW t \in Tasks, QuickNotify(t) PROVE TokenInv'
  BY <1>47, <1>a, <1>b DEF QuickNotify
<1>48. ASSUME NEW t \in Tasks, KeepRecv(t) PROVE TokenInv'
  BY <1>48, <1>a, <1>b DEF KeepRecv
<1>49. ASSUME NEW t \in Tasks, KeepEnd(t) PROVE TokenInv'
  BY <1>49, <1>a, <1>b DEF KeepEnd
<1>50. ASSUME NEW t \in Tasks, KeepClear(t) PROVE TokenInv'
  BY <1>50, <1>a, <1>b DEF KeepClear
<1>51. ASSUME NEW t \in Tasks, QuickParams(t) PROVE TokenInv'
  BY <1>51, <1>a, <1>b DEF QuickParams
<1>52. ASSUME NEW t \in Tasks, QuickParamsError(t) PROVE TokenInv'
  BY <1>52, <1>a, <1>b DEF QuickParamsError
<1>53. ASSUME NEW t \in Tasks, HsSpawn(t) PROVE TokenInv'
  BY <1>53, <1>a, <1>b DEF HsSpawn, SpawnTask
<1>54. CASE Transfer \/ UNCHANGED vars
  BY <1>54 DEF Transfer, vars
<1>. QED
  BY <1>1, <1>2, <1>3, <1>4, <1>5, <1>6, <1>7, <1>8, <1>9, <1>10, <1>11,
     <1>12, <1>13, <1>14, <1>15, <1>16, <1>17, <1>18, <1>19, <1>20, <1>21,
     <1>22, <1>23, <1>24, <1>25, <1>26, <1>27, <1>28, <1>29, <1>30, <1>31,
     <1>32, <1>33, <1>34, <1>35, <1>36, <1>37, <1>38, <1>39, <1>40, <1>41,
     <1>42, <1>43, <1>44, <1>45, <1>46, <1>47, <1>48, <1>49, <1>50, <1>51,
     <1>52, <1>53, <1>54
     DEF Next, Main, Task, Io, HandshakePeer, SessionPeer, Failure, User

LEMMA TokenInvariant ==
  ASSUME WirelessOnly, NoQuick
  PROVE  Spec => []TokenInv
<1>1. Init /\ TypeOK => TokenInv
  BY DEF Init, TokenInv, NoQuickTasks, Token, Busy
<1>2. TokenInv /\ TypeOK' /\ [Next]_vars => TokenInv'
  BY TokenStep
<1>. QED
  BY <1>1, <1>2, TypeCorrect, PTL DEF Spec

\* A step of the implementation is a handover or none.
LEMMA HandoverStep ==
  ASSUME WirelessOnly, NoQuick, TokenInv, TokenInv', [Next]_vars
  PROVE  [H!Next]_H!vars
<1>. USE DEF TokenInv, NoQuickTasks, Token, Busy, Handshaking, MainGoto, IoGoto, TaskGoto,
         Send, More, Lag, NotifyTcpStart, Fault, Holder, Phase,
         H!vars, H!Next, H!Offer, H!Take, H!Return, H!Restart,
         mainVars, ioVars, taskVars, chanVars, reqVars, envVars
<1>1. munread \in 0..2 /\ tpc \in [Tasks -> TaskPc]
  BY DEF TypeOK
<1>2. CASE StartHandshake
  BY <1>1, <1>2 DEF StartHandshake
<1>3. CASE SkipHandshake
  BY <1>1, <1>3 DEF SkipHandshake
<1>4. CASE NoBluetooth
  BY <1>1, <1>4 DEF NoBluetooth
<1>5. CASE RecvRestart
  BY <1>1, <1>5 DEF RecvRestart
<1>6. CASE HsTimeout
  BY <1>1, <1>6 DEF HsTimeout
<1>7. CASE HsDisconnect
  BY <1>1, <1>7 DEF HsDisconnect
<1>8. CASE HsParams
  BY <1>1, <1>8 DEF HsParams
<1>9. CASE HsError
  BY <1>1, <1>9 DEF HsError
<1>10. CASE TcpStart
  BY <1>1, <1>10 DEF TcpStart
<1>11. CASE AcceptTimeout
  BY <1>1, <1>11 DEF AcceptTimeout
<1>12. CASE ConnectMdError
  BY <1>1, <1>12 DEF ConnectMdError
<1>13. CASE BroadcastRestart
  BY <1>1, <1>13 DEF BroadcastRestart
<1>14. CASE OpenHuError
  BY <1>1, <1>14 DEF OpenHuError
<1>15. ASSUME NEW t \in Tasks, HsSpawn(t) PROVE [H!Next]_H!vars
  BY <1>1, <1>15 DEF HsSpawn, SpawnTask
<1>16. CASE Subscribe \/ UsbInit \/ UsbFirst \/ Backoff \/ UsbLate \/ Reread
            \/ HsPower \/ IoTop \/ UsbPhone \/ SessionError \/ MonitorAct \/
            Cleanup
  BY <1>1, <1>16 DEF Subscribe, UsbInit, UsbFirst, Backoff, UsbLate, Reread, HsPower,
        IoTop, UsbPhone, SessionError, MonitorAct, Cleanup, Request,
        BeginSession
<1>17. CASE ResetUsb \/ MonitorRead \/ RebootSeen \/ RebootNow \/ HsDial \/
            HsConnect \/ Accept \/ OpenHu \/ ConnectMd \/ PhoneReturns \/
            LinkError \/ PhoneLeaves
  BY <1>1, <1>17 DEF ResetUsb, MonitorRead, RebootSeen, RebootNow, HsDial, HsConnect,
        Accept, OpenHu, ConnectMd, PhoneReturns, LinkError, PhoneLeaves,
        Request, BeginSession
<1>18. CASE PlugOrUnplug \/ RequestReconnect \/ RequestReboot \/ RequestStop
            \/ SaveConfig
  BY <1>1, <1>18 DEF PlugOrUnplug, RequestReconnect, RequestReboot, RequestStop,
        SaveConfig, Request, BeginSession
<1>19. ASSUME NEW t \in Tasks, TaskStart(t) \/ QuickRecv(t) \/ QuickStop(t) \/
               QuickClear(t) \/ QuickNotify(t) \/ KeepRecv(t) \/ KeepEnd(t)
               \/ KeepClear(t) \/ QuickParams(t) \/ QuickParamsError(t)
      PROVE  [H!Next]_H!vars
  BY <1>1, <1>19 DEF TaskStart, QuickRecv, QuickStop, QuickClear, QuickNotify,
        KeepRecv, KeepEnd, KeepClear, QuickParams, QuickParamsError
<1>20. CASE Transfer \/ UNCHANGED vars
  BY <1>20 DEF Transfer, vars
<1>. QED
  BY <1>1, <1>2, <1>3, <1>4, <1>5, <1>6, <1>7, <1>8, <1>9, <1>10, <1>11,
     <1>12, <1>13, <1>14, <1>15, <1>16, <1>17, <1>18, <1>19, <1>20
     DEF Next, Main, Task, Io, HandshakePeer, SessionPeer, Failure, User

\* Without quick_reconnect, over Bluetooth, the connection is handed over in
\* turn whatever fails, whoever asks and however long (main.rs, io_uring.rs).
THEOREM LoopsHandOver ==
  ASSUME WirelessOnly, NoQuick
  PROVE  Spec => HandsOver
<1>1. Init => H!Init
  BY DEF Init, H!Init, Holder, Phase, Busy
<1>2. TokenInv /\ TokenInv' /\ [Next]_vars => [H!Next]_H!vars
  BY HandoverStep
<1>. QED
  BY <1>1, <1>2, TokenInvariant, PTL DEF Spec, HandsOver, H!Spec

---------------------------------------------------------------------------
(* The loops do not wait for each other, with quick_reconnect or without.  *)

\* The phone is never taken for a wired one, and tasks are of the kind enabled.
LEMMA WirelessStep ==
  ASSUME WirelessOnly, TypeOK, WirelessInv, [Next]_vars
  PROVE  WirelessInv'
<1>. USE DEF Busy, Started, Handshaking, MainGoto, IoGoto, TaskGoto,
         Send, More, Lag, NotifyTcpStart, Fault,
         mainVars, ioVars, taskVars, chanVars, reqVars, envVars,
         WirelessInv, TaskKinds
<1>1. ~mcfg.wired /\ ~icfg.wired /\ tpc \in [Tasks -> TaskPc]
  BY DEF WirelessOnly, TypeOK
<1>2. (\A c \in Configs : ~c.keep) => ~mcfg.keep
  BY DEF TypeOK
<1>3. CASE IoTop
  BY <1>1, <1>2, <1>3 DEF IoTop
<1>4. CASE UsbPhone
  BY <1>1, <1>2, <1>4 DEF UsbPhone
<1>5. CASE Accept
  BY <1>1, <1>2, <1>5 DEF Accept
<1>6. ASSUME NEW t \in Tasks, HsSpawn(t) PROVE WirelessInv'
  BY <1>1, <1>2, <1>6 DEF HsSpawn, SpawnTask
<1>7. CASE Subscribe \/ UsbInit \/ UsbFirst \/ StartHandshake \/
            SkipHandshake \/ NoBluetooth \/ Backoff \/ UsbLate \/
            RecvRestart \/ Reread \/ HsPower \/ HsTimeout \/ HsDisconnect
  BY <1>1, <1>2, <1>7 DEF Subscribe, UsbInit, UsbFirst, StartHandshake, SkipHandshake,
        NoBluetooth, Backoff, UsbLate, RecvRestart, Reread, HsPower,
        HsTimeout, HsDisconnect, Request, BeginSession
<1>8. CASE TcpStart \/ AcceptTimeout \/ ConnectMdError \/ SessionError \/
            MonitorAct \/ Cleanup \/ BroadcastRestart \/ ResetUsb \/
            MonitorRead \/ RebootSeen \/ RebootNow \/ HsDial \/ HsConnect
  BY <1>1, <1>2, <1>8 DEF TcpStart, AcceptTimeout, ConnectMdError, SessionError, MonitorAct,
        Cleanup, BroadcastRestart, ResetUsb, MonitorRead, RebootSeen,
        RebootNow, HsDial, HsConnect, Request, BeginSession
<1>9. CASE HsParams \/ OpenHu \/ ConnectMd \/ PhoneReturns \/ HsError \/
            OpenHuError \/ LinkError \/ PhoneLeaves \/ PlugOrUnplug \/
            RequestReconnect \/ RequestReboot \/ RequestStop \/ SaveConfig
  BY <1>1, <1>2, <1>9 DEF HsParams, OpenHu, ConnectMd, PhoneReturns, HsError, OpenHuError,
        LinkError, PhoneLeaves, PlugOrUnplug, RequestReconnect,
        RequestReboot, RequestStop, SaveConfig, Request, BeginSession
<1>10. ASSUME NEW t \in Tasks, TaskStart(t) \/ QuickRecv(t) \/ QuickStop(t) \/
               QuickClear(t) \/ QuickNotify(t) \/ KeepRecv(t) \/ KeepEnd(t)
               \/ KeepClear(t) \/ QuickParams(t) \/ QuickParamsError(t)
      PROVE  WirelessInv'
  BY <1>1, <1>2, <1>10 DEF TaskStart, QuickRecv, QuickStop, QuickClear, QuickNotify,
        KeepRecv, KeepEnd, KeepClear, QuickParams, QuickParamsError
<1>11. CASE Transfer \/ UNCHANGED vars
  BY <1>1, <1>2, <1>11 DEF Transfer, vars
<1>. QED
  BY <1>1, <1>2, <1>3, <1>4, <1>5, <1>6, <1>7, <1>8, <1>9, <1>10, <1>11
     DEF Next, Main, Task, Io, HandshakePeer, SessionPeer, Failure, User

\* Whoever has read every restart message has been answered by io_loop.
LEMMA AnsweredStep ==
  ASSUME TypeOK, HandshakeAnswered, HandshakeHears, TaskAnswered, [Next]_vars
  PROVE  HandshakeAnswered' /\ HandshakeHears' /\ TaskAnswered'
<1>. USE DEF Busy, Started, Handshaking, MainGoto, IoGoto, TaskGoto,
         Send, More, Lag, NotifyTcpStart, Fault,
         mainVars, ioVars, taskVars, chanVars, reqVars, envVars,
         HandshakeAnswered, HandshakeHears, TaskAnswered
<1>1. /\ munread \in 0..2 /\ hsUnread \in 0..2
     /\ tpc \in [Tasks -> TaskPc] /\ tunread \in [Tasks -> 0..2]
  BY DEF TypeOK
<1>2. ASSUME NEW t \in Tasks, HsSpawn(t) PROVE HandshakeAnswered' /\ HandshakeHears' /\ TaskAnswered'
  BY <1>1, <1>2 DEF HsSpawn, SpawnTask
<1>3. ASSUME NEW t \in Tasks, QuickRecv(t) PROVE HandshakeAnswered' /\ HandshakeHears' /\ TaskAnswered'
  BY <1>1, <1>3 DEF QuickRecv
<1>4. ASSUME NEW t \in Tasks, QuickNotify(t) PROVE HandshakeAnswered' /\ HandshakeHears' /\ TaskAnswered'
  BY <1>1, <1>4 DEF QuickNotify
<1>5. ASSUME NEW t \in Tasks, QuickParams(t) PROVE HandshakeAnswered' /\ HandshakeHears' /\ TaskAnswered'
  BY <1>1, <1>5 DEF QuickParams
<1>6. CASE AcceptTimeout
  BY <1>1, <1>6 DEF AcceptTimeout
<1>7. CASE ConnectMdError
  BY <1>1, <1>7 DEF ConnectMdError
<1>8. CASE OpenHuError
  BY <1>1, <1>8 DEF OpenHuError
<1>9. CASE BroadcastRestart
  BY <1>1, <1>9 DEF BroadcastRestart
<1>10. CASE Subscribe \/ UsbInit \/ UsbFirst \/ StartHandshake \/
            SkipHandshake \/ NoBluetooth \/ Backoff \/ UsbLate \/
            RecvRestart \/ Reread \/ HsPower \/ HsTimeout \/ HsDisconnect
  BY <1>1, <1>10 DEF Subscribe, UsbInit, UsbFirst, StartHandshake, SkipHandshake,
        NoBluetooth, Backoff, UsbLate, RecvRestart, Reread, HsPower,
        HsTimeout, HsDisconnect, Request, BeginSession
<1>11. CASE IoTop \/ UsbPhone \/ TcpStart \/ SessionError \/ MonitorAct \/
            Cleanup \/ ResetUsb \/ MonitorRead \/ RebootSeen \/ RebootNow \/
            HsDial \/ HsConnect \/ HsParams
  BY <1>1, <1>11 DEF IoTop, UsbPhone, TcpStart, SessionError, MonitorAct, Cleanup,
        ResetUsb, MonitorRead, RebootSeen, RebootNow, HsDial, HsConnect,
        HsParams, Request, BeginSession
<1>12. CASE Accept \/ OpenHu \/ ConnectMd \/ PhoneReturns \/ HsError \/
            LinkError \/ PhoneLeaves \/ PlugOrUnplug \/ RequestReconnect \/
            RequestReboot \/ RequestStop \/ SaveConfig
  BY <1>1, <1>12 DEF Accept, OpenHu, ConnectMd, PhoneReturns, HsError, LinkError,
        PhoneLeaves, PlugOrUnplug, RequestReconnect, RequestReboot,
        RequestStop, SaveConfig, Request, BeginSession
<1>13. ASSUME NEW t \in Tasks, TaskStart(t) \/ QuickStop(t) \/ QuickClear(t) \/ KeepRecv(t)
               \/ KeepEnd(t) \/ KeepClear(t) \/ QuickParamsError(t)
      PROVE  HandshakeAnswered' /\ HandshakeHears' /\ TaskAnswered'
  BY <1>1, <1>13 DEF TaskStart, QuickStop, QuickClear, KeepRecv, KeepEnd, KeepClear,
        QuickParamsError
<1>14. CASE Transfer \/ UNCHANGED vars
  BY <1>1, <1>14 DEF Transfer, vars
<1>. QED
  BY <1>1, <1>2, <1>3, <1>4, <1>5, <1>6, <1>7, <1>8, <1>9, <1>10, <1>11,
     <1>12, <1>13, <1>14
     DEF Next, Main, Task, Io, HandshakePeer, SessionPeer, Failure, User

\* Once past the handshake, main will be woken.
LEMMA HearsStep ==
  ASSUME WirelessOnly, OneTaskKind, TypeOK, ProfileHasTask, WirelessInv,
         TaskAnswered, HandshakeAnswered, HandshakeHears, MainHears, [Next]_vars
  PROVE  MainHears'
<1>. USE DEF Busy, Started, Handshaking, MainGoto, IoGoto, TaskGoto,
         Send, More, Lag, NotifyTcpStart, Fault,
         mainVars, ioVars, taskVars, chanVars, reqVars, envVars,
         HandshakeAnswered, HandshakeHears, MainHears, Waking
<1>1. /\ munread \in 0..2 /\ hsUnread \in 0..2
     /\ tpc \in [Tasks -> TaskPc] /\ tunread \in [Tasks -> 0..2]
  BY DEF TypeOK
<1>2. ASSUME NEW t \in Tasks, HsSpawn(t) PROVE MainHears'
  BY <1>1, <1>2 DEF HsSpawn, SpawnTask
<1>3. CASE HsDisconnect
  BY <1>1, <1>3 DEF HsDisconnect
<1>4. CASE SkipHandshake
  <2>1. mcfg.quick /\ profile /\ mcfg \in Configs
    BY <1>4 DEF SkipHandshake, NeedsHandshake, WirelessOnly, WirelessInv, TypeOK
  <2>2. \A t \in Tasks : tpc[t] \notin {"k_start", "k_recv", "k_end", "k_clear"}
    BY <2>1 DEF OneTaskKind, WirelessInv, TaskKinds
  <2>3. PICK t \in Tasks : tpc[t] \in Holding
    BY <2>1 DEF ProfileHasTask
  <2>4. tunread[t] \in 0..2
    BY <1>1
  <2>5. Waking(t) \/ Started
    BY <2>2, <2>3, <2>4 DEF Holding, TaskAnswered
  <2>6. UNCHANGED <<permit, iopc, tpc, tunread>>
    BY <1>4 DEF SkipHandshake
  <2>. QED
    BY <2>5, <2>6
<1>5. ASSUME NEW t \in Tasks, QuickRecv(t) PROVE MainHears'
  BY <1>1, <1>5 DEF QuickRecv
<1>6. ASSUME NEW t \in Tasks, QuickNotify(t) PROVE MainHears'
  BY <1>1, <1>6 DEF QuickNotify
<1>7. ASSUME NEW t \in Tasks, QuickParams(t) PROVE MainHears'
  BY <1>1, <1>7 DEF QuickParams
<1>8. ASSUME NEW t \in Tasks, QuickParamsError(t) PROVE MainHears'
  BY <1>1, <1>8 DEF QuickParamsError
<1>9. ASSUME NEW t \in Tasks, QuickStop(t) PROVE MainHears'
  BY <1>1, <1>9 DEF QuickStop
<1>10. ASSUME NEW t \in Tasks, QuickClear(t) PROVE MainHears'
  BY <1>1, <1>10 DEF QuickClear
<1>11. ASSUME NEW t \in Tasks, TaskStart(t) PROVE MainHears'
  BY <1>1, <1>11 DEF TaskStart
<1>12. CASE AcceptTimeout
  BY <1>1, <1>12 DEF AcceptTimeout
<1>13. CASE ConnectMdError
  BY <1>1, <1>13 DEF ConnectMdError
<1>14. CASE OpenHuError
  BY <1>1, <1>14 DEF OpenHuError
<1>15. CASE BroadcastRestart
  BY <1>1, <1>15 DEF BroadcastRestart
<1>16. ASSUME NEW t \in Tasks, KeepRecv(t) PROVE MainHears'
  BY <1>1, <1>16 DEF KeepRecv
<1>17. ASSUME NEW t \in Tasks, KeepEnd(t) PROVE MainHears'
  BY <1>1, <1>17 DEF KeepEnd
<1>18. ASSUME NEW t \in Tasks, KeepClear(t) PROVE MainHears'
  BY <1>1, <1>18 DEF KeepClear
<1>19. CASE Subscribe \/ UsbInit \/ UsbFirst \/ StartHandshake \/
            NoBluetooth \/ Backoff \/ UsbLate \/ RecvRestart \/ Reread \/
            HsPower \/ HsTimeout \/ IoTop
  BY <1>1, <1>19 DEF Subscribe, UsbInit, UsbFirst, StartHandshake, NoBluetooth,
        Backoff, UsbLate, RecvRestart, Reread, HsPower, HsTimeout, IoTop,
        Request, BeginSession
<1>20. CASE UsbPhone \/ TcpStart \/ SessionError \/ MonitorAct \/ Cleanup \/
            ResetUsb \/ MonitorRead \/ RebootSeen \/ RebootNow \/ HsDial \/
            HsConnect \/ HsParams
  BY <1>1, <1>20 DEF UsbPhone, TcpStart, SessionError, MonitorAct, Cleanup, ResetUsb,
        MonitorRead, RebootSeen, RebootNow, HsDial, HsConnect, HsParams,
        Request, BeginSession
<1>21. CASE Accept \/ OpenHu \/ ConnectMd \/ PhoneReturns \/ HsError \/
            LinkError \/ PhoneLeaves \/ PlugOrUnplug \/ RequestReconnect \/
            RequestReboot \/ RequestStop \/ SaveConfig
  BY <1>1, <1>21 DEF Accept, OpenHu, ConnectMd, PhoneReturns, HsError, LinkError,
        PhoneLeaves, PlugOrUnplug, RequestReconnect, RequestReboot,
        RequestStop, SaveConfig, Request, BeginSession
<1>22. CASE Transfer \/ UNCHANGED vars
  BY <1>1, <1>22 DEF Transfer, vars
<1>. QED
  BY <1>1, <1>2, <1>3, <1>4, <1>5, <1>6, <1>7, <1>8, <1>9, <1>10, <1>11,
     <1>12, <1>13, <1>14, <1>15, <1>16, <1>17, <1>18, <1>19, <1>20, <1>21,
     <1>22
     DEF Next, Main, Task, Io, HandshakePeer, SessionPeer, Failure, User

LEMMA WaitInvariant ==
  ASSUME WirelessOnly, OneTaskKind
  PROVE  Spec => []WaitInv
<1>1. Init /\ TypeOK => WaitInv
  BY DEF Init, WaitInv, ProfileHasTask, WirelessInv, TaskKinds, TaskAnswered,
         HandshakeAnswered, HandshakeHears, MainHears, Handshaking
<1>2. WaitInv /\ TypeOK' /\ ProfileHasTask' /\ [Next]_vars => WaitInv'
  BY WirelessStep, AnsweredStep, HearsStep DEF WaitInv
<1>. QED
  BY <1>1, <1>2, TypeCorrect, ProfileHeld, PTL DEF Spec

\* main and io_loop never wait for each other as long as the phone is reached
\* over Bluetooth and only one kind of task is enabled (main.rs, io_uring.rs).
THEOREM LoopsNeverStuck ==
  ASSUME WirelessOnly, OneTaskKind
  PROVE  Spec => []NoMutualWait
<1>1. WaitInv => NoMutualWait
  BY DEF WaitInv, MainHears, Started, Busy, NoMutualWait
<1>. QED
  BY <1>1, WaitInvariant, PTL

---------------------------------------------------------------------------
(* A stopped session is not dialled again.                                 *)

\* Main's copy of the request is older than a Stop only while main has not
\* heard of the Stop, or is about to read the configuration again.
CopyInv == action = "Stop" /\ mpc # "reread" => mact = "Stop" \/ StopNotHeard

\* Until main receives the restart message a Stop keeps it unheard; then main
\* reads the request with the configuration.
LEMMA CopyStep ==
  ASSUME TypeOK, CopyInv, [Next]_vars
  PROVE  CopyInv'
<1>. USE DEF CopyInv, StopNotHeard, Ending, Handshaking, MainGoto, IoGoto, TaskGoto, Send,
         More, Lag, NotifyTcpStart, Fault, Request, BeginSession, SpawnTask,
         mainVars, ioVars, taskVars, chanVars, reqVars, envVars
<1>1. munread \in 0..2
  BY DEF TypeOK
<1>2. CASE Subscribe \/ UsbInit \/ UsbFirst \/ StartHandshake \/ SkipHandshake
           \/ NoBluetooth \/ Backoff \/ UsbLate \/ RecvRestart \/ Reread
  BY <1>1, <1>2 DEF Subscribe, UsbInit, UsbFirst, StartHandshake, SkipHandshake,
        NoBluetooth, Backoff, UsbLate, RecvRestart, Reread
<1>3. CASE HsPower \/ HsTimeout \/ HsDisconnect \/ HsDial \/ HsConnect \/ HsParams \/ HsError
  BY <1>1, <1>3 DEF HsPower, HsTimeout, HsDisconnect, HsDial, HsConnect, HsParams, HsError
<1>4. CASE AcceptTimeout \/ ConnectMdError \/ OpenHuError \/ BroadcastRestart
  <2>1. /\ munread' = IF mpc = "start" THEN 0 ELSE More(munread)
        /\ missed' = (mpc = "start")
    BY <1>4, Zenon DEF AcceptTimeout, ConnectMdError, OpenHuError, BroadcastRestart
  <2>2. CASE mpc = "start"
    BY <2>1, <2>2
  <2>3. CASE mpc # "start"
    BY <1>1, <2>1, <2>3
  <2>. QED
    BY <2>2, <2>3
<1>5. CASE IoTop \/ UsbPhone \/ TcpStart \/ SessionError \/ LinkError \/ MonitorAct
           \/ Cleanup \/ ResetUsb \/ Accept \/ OpenHu \/ ConnectMd
  BY <1>1, <1>5 DEF IoTop, UsbPhone, TcpStart, SessionError, LinkError, MonitorAct,
        Cleanup, ResetUsb, Accept, OpenHu, ConnectMd
<1>6. CASE MonitorRead \/ RebootSeen \/ RebootNow \/ RequestReconnect \/ RequestReboot
           \/ RequestStop \/ SaveConfig \/ PhoneReturns \/ PhoneLeaves \/ PlugOrUnplug
  BY <1>1, <1>6 DEF MonitorRead, RebootSeen, RebootNow, RequestReconnect, RequestReboot,
        RequestStop, SaveConfig, PhoneReturns, PhoneLeaves, PlugOrUnplug
<1>7. ASSUME NEW t \in Tasks,
             \/ HsSpawn(t) \/ TaskStart(t) \/ QuickRecv(t) \/ QuickStop(t) \/ QuickClear(t)
             \/ QuickParams(t) \/ QuickParamsError(t) \/ KeepRecv(t) \/ KeepEnd(t)
             \/ KeepClear(t)
      PROVE  CopyInv'
  BY <1>1, <1>7 DEF HsSpawn, TaskStart, QuickRecv, QuickStop, QuickClear, QuickParams,
        QuickParamsError, KeepRecv, KeepEnd, KeepClear
<1>8. ASSUME NEW t \in Tasks, QuickNotify(t) PROVE CopyInv'
  BY <1>1, <1>8 DEF QuickNotify
<1>9. CASE Transfer \/ UNCHANGED vars
  BY <1>9 DEF Transfer, vars
<1>. QED
  BY <1>2, <1>3, <1>4, <1>5, <1>6, <1>7, <1>8, <1>9
     DEF Next, Main, Task, Io, HandshakePeer, SessionPeer, Failure, User

\* Only the first step of the handshake begins to dial.
LEMMA DialStep ==
  ASSUME [Next]_vars, mpc # "hs_dial", mpc' = "hs_dial"
  PROVE  HsPower
  BY DEF TaskStep, taskVars, mainVars, ioVars, chanVars, reqVars, envVars, vars,
         MainGoto, Subscribe, UsbInit, UsbFirst, StartHandshake, SkipHandshake,
         NoBluetooth, Backoff, UsbLate, RecvRestart, Reread,
         HsTimeout, HsDisconnect, HsSpawn, IoTop, UsbPhone,
         TcpStart, AcceptTimeout, ConnectMdError, SessionError,
         MonitorAct, Cleanup, BroadcastRestart, ResetUsb,
         MonitorRead, RebootSeen, RebootNow, HsDial, HsConnect,
         HsParams, Accept, OpenHu, ConnectMd, PhoneReturns,
         HsError, OpenHuError, LinkError, PhoneLeaves,
         PlugOrUnplug, RequestReconnect, RequestReboot,
         RequestStop, SaveConfig, Request, BeginSession, Transfer,
         TaskStart, QuickRecv, QuickStop, QuickClear, QuickNotify, QuickParams,
         QuickParamsError, KeepRecv, KeepEnd, KeepClear,
         Next, Main, Task, Io, HandshakePeer, SessionPeer,
         Failure, User

\* Once the user has stopped the session and main has heard of it, main does
\* not dial the phone (main.rs, bluetooth.rs).
THEOREM StoppedStaysStopped == Spec => StopPreventsDialling
<1>1. Init => CopyInv
  BY DEF Init, CopyInv
<1>2. TypeOK /\ CopyInv /\ [Next]_vars => CopyInv'
  BY CopyStep
<1>3. CopyInv /\ [Next]_vars
        => [mpc # "hs_dial" /\ mpc' = "hs_dial" /\ action = "Stop" => StopNotHeard]_vars
  <2>. SUFFICES ASSUME CopyInv, [Next]_vars, mpc # "hs_dial", mpc' = "hs_dial", action = "Stop"
                PROVE  StopNotHeard
    OBVIOUS
  <2>1. mpc = "hs_power" /\ mact # "Stop"
    BY DialStep DEF HsPower, MainGoto
  <2>. QED
    BY <2>1 DEF CopyInv
<1>. QED
  BY <1>1, <1>2, <1>3, TypeCorrect, PTL DEF Spec, StopPreventsDialling
=============================================================================
