------------------------------ MODULE Session ------------------------------
(***************************************************************************)
(* The context of the running session that io_loop (io_uring.rs) shares    *)
(* with everything that talks into the session from outside: the web and   *)
(* BLE handlers (web.rs, btle.rs) and the signal handler (main.rs).        *)
(*                                                                         *)
(* Three tokio mutexes hold it: tx, the sender of the queue towards the    *)
(* phone, and the sensor and input channels found in the car's service     *)
(* discovery response. io_loop publishes tx at the start of a session and  *)
(* clears the three, keeping the guards, at its end. A handler written as  *)
(* `if let Some(ch) = *lock.await { if let Some(tx) = ... { send } }`      *)
(* keeps both guards until its packet is in the queue.                     *)
(*                                                                         *)
(* The configuration may be saved at any time. io_loop works with the copy *)
(* it makes before it waits for the car and the phone, the proxies with    *)
(* copies they make once the session runs.                                 *)
(*                                                                         *)
(* A slot, a channel and a queue are identified by the number of the       *)
(* session they belong to; 0 is None.                                      *)
(***************************************************************************)
EXTENDS Naturals, Sequences

CONSTANTS
    Clients,        \* concurrent web and BLE requests
    Kinds,          \* the kinds of request they make
    Configs,        \* configurations a session may run with
    Free, Io, Exiter, \* owners of a mutex that are not clients
    QueueCapacity,  \* MITM_QUEUE_CAPACITY
    LoggerCapacity, \* capacity of the logger task's command queue
    MaxSessions, MaxRequests, MaxFaults  \* bounds

\* Odometer, tire pressure and the other options that publish the sensor
\* channel do it as ev does.
ConfigType == [mitm : BOOLEAN, ev : BOOLEAN, logger : BOOLEAN]
\* sensor: battery, odometer, tire pressure, toll card; input: inject_event and
\* inject_rotary; key: input_key_handler; disconnect: disconnect_handler.
AllKinds == {"sensor", "input", "key", "disconnect"}

ASSUME ConfigsAssumption == Configs \subseteq ConfigType
ASSUME KindsAssumption == Kinds \subseteq AllKinds
ASSUME OwnersAssumption == /\ {Free, Io, Exiter} \cap Clients = {}
                           /\ Free # Io /\ Free # Exiter /\ Io # Exiter
ASSUME CapacityAssumption == QueueCapacity \in Nat \ {0} /\ LoggerCapacity \in Nat \ {0}
ASSUME BoundsAssumption == MaxSessions \in Nat /\ MaxRequests \in Nat /\ MaxFaults \in Nat

VARIABLES
    cfg,      \* io_loop's copy of the configuration
    pcfg,     \* the copy of the car's proxy
    iopc,     \* control point of io_loop
    sid,      \* number of sessions begun
    action,   \* a Reconnect is requested
    slot,     \* the contents of the three mutexes
    owner,    \* who holds them
    queue,    \* the queue towards the phone
    hupc,     \* how far the car's proxy has come with service discovery
    cpc,      \* control points of the clients
    kind,     \* what they do
    cch, ctx, \* the channel and the sender they have copied
    left,     \* packets they have yet to send
    cmds,     \* commands queued for the logger task
    logger,   \* the logger process
    task,     \* the logger task lives
    xpc,      \* control point of the signal handler
    xtx,      \* the sender it has copied
    late,     \* its deadline has passed
    stray,    \* history: the logger was started in a session that will not stop it
    faults, requests

ioVars     == <<cfg, iopc, sid>>
lockVars   == <<slot, owner>>
clientVars == <<cpc, kind, cch, ctx, left>>
proxyVars  == <<hupc, pcfg>>
loggerVars == <<cmds, logger, task, stray>>
exitVars   == <<xpc, xtx, late>>
vars == <<ioVars, action, lockVars, queue, proxyVars, clientVars, loggerVars, exitVars,
          faults, requests>>

Locks == {"tx", "sensor", "input"}
Teardown == {"lock_tx", "lock_sensor", "lock_input", "stop_logger"}
IoPc == {"idle", "wait", "run", "returned"} \cup Teardown

Fault == faults < MaxFaults /\ faults' = faults + 1

\* The queue's receiver lives as long as the phone's proxy.
Open(s) == s = sid /\ iopc = "run"
Packet(k, ch) == [kind |-> k, ch |-> ch]
PacketType == [kind : AllKinds \cup {"car"}, ch : 0..MaxSessions]
\* Mutant: a queue without a bound.
PutUnbounded(k, ch) == queue' = Append(queue, Packet(k, ch))
Put(k, ch) == Len(queue) < QueueCapacity /\ queue' = Append(queue, Packet(k, ch))

Release(p) == [l \in Locks |-> IF owner[l] = p THEN Free ELSE owner[l]]

---------------------------------------------------------------------------
Init ==
    /\ cfg \in Configs /\ pcfg = cfg /\ iopc = "idle" /\ sid = 0 /\ action = FALSE
    /\ slot = [l \in Locks |-> 0] /\ owner = [l \in Locks |-> Free]
    /\ queue = <<>> /\ hupc = "off"
    /\ cpc = [c \in Clients |-> "idle"]
    /\ kind \in [Clients -> {"disconnect"}]
    /\ cch = [c \in Clients |-> 0] /\ ctx = [c \in Clients |-> 0]
    /\ left = [c \in Clients |-> 0]
    /\ cmds = <<>> /\ logger = "none" /\ task = TRUE /\ stray = FALSE
    /\ xpc = "none" /\ xtx = 0 /\ late = FALSE
    /\ faults = 0 /\ requests = 0

---------------------------------------------------------------------------
(* io_loop.                                                                *)

\* The next iteration: whatever was saved until now.
Reload ==
    /\ iopc = "idle" /\ sid < MaxSessions /\ iopc' = "wait" /\ cfg' \in Configs
    /\ UNCHANGED <<sid, action, lockVars, queue, proxyVars, clientVars, loggerVars,
                   exitVars, faults, requests>>

\* Both ends are connected. tx is published for the EV features only.
Publishes == cfg.mitm /\ cfg.ev
Begin ==
    /\ iopc = "wait"
    /\ Publishes => owner["tx"] = Free
    /\ iopc' = "run" /\ sid' = sid + 1
    /\ slot' = IF Publishes THEN [slot EXCEPT !["tx"] = sid + 1] ELSE slot
    /\ hupc' = "start"
    /\ UNCHANGED <<cfg, pcfg, action, owner, queue, clientVars, loggerVars, exitVars,
                   faults, requests>>

\* transfer_monitor consumes a Reconnect, or a task of the session fails; the
\* tasks are aborted and the queues and the proxy's copy go with them.
End ==
    /\ iopc' = "lock_tx" /\ queue' = <<>> /\ hupc' = "off" /\ pcfg' = cfg
    /\ UNCHANGED <<cfg, sid, lockVars, clientVars, loggerVars, exitVars, requests>>
EndOnRequest == iopc = "run" /\ action /\ action' = FALSE /\ End /\ UNCHANGED faults
EndOnError   == iopc = "run" /\ Fault /\ End /\ UNCHANGED action

\* Mutant: the slot is left as it was.
KeepSlot(l) ==
    /\ owner[l] = Free
    /\ owner' = [owner EXCEPT ![l] = Io] /\ UNCHANGED slot
Clear(l) ==
    /\ owner[l] = Free
    /\ owner' = [owner EXCEPT ![l] = Io] /\ slot' = [slot EXCEPT ![l] = 0]

\* The guards tx_lock, sc_lock and ic_lock live to the end of the iteration.
ClearContext ==
    /\ \/ iopc = "lock_tx"     /\ Clear("tx")     /\ iopc' = "lock_sensor"
       \/ iopc = "lock_sensor" /\ Clear("sensor") /\ iopc' = "lock_input"
       \/ iopc = "lock_input"  /\ Clear("input")  /\ iopc' = "stop_logger"
    /\ UNCHANGED <<cfg, sid, action, queue, proxyVars, clientVars, loggerVars, exitVars,
                   faults, requests>>

\* Mutant: the logger is left to itself.
EndTeardownKeepsLogger ==
    /\ iopc = "stop_logger" /\ iopc' = "idle" /\ owner' = Release(Io)
    /\ UNCHANGED <<cfg, sid, action, slot, queue, proxyVars, clientVars, loggerVars,
                   exitVars, faults, requests>>

\* Stop the logger if io_loop's copy has one (the `?` ends io_loop when its task
\* is gone), broadcast the restart and go on with the next iteration.
EndTeardown ==
    /\ iopc = "stop_logger"
    /\ \/ ~cfg.logger /\ iopc' = "idle" /\ UNCHANGED <<cmds, stray>>
       \/ /\ cfg.logger /\ task /\ Len(cmds) < LoggerCapacity
          /\ cmds' = Append(cmds, "stop") /\ stray' = FALSE /\ iopc' = "idle"
       \/ cfg.logger /\ ~task /\ iopc' = "returned" /\ UNCHANGED <<cmds, stray>>
    /\ owner' = Release(Io)
    /\ UNCHANGED <<cfg, sid, action, slot, queue, proxyVars, clientVars, logger, task,
                   exitVars, faults, requests>>

---------------------------------------------------------------------------
(* The proxies, as far as they touch the context.                          *)

\* The car's proxy makes its copy of the configuration ...
CloneConfig ==
    /\ hupc = "start" /\ pcfg' \in Configs
    /\ hupc' = IF ~pcfg'.mitm THEN "open" ELSE IF pcfg'.ev THEN "sensor" ELSE "input"
    /\ UNCHANGED <<ioVars, action, lockVars, queue, clientVars, loggerVars, exitVars,
                   faults, requests>>

\* ... finds the channels in the service discovery response ...
Announce ==
    /\ \/ hupc = "sensor" /\ owner["sensor"] = Free /\ slot' = [slot EXCEPT !["sensor"] = sid]
          /\ hupc' = "input"
       \/ hupc = "input" /\ owner["input"] = Free /\ slot' = [slot EXCEPT !["input"] = sid]
          /\ hupc' = IF pcfg.ev /\ pcfg.logger THEN "logger" ELSE "open"
    /\ UNCHANGED <<ioVars, pcfg, action, owner, queue, clientVars, loggerVars, exitVars,
                   faults, requests>>

\* ... and starts the battery logger; without the logger task this is an error.
StartLogger ==
    /\ hupc = "logger" /\ task /\ Len(cmds) < LoggerCapacity
    /\ cmds' = Append(cmds, "start") /\ hupc' = "open" /\ stray' = (stray \/ ~cfg.logger)
    /\ UNCHANGED <<ioVars, pcfg, action, lockVars, queue, clientVars, logger, task,
                   exitVars, faults, requests>>
StartLoggerError ==
    /\ hupc = "logger" /\ ~task /\ End
    /\ UNCHANGED <<action, faults>>

\* Packets of the car compete for the queue; the phone's proxy empties it.
CarPacket ==
    /\ iopc = "run" /\ Put("car", sid)
    /\ UNCHANGED <<ioVars, action, lockVars, proxyVars, clientVars, loggerVars, exitVars,
                   faults, requests>>
Drain ==
    /\ iopc = "run" /\ queue # <<>> /\ queue' = Tail(queue)
    /\ UNCHANGED <<ioVars, action, lockVars, proxyVars, clientVars, loggerVars, exitVars,
                   faults, requests>>

---------------------------------------------------------------------------
(* The handlers of the web server and of BLE.                              *)

ChannelLock(k) == IF k = "sensor" THEN "sensor" ELSE "input"
\* input_key_handler copies what is behind the mutexes; the others hold them.
HoldsGuards(k) == k # "key"

Request(c) ==
    /\ cpc[c] = "idle" /\ requests < MaxRequests /\ requests' = requests + 1
    /\ \E k \in Kinds : /\ kind' = [kind EXCEPT ![c] = k]
                        /\ cpc' = [cpc EXCEPT ![c] = IF k = "disconnect" THEN "tx" ELSE "channel"]
    /\ UNCHANGED <<ioVars, action, lockVars, queue, proxyVars, cch, ctx, left, loggerVars,
                   exitVars, faults>>

NoChannel(c) ==
    /\ cpc[c] = "channel" /\ owner[ChannelLock(kind[c])] = Free
    /\ slot[ChannelLock(kind[c])] = 0
    /\ cpc' = [cpc EXCEPT ![c] = "idle"]
    /\ UNCHANGED <<ioVars, action, lockVars, queue, proxyVars, kind, cch, ctx, left,
                   loggerVars, exitVars, faults, requests>>

TakeChannel(c) ==
    LET l == ChannelLock(kind[c]) IN
    /\ cpc[c] = "channel" /\ owner[l] = Free /\ slot[l] # 0
    /\ cch' = [cch EXCEPT ![c] = slot[l]]
    /\ owner' = IF HoldsGuards(kind[c]) THEN [owner EXCEPT ![l] = c] ELSE owner
    /\ cpc' = [cpc EXCEPT ![c] = "tx"]
    /\ UNCHANGED <<ioVars, action, slot, queue, proxyVars, kind, ctx, left, loggerVars,
                   exitVars, faults, requests>>

\* The handler returns and its guards are dropped; /disconnect goes on to
\* request the reconnect.
Return(c) ==
    /\ owner' = Release(c)
    /\ cpc' = [cpc EXCEPT ![c] = IF kind[c] = "disconnect" THEN "request" ELSE "idle"]

NoTx(c) ==
    /\ cpc[c] = "tx" /\ owner["tx"] = Free /\ slot["tx"] = 0 /\ Return(c)
    /\ UNCHANGED <<ioVars, action, slot, queue, proxyVars, kind, cch, ctx, left, loggerVars,
                   exitVars, faults, requests>>

\* Key taps are two packets: down and up.
TakeTx(c) ==
    /\ cpc[c] = "tx" /\ owner["tx"] = Free /\ slot["tx"] # 0
    /\ ctx' = [ctx EXCEPT ![c] = slot["tx"]]
    /\ owner' = IF HoldsGuards(kind[c]) THEN [owner EXCEPT !["tx"] = c] ELSE owner
    /\ left' = [left EXCEPT ![c] = IF kind[c] \in {"input", "key"} THEN 2 ELSE 1]
    /\ cpc' = [cpc EXCEPT ![c] = "send"]
    /\ UNCHANGED <<ioVars, action, slot, queue, proxyVars, kind, cch, loggerVars, exitVars,
                   faults, requests>>

\* tx.send(pkt).await waits for room; it fails when the receiver is gone.
SendPacket(c) ==
    /\ cpc[c] = "send" /\ Open(ctx[c])
    /\ Put(kind[c], IF kind[c] = "disconnect" THEN 0 ELSE cch[c])
    /\ left' = [left EXCEPT ![c] = @ - 1]
    /\ IF left[c] = 1 THEN Return(c) ELSE UNCHANGED <<owner, cpc>>
    /\ UNCHANGED <<ioVars, action, slot, proxyVars, kind, cch, ctx, loggerVars, exitVars,
                   faults, requests>>
SendFails(c) ==
    /\ cpc[c] = "send" /\ ~Open(ctx[c]) /\ Return(c)
    /\ UNCHANGED <<ioVars, action, slot, queue, proxyVars, kind, cch, ctx, left, loggerVars,
                   exitVars, faults, requests>>

RequestReconnect(c) ==
    /\ cpc[c] = "request" /\ action' = TRUE /\ cpc' = [cpc EXCEPT ![c] = "idle"]
    /\ UNCHANGED <<ioVars, lockVars, queue, proxyVars, kind, cch, ctx, left, loggerVars,
                   exitVars, faults, requests>>

---------------------------------------------------------------------------
(* The logger task (spawn_ev_client_task).                                 *)

\* Starting a process that cannot be started is a panic of the task.
LoggerStart ==
    /\ task /\ logger # "stopping" /\ cmds # <<>> /\ Head(cmds) = "start"
    /\ \/ logger' = "running" /\ cmds' = Tail(cmds) /\ UNCHANGED <<task, faults>>
       \/ logger = "none" /\ Fault /\ task' = FALSE /\ cmds' = <<>> /\ UNCHANGED logger
    /\ UNCHANGED <<ioVars, action, lockVars, queue, proxyVars, clientVars, stray, exitVars,
                   requests>>

\* SIGTERM, two seconds of patience, SIGKILL.
LoggerStop ==
    /\ task /\ logger # "stopping" /\ cmds # <<>> /\ Head(cmds) = "stop"
    /\ logger' = IF logger = "running" THEN "stopping" ELSE "none"
    /\ cmds' = Tail(cmds)
    /\ UNCHANGED <<ioVars, action, lockVars, queue, proxyVars, clientVars, task, stray,
                   exitVars, faults, requests>>
LoggerGone ==
    /\ logger = "stopping" /\ logger' = "none"
    /\ UNCHANGED <<ioVars, action, lockVars, queue, proxyVars, clientVars, cmds, task,
                   stray, exitVars, faults, requests>>

---------------------------------------------------------------------------
(* clean_disconnect_and_exit, on SIGINT, SIGTERM or SIGQUIT.               *)

ExitGoto(p, q) == xpc = p /\ xpc' = q

Signal ==
    /\ ExitGoto("none", "tx")
    /\ UNCHANGED <<ioVars, action, lockVars, queue, proxyVars, clientVars, loggerVars, xtx,
                   late, faults, requests>>

\* Mutant: exit as soon as the ByeBye is sent.
ExitAfterByeBye ==
    /\ \/ ExitGoto("sleep", "exited") /\ owner' = Release(Exiter)
       \/ ExitGoto("tx", "exited") /\ owner["tx"] = Free /\ slot["tx"] = 0 /\ UNCHANGED owner
    /\ UNCHANGED <<ioVars, action, slot, queue, proxyVars, clientVars, loggerVars, xtx,
                   late, faults, requests>>

ExitTakeTx ==
    /\ ExitGoto("tx", "send") /\ owner["tx"] = Free /\ slot["tx"] # 0
    /\ xtx' = slot["tx"] /\ owner' = [owner EXCEPT !["tx"] = Exiter]
    /\ UNCHANGED <<ioVars, action, slot, queue, proxyVars, clientVars, loggerVars, late,
                   faults, requests>>

ExitByeBye ==
    /\ ExitGoto("send", "sleep")
    /\ IF Open(xtx) THEN Put("disconnect", 0) ELSE UNCHANGED queue
    /\ UNCHANGED <<ioVars, action, lockVars, proxyVars, clientVars, loggerVars, xtx, late,
                   faults, requests>>

\* The guard of the `if let` is dropped after the 200 ms head start.
ExitRelease ==
    /\ \/ ExitGoto("sleep", "request") /\ owner' = Release(Exiter)
       \/ ExitGoto("tx", "request") /\ owner["tx"] = Free /\ slot["tx"] = 0 /\ UNCHANGED owner
    /\ UNCHANGED <<ioVars, action, slot, queue, proxyVars, clientVars, loggerVars, xtx,
                   late, faults, requests>>

ExitRequest ==
    /\ ExitGoto("request", "poll") /\ action' = TRUE
    /\ UNCHANGED <<ioVars, lockVars, queue, proxyVars, clientVars, loggerVars, xtx, late,
                   faults, requests>>

\* Three seconds.
Deadline ==
    /\ xpc = "poll" /\ ~late /\ late' = TRUE
    /\ UNCHANGED <<ioVars, action, lockVars, queue, proxyVars, clientVars, loggerVars, xpc,
                   xtx, faults, requests>>

ExitPoll ==
    /\ ExitGoto("poll", "exited") /\ owner["tx"] = Free /\ (slot["tx"] = 0 \/ late)
    /\ UNCHANGED <<ioVars, action, lockVars, queue, proxyVars, clientVars, loggerVars, xtx,
                   late, faults, requests>>

---------------------------------------------------------------------------
IoStep == Reload \/ Begin \/ EndOnRequest \/ ClearContext \/ EndTeardown
Proxies == CloneConfig \/ Announce \/ StartLogger \/ StartLoggerError \/ Drain
Client(c) == \/ NoChannel(c) \/ TakeChannel(c) \/ NoTx(c) \/ TakeTx(c)
             \/ SendPacket(c) \/ SendFails(c) \/ RequestReconnect(c)
Logger == LoggerStart \/ LoggerStop \/ LoggerGone
Exit == ExitTakeTx \/ ExitByeBye \/ ExitRelease \/ ExitRequest \/ Deadline \/ ExitPoll

\* The program is over when io_loop has returned or the signal handler exits.
Running == iopc # "returned" /\ xpc # "exited"

Next == /\ Running
        /\ \/ IoStep \/ EndOnError \/ Proxies \/ CarPacket \/ Logger \/ Signal \/ Exit
           \/ \E c \in Clients : Request(c) \/ Client(c)

Spec == Init /\ [][Next]_vars

\* Every task and process that can move does; the car may stay silent.
FairSpec == Spec /\ WF_vars(Running /\ IoStep) /\ WF_vars(Running /\ Proxies)
                 /\ WF_vars(Running /\ Logger) /\ WF_vars(Running /\ Exit)
                 /\ \A c \in Clients : WF_vars(Running /\ Client(c))

---------------------------------------------------------------------------
(* Properties.                                                             *)

Owners == Clients \cup {Free, Io, Exiter}

IoType ==
    /\ {cfg, pcfg} \subseteq Configs /\ iopc \in IoPc /\ sid \in 0..MaxSessions
    /\ iopc = "wait" => sid < MaxSessions
    /\ action \in BOOLEAN /\ hupc \in {"off", "start", "sensor", "input", "logger", "open"}
ContextType == slot \in [Locks -> 0..MaxSessions] /\ owner \in [Locks -> Owners]
QueueType == queue \in Seq(PacketType) /\ Len(queue) <= QueueCapacity
ClientType ==
    /\ cpc \in [Clients -> {"idle", "channel", "tx", "send", "request"}]
    /\ kind \in [Clients -> AllKinds]
    /\ cch \in [Clients -> 0..MaxSessions] /\ ctx \in [Clients -> 0..MaxSessions]
    /\ left \in [Clients -> 0..2]
CommandsType == cmds \in Seq({"start", "stop"}) /\ Len(cmds) <= LoggerCapacity
LoggerType ==
    logger \in {"none", "running", "stopping"} /\ task \in BOOLEAN /\ stray \in BOOLEAN
ExitType ==
    /\ xpc \in {"none", "tx", "send", "sleep", "request", "poll", "exited"}
    /\ xtx \in 0..MaxSessions /\ late \in BOOLEAN
    /\ faults \in 0..MaxFaults /\ requests \in 0..MaxRequests

\* Every variable stays in its domain, the queues within their capacity.
TypeOK == /\ IoType /\ ContextType /\ QueueType /\ ClientType
          /\ CommandsType /\ LoggerType /\ ExitType

\* A packet injected by a handler that holds its guards carries a channel the
\* car announced in the very session whose queue it entered (web.rs, btle.rs).
OwnChannel ==
    \A i \in 1..Len(queue) : queue[i].kind \in {"sensor", "input"} => queue[i].ch = sid

\* A battery logger does not outlive its session: once the commands are worked
\* off, none runs between sessions (ev.rs, io_uring.rs). Exempt is a logger that a
\* proxy started by a copy of the configuration newer than io_loop's, which had
\* none: ev_battery_logger was saved while io_loop waited for the phone, and the
\* logger runs until the end of a session whose io_loop knows of one.
LoggerEndsWithSession ==
    iopc \in {"idle", "wait"} /\ cmds = <<>> /\ ~stray => logger # "running"

\* On a signal the program exits after the teardown of the session, or after
\* the deadline, if the session publishes its sender (main.rs).
ExitAfterTeardown ==
    [][xpc # "exited" /\ xpc' = "exited" =>
          iopc \in {"idle", "wait"} \/ late \/ ~Publishes]_vars

\* The teardown of a session comes to an end (io_uring.rs).
TeardownEnds == iopc \in Teardown ~> iopc \notin Teardown
=============================================================================
