----------------------------- MODULE Lifecycle -----------------------------
(***************************************************************************)
(* The connection lifecycle of aa-proxy-rs: two loops that run on two      *)
(* runtimes and wake each other up.                                        *)
(*                                                                         *)
(*   main      tokio_main (main.rs): USB gadget, Bluetooth handshake, then *)
(*             wait on the restart channel;                                *)
(*   io        io_loop (io_uring.rs): wait for the phone, open the car     *)
(*             side, proxy, tear down, broadcast a restart;                *)
(*   BT tasks  the tasks aa_handshake spawns (bluetooth.rs) to keep the    *)
(*             Bluetooth link between sessions;                            *)
(*   requests  action_requested, written by the web server, BLE, the       *)
(*             button and the phone's ByeBye, consumed by transfer_monitor *)
(*             and action_handler.                                         *)
(*                                                                         *)
(* They share the configuration lock, the tcp_start Notify (one stored     *)
(* permit), the capacity-1 restart broadcast and two atomics.              *)
(***************************************************************************)
EXTENDS Naturals

CONSTANTS
    Configs,         \* configurations the web interface may store
    WifiConfigured,  \* init_wifi_config succeeded at start-up
    Tasks,           \* slots for concurrently alive Bluetooth tasks
    MaxFaults,       \* bound: how often the environment misbehaves
    MaxRequests      \* bound: how many requests and saves users issue

\* The options the lifecycle branches on.
ConfigType == [wired : BOOLEAN, dhu : BOOLEAN, aaServer : BOOLEAN,
               quick : BOOLEAN, keep : BOOLEAN, usbFirst : BOOLEAN,
               dial : BOOLEAN, poweroff : BOOLEAN, stopOnBye : BOOLEAN]

ASSUME ConfigsAssumption == Configs \subseteq ConfigType
ASSUME WifiAssumption == WifiConfigured \in BOOLEAN
ASSUME BoundsAssumption == MaxFaults \in Nat /\ MaxRequests \in Nat

VARIABLES
    config,    \* the shared AppConfig
    action,    \* its action_requested field
    stale,     \* history: the pending action was requested before this session
    mpc,       \* control point of main
    mcfg,      \* main's copy of the configuration
    mact,      \* action_requested in that copy
    munread,   \* unread restart messages of main's receiver
    boot,      \* the configuration tokio_main started with
    gadget,    \* the accessory gadget is enabled towards the car
    hsUnread,  \* unread messages of the receiver handed to aa_handshake
    iopc,      \* control point of io_loop
    icfg,      \* io_loop's copy of the configuration
    md,        \* the phone-side transport of this iteration
    car,       \* the car-side transport: open, or lost once the gadget went
    seen,      \* the action transfer_monitor has read
    usb,       \* usb_connected
    permit,    \* the stored permit of tcp_start
    chan,      \* the message retained by the restart broadcast
    missed,    \* history: the last restart was broadcast before main subscribed
    profile,   \* profile_connected
    tpc,       \* control points of the Bluetooth tasks
    toff,      \* the bt_poweroff argument they were spawned with
    tunread,   \* unread restart messages of their receivers
    powered,   \* the Bluetooth adapter is powered
    reboot,    \* control point of the reboot task (action_handler)
    phone,     \* the phone is in range and answers
    plugged,   \* the phone is plugged into the USB host port
    faults, requests

mainVars == <<mpc, mcfg, mact, boot, gadget>>
ioVars   == <<iopc, icfg, md, car, seen, usb>>
taskVars == <<profile, tpc, toff>>
chanVars == <<chan, munread, hsUnread, tunread, missed>>
reqVars  == <<config, action, stale, reboot, requests>>
envVars  == <<phone, plugged, faults>>
vars == <<mainVars, ioVars, taskVars, chanVars, reqVars, envVars, permit, powered>>

Actions == {"none", "Reconnect", "Reboot", "Stop"}
Handshaking == {"hs_power", "hs_dial", "hs_connect", "hs_params", "hs_finish"}
MainPc  == {"start", "usb_init", "usb_first", "decide", "backoff", "usb_late", "wait",
            "reread"} \cup Handshaking
IoPc    == {"top", "wait_md", "accept", "open_hu", "connect_md", "run",
            "monitor_act", "cleanup", "notify", "reset_usb"}
\* Quick-reconnect tasks use the q_ points, keepalive tasks the k_ points.
TaskPc  == {"free", "q_start", "q_recv", "q_params", "q_stop", "q_clear",
            "q_notify", "k_start", "k_recv", "k_end", "k_clear"}
Live    == TaskPc \ {"free"}

---------------------------------------------------------------------------
(* tokio primitives, as the code uses them (external).                     *)

\* A receiver of a capacity-1 broadcast has 0 or 1 unread messages, or has
\* lagged: its next recv() reports Lagged and leaves the retained message.
Lag == 2
More(n) == IF n = Lag THEN Lag ELSE n + 1

\* broadcast::Sender::send reaches every receiver subscribed at that moment.
Send(m) ==
    /\ chan' = m /\ missed' = (mpc = "start")
    /\ munread' = IF mpc = "start" THEN 0 ELSE More(munread)
    /\ hsUnread' = IF mpc \in Handshaking THEN More(hsUnread) ELSE hsUnread
    /\ tunread' = [t \in Tasks |-> IF tpc[t] = "free" THEN 0 ELSE More(tunread[t])]

NotifyTcpStart == permit' = TRUE

Fault == faults < MaxFaults /\ faults' = faults + 1

---------------------------------------------------------------------------
Init ==
    /\ config \in Configs
    /\ action = "none" /\ stale = FALSE
    /\ boot = config
    /\ mpc = "start" /\ mcfg = config /\ mact = "none"
    /\ gadget = FALSE
    /\ munread = 0 /\ hsUnread = 0 /\ chan = "none" /\ missed = FALSE
    /\ iopc = "top" /\ icfg = config /\ md = "none" /\ car = "none" /\ seen = "none"
    /\ usb = FALSE /\ permit = FALSE
    /\ profile = FALSE
    /\ tpc = [t \in Tasks |-> "free"] /\ tunread = [t \in Tasks |-> 0]
    /\ toff = [t \in Tasks |-> FALSE]
    /\ powered = ~config.aaServer
    /\ reboot = "idle"
    /\ phone = TRUE /\ plugged \in BOOLEAN /\ (plugged => \E c \in Configs : c.wired)
    /\ faults = 0 /\ requests = 0

---------------------------------------------------------------------------
(* main: the connection loop of tokio_main.                                *)

MainGoto(p) == mpc' = p

\* Bluetooth::init is repeated until it succeeds, unless the phone is reached
\* over TCP; then main subscribes to the restart broadcast.
Subscribe ==
    /\ mpc = "start" /\ MainGoto("usb_init")
    /\ UNCHANGED <<mcfg, mact, boot, gadget, ioVars, taskVars, chanVars, reqVars, envVars, permit, powered>>

\* usb.init() disables the accessory gadget, under a session that uses it too.
UsbInit ==
    /\ mpc = "usb_init" /\ MainGoto("usb_first")
    /\ gadget' = (gadget /\ boot.dhu)
    /\ car' = IF gadget /\ ~boot.dhu /\ car = "open" /\ ~icfg.dhu THEN "lost" ELSE car
    /\ UNCHANGED <<mcfg, mact, boot, iopc, icfg, md, seen, usb, taskVars, chanVars, reqVars, envVars, permit, powered>>

\* change_usb_order: enable the gadget before the handshake.
UsbFirst ==
    /\ mpc = "usb_first" /\ MainGoto("decide")
    /\ gadget' = (gadget \/ (boot.usbFirst /\ ~boot.dhu))
    /\ UNCHANGED <<mcfg, mact, boot, ioVars, taskVars, chanVars, reqVars, envVars, permit, powered>>

NeedsHandshake ==
    /\ ~mcfg.aaServer /\ WifiConfigured
    /\ ~usb
    /\ (mcfg.quick /\ profile) => mact = "Stop"

\* The handshake subscribes its own receiver at the call.
StartHandshake ==
    /\ mpc = "decide" /\ NeedsHandshake /\ ~boot.aaServer
    /\ MainGoto("hs_power") /\ hsUnread' = 0
    /\ UNCHANGED <<mcfg, mact, boot, gadget, ioVars, taskVars, chan, missed, munread, tunread,
                   reqVars, envVars, permit, powered>>

SkipHandshake ==
    /\ mpc = "decide" /\ ~NeedsHandshake /\ MainGoto("usb_late")
    /\ UNCHANGED <<mcfg, mact, boot, gadget, ioVars, taskVars, chanVars, reqVars, envVars, permit, powered>>

NoBluetooth ==
    /\ mpc = "decide" /\ NeedsHandshake /\ boot.aaServer /\ MainGoto("backoff")
    /\ UNCHANGED <<mcfg, mact, boot, gadget, ioVars, taskVars, chanVars, reqVars, envVars, permit, powered>>

\* After an error: sleep one second, `continue` with the same configuration.
Backoff ==
    /\ mpc = "backoff" /\ MainGoto("usb_init")
    /\ UNCHANGED <<mcfg, mact, boot, gadget, ioVars, taskVars, chanVars, reqVars, envVars, permit, powered>>

UsbLate ==
    /\ mpc = "usb_late" /\ MainGoto("wait")
    /\ gadget' = (gadget \/ (~boot.usbFirst /\ ~boot.dhu))
    /\ UNCHANGED <<mcfg, mact, boot, ioVars, taskVars, chanVars, reqVars, envVars, permit, powered>>

\* Mutant: try_recv instead of recv.
TryRecvRestart ==
    /\ mpc = "wait"
    /\ munread' = munread - 1 /\ MainGoto("reread")
    /\ UNCHANGED <<mcfg, mact, boot, gadget, ioVars, taskVars, chan, missed, hsUnread, tunread,
                   reqVars, envVars, permit, powered>>

\* `let _ = need_restart.recv().await`: a Lagged error wakes main as well.
RecvRestart ==
    /\ mpc = "wait" /\ munread > 0
    /\ munread' = munread - 1 /\ MainGoto("reread")
    /\ UNCHANGED <<mcfg, mact, boot, gadget, ioVars, taskVars, chan, missed, hsUnread, tunread,
                   reqVars, envVars, permit, powered>>

\* One second of sleep unless quick_reconnect holds the profile; the sleep
\* outlasts the single store io_loop has left after its broadcast.
Reread ==
    /\ mpc = "reread" /\ MainGoto("usb_init")
    /\ iopc = "reset_usb" => mcfg.quick /\ profile
    /\ mcfg' = config /\ mact' = action
    /\ UNCHANGED <<boot, gadget, ioVars, taskVars, chanVars, reqVars, envVars, permit, powered>>

---------------------------------------------------------------------------
(* main inside Bluetooth::aa_handshake.                                    *)

\* Mutant: the handshake ignores that the user stopped the session.
HsPowerAlwaysDials ==
    /\ mpc = "hs_power"
    /\ powered' = (powered \/ mcfg.poweroff)
    /\ MainGoto(IF mcfg.dial THEN "hs_dial" ELSE "hs_connect")
    /\ UNCHANGED <<mcfg, mact, boot, gadget, ioVars, taskVars, chanVars, reqVars, envVars, permit>>

HsPower ==
    /\ mpc = "hs_power"
    /\ powered' = (powered \/ mcfg.poweroff)
    /\ MainGoto(IF mcfg.dial /\ mact # "Stop" THEN "hs_dial" ELSE "hs_connect")
    /\ UNCHANGED <<mcfg, mact, boot, gadget, ioVars, taskVars, chanVars, reqVars, envVars, permit>>

\* try_connect_bluetooth_addresses is retried without_max_times.
HsDial ==
    /\ mpc = "hs_dial" /\ phone /\ powered /\ MainGoto("hs_connect")
    /\ UNCHANGED <<mcfg, mact, boot, gadget, ioVars, taskVars, chanVars, reqVars, envVars, permit, powered>>

HsConnect ==
    /\ mpc = "hs_connect" /\ phone /\ powered /\ MainGoto("hs_params")
    /\ UNCHANGED <<mcfg, mact, boot, gadget, ioVars, taskVars, chanVars, reqVars, envVars, permit, powered>>

\* bt_timeout on handle_aa.next().
HsTimeout ==
    /\ mpc = "hs_connect" /\ ~(phone /\ powered)
    /\ MainGoto("backoff") /\ hsUnread' = 0
    /\ UNCHANGED <<mcfg, mact, boot, gadget, ioVars, taskVars, chan, missed, munread, tunread,
                   reqVars, envVars, permit, powered>>

\* Mutant: io_loop is not told that the parameters were sent.
HsParamsSilent ==
    /\ mpc = "hs_params" /\ phone /\ MainGoto("hs_finish")
    /\ UNCHANGED <<mcfg, mact, boot, gadget, ioVars, taskVars, chanVars, reqVars, envVars, permit, powered>>

\* send_params completed: tcp_start.notify_one().
HsParams ==
    /\ mpc = "hs_params" /\ phone /\ MainGoto("hs_finish") /\ NotifyTcpStart
    /\ UNCHANGED <<mcfg, mact, boot, gadget, ioVars, taskVars, chanVars, reqVars, envVars, powered>>

\* send_params failed: the link dropped or the phone refused the access point.
HsError ==
    /\ mpc = "hs_params"
    /\ Fault /\ MainGoto("backoff") /\ hsUnread' = 0
    /\ UNCHANGED <<mcfg, mact, boot, gadget, ioVars, taskVars, chan, missed, munread, tunread,
                   reqVars, phone, plugged, permit, powered>>

\* The receiver moves into the spawned task.
SpawnTask(t, p) ==
    /\ tpc[t] = "free"
    /\ tpc' = [tpc EXCEPT ![t] = p]
    /\ tunread' = [tunread EXCEPT ![t] = hsUnread]
    /\ toff' = [toff EXCEPT ![t] = mcfg.poweroff]
    /\ hsUnread' = 0

HsSpawn(t) ==
    /\ mpc = "hs_finish" /\ (mcfg.quick \/ mcfg.keep) /\ MainGoto("usb_late")
    /\ SpawnTask(t, IF mcfg.quick THEN "q_start" ELSE "k_start")
    /\ UNCHANGED <<mcfg, mact, boot, gadget, ioVars, profile, chan, missed, munread,
                   reqVars, envVars, permit, powered>>

\* Disconnect the phone (and power the adapter off); Adapter::device cannot
\* fail for an address BlueZ reported, so the `?` after it never returns.
HsDisconnect ==
    /\ mpc = "hs_finish" /\ ~mcfg.quick /\ ~mcfg.keep /\ MainGoto("usb_late")
    /\ hsUnread' = 0
    /\ powered' = (powered /\ ~mcfg.poweroff)
    /\ UNCHANGED <<mcfg, mact, boot, gadget, ioVars, taskVars, chan, missed, munread, tunread,
                   reqVars, envVars, permit>>

---------------------------------------------------------------------------
(* Bluetooth tasks spawned by aa_handshake.                                *)

TaskGoto(t, p, q) == tpc[t] = p /\ tpc' = [tpc EXCEPT ![t] = q]

TaskStart(t) ==
    /\ \/ TaskGoto(t, "q_start", "q_recv")
       \/ TaskGoto(t, "k_start", "k_recv")
    /\ profile' = TRUE
    /\ UNCHANGED <<toff, mainVars, ioVars, chanVars, reqVars, envVars, permit, powered>>

\* Only an unlagged Stop ends the loop; anything else restarts the handshake.
QuickRecv(t) ==
    /\ tunread[t] > 0
    /\ tunread' = [tunread EXCEPT ![t] = @ - 1]
    /\ TaskGoto(t, "q_recv", IF tunread[t] = 1 /\ chan = "Stop" THEN "q_stop" ELSE "q_params")
    /\ UNCHANGED <<mainVars, ioVars, profile, toff, chan, missed, munread, hsUnread, reqVars, envVars, permit, powered>>

\* The exchange takes several Bluetooth round trips and the phone then joins
\* the network; main, which does not sleep while the profile is held, has
\* passed its restart through to the next wait by then.
MainReacting ==
    /\ mcfg.quick /\ profile
    /\ \/ mpc \in {"reread", "usb_init", "usb_first", "usb_late"}
       \/ mpc = "decide" /\ ~NeedsHandshake
       \/ mpc = "wait" /\ munread > 0

QuickParams(t) ==
    /\ phone /\ ~MainReacting /\ TaskGoto(t, "q_params", "q_recv") /\ NotifyTcpStart
    /\ UNCHANGED <<mainVars, ioVars, profile, toff, chanVars, reqVars, envVars, powered>>

QuickParamsError(t) ==
    /\ Fault /\ TaskGoto(t, "q_params", "q_clear")
    /\ UNCHANGED <<mainVars, ioVars, profile, toff, chanVars, reqVars, phone, plugged, permit, powered>>

\* Drain and shut the RFCOMM stream, disconnect the device.
QuickStop(t) ==
    /\ TaskGoto(t, "q_stop", "q_clear")
    /\ UNCHANGED <<mainVars, ioVars, profile, toff, chanVars, reqVars, envVars, permit, powered>>

\* Mutant: a task ends without clearing profile_connected.
KeepClearForgets(t) ==
    /\ TaskGoto(t, "k_clear", "free") /\ tunread' = [tunread EXCEPT ![t] = 0]
    /\ UNCHANGED <<profile, toff, mainVars, ioVars, chan, missed, munread, hsUnread, reqVars, envVars,
                   permit, powered>>

QuickClear(t) ==
    /\ TaskGoto(t, "q_clear", "q_notify") /\ profile' = FALSE
    /\ UNCHANGED <<toff, mainVars, ioVars, chanVars, reqVars, envVars, permit, powered>>

\* "main loop could now wait so send an event to restart"; the task ends.
QuickNotify(t) ==
    /\ TaskGoto(t, "q_notify", "free")
    /\ chan' = "none" /\ munread' = More(munread)
    /\ hsUnread' = IF mpc \in Handshaking THEN More(hsUnread) ELSE hsUnread
    /\ tunread' = [s \in Tasks |-> IF s = t \/ tpc[s] = "free" THEN 0 ELSE More(tunread[s])]
    /\ UNCHANGED <<missed, mainVars, ioVars, profile, toff, reqVars, envVars, permit, powered>>

KeepRecv(t) ==
    /\ tunread[t] > 0 /\ TaskGoto(t, "k_recv", "k_end")
    /\ tunread' = [tunread EXCEPT ![t] = @ - 1]
    /\ UNCHANGED <<mainVars, ioVars, profile, toff, chan, missed, munread, hsUnread, reqVars, envVars, permit, powered>>

\* Shut the stream, disconnect, unregister HSP, power the adapter off.
KeepEnd(t) ==
    /\ TaskGoto(t, "k_end", "k_clear")
    /\ powered' = (powered /\ ~toff[t])
    /\ UNCHANGED <<mainVars, ioVars, profile, toff, chanVars, reqVars, envVars, permit>>

KeepClear(t) ==
    /\ TaskGoto(t, "k_clear", "free") /\ profile' = FALSE
    /\ tunread' = [tunread EXCEPT ![t] = 0]
    /\ UNCHANGED <<toff, mainVars, ioVars, chan, missed, munread, hsUnread, reqVars, envVars, permit, powered>>

---------------------------------------------------------------------------
(* io_loop.                                                                *)

IoGoto(p, q) == iopc = p /\ iopc' = q

IoTop ==
    /\ IoGoto("top", IF config.aaServer THEN "open_hu" ELSE "wait_md")
    /\ icfg' = config /\ md' = "none" /\ car' = "none"
    /\ usb' = (usb /\ ~config.aaServer)
    /\ UNCHANGED <<seen, mainVars, taskVars, chanVars, reqVars, envVars, permit, powered>>

\* wired: the usb_future of the select completes.
UsbPhone ==
    /\ icfg.wired /\ plugged
    /\ IoGoto("wait_md", "open_hu") /\ md' = "usb" /\ usb' = TRUE
    /\ UNCHANGED <<icfg, car, seen, mainVars, taskVars, chanVars, reqVars, envVars, permit, powered>>

TcpStart ==
    /\ permit /\ permit' = FALSE /\ IoGoto("wait_md", "accept")
    /\ UNCHANGED <<icfg, md, car, seen, usb, mainVars, taskVars, chanVars, reqVars, envVars, powered>>

\* A handshake's task is spawned and polled before the phone has joined the
\* network and connected.
SpawnPending == \/ mpc = "hs_finish" /\ (mcfg.quick \/ mcfg.keep)
                \/ \E t \in Tasks : tpc[t] \in {"q_start", "k_start"}

\* Only the wireless branch resets usb_connected here.
Accept ==
    /\ phone /\ ~SpawnPending
    /\ IoGoto("accept", "open_hu") /\ md' = "tcp"
    /\ usb' = (usb /\ icfg.wired)
    /\ UNCHANGED <<icfg, car, seen, mainVars, taskVars, chanVars, reqVars, envVars, permit, powered>>

\* Mutants: the restart message is forgotten, or io_loop keeps listening after it.
AcceptTimeoutSilent ==
    /\ ~phone /\ ~SpawnPending /\ IoGoto("accept", "top")
    /\ UNCHANGED <<icfg, md, car, seen, usb, mainVars, taskVars, chanVars, reqVars, envVars, permit, powered>>
AcceptTimeoutRetries ==
    /\ iopc = "accept" /\ ~phone /\ ~SpawnPending /\ Send("none")
    /\ UNCHANGED <<ioVars, mainVars, taskVars, reqVars, envVars, permit, powered>>

\* `need_restart.send(None); continue`
AcceptTimeout ==
    /\ ~phone /\ ~SpawnPending /\ IoGoto("accept", "top") /\ Send("none")
    /\ UNCHANGED <<icfg, md, car, seen, usb, mainVars, taskVars, reqVars, envVars, permit, powered>>

BeginSession ==
    /\ iopc' = "run" /\ seen' = "none"
    /\ stale' = (action # "none")

\* The accessory device opens, or a DHU connects; in direct TCP mode the
\* phone is connected next.
OpenHu ==
    /\ iopc = "open_hu"
    /\ IF icfg.aaServer THEN iopc' = "connect_md" /\ UNCHANGED <<seen, stale>>
                        ELSE BeginSession
    /\ car' = "open"
    /\ UNCHANGED <<icfg, md, usb, mainVars, taskVars, chanVars, config, action, reboot,
                   requests, envVars, permit, powered>>

OpenHuError ==
    /\ Fault /\ IoGoto("open_hu", "top") /\ Send("none")
    /\ UNCHANGED <<icfg, md, car, seen, usb, mainVars, taskVars, reqVars, phone, plugged, permit, powered>>

ConnectMd ==
    /\ iopc = "connect_md" /\ phone /\ md' = "tcp" /\ BeginSession
    /\ UNCHANGED <<icfg, car, usb, mainVars, taskVars, chanVars, config, action, reboot,
                   requests, envVars, permit, powered>>

ConnectMdError ==
    /\ ~phone /\ IoGoto("connect_md", "top") /\ Send("none")
    /\ UNCHANGED <<icfg, md, car, seen, usb, mainVars, taskVars, reqVars, envVars, permit, powered>>

\* The session forwards packets; Pipeline.tla has the detail.
Transfer == iopc = "run" /\ UNCHANGED vars

\* One of the joined tasks returns an error other than the monitor's action
\* request: the phone left, main disabled the car's gadget or will not enable
\* it, the phone was plugged in during a wireless session or unplugged during
\* a wired one ...
SessionError ==
    /\ IoGoto("run", "cleanup")
    /\ \/ ~phone
       \/ car = "lost"
       \/ ~icfg.dhu /\ ~gadget /\ mpc = "wait"
       \/ icfg.wired /\ md = "tcp" /\ plugged
       \/ md = "usb" /\ ~plugged
    /\ UNCHANGED <<icfg, md, car, seen, usb, mainVars, taskVars, chanVars, reqVars, envVars,
                   permit, powered>>

\* ... or a link failed or stalled.
LinkError ==
    /\ IoGoto("run", "cleanup") /\ Fault
    /\ UNCHANGED <<icfg, md, car, seen, usb, mainVars, taskVars, chanVars, reqVars, phone, plugged,
                   permit, powered>>

\* transfer_monitor reads the pending action ...
MonitorRead ==
    /\ action # "none" /\ IoGoto("run", "monitor_act") /\ seen' = action
    /\ UNCHANGED <<icfg, md, car, usb, mainVars, taskVars, chanVars, reqVars, envVars, permit, powered>>

\* Mutant: the monitor clears whatever it has read.
MonitorActClears ==
    /\ IoGoto("monitor_act", "cleanup") /\ seen' = "none" /\ action' = "none"
    /\ UNCHANGED <<icfg, md, car, usb, mainVars, taskVars, chanVars, config, stale, reboot,
                   requests, envVars, permit, powered>>

\* ... and, after the read lock is gone, clears it if it read Reconnect.
MonitorAct ==
    /\ IoGoto("monitor_act", "cleanup") /\ seen' = "none"
    /\ IF seen = "Reconnect" THEN action' = "none" /\ stale' = FALSE
                             ELSE UNCHANGED <<action, stale>>
    /\ UNCHANGED <<icfg, md, car, usb, mainVars, taskVars, chanVars, config, reboot,
                   requests, envVars, permit, powered>>

\* Cancel the bridges, abort the tasks, close the sockets, clear the
\* contexts the web server uses.
Cleanup ==
    /\ IoGoto("cleanup", "notify") /\ md' = "none" /\ car' = "none"
    /\ UNCHANGED <<icfg, seen, usb, mainVars, taskVars, chanVars, reqVars, envVars, permit, powered>>

BroadcastRestart ==
    /\ IoGoto("notify", "reset_usb") /\ Send(action)
    /\ UNCHANGED <<icfg, md, car, seen, usb, mainVars, taskVars, reqVars, envVars, permit, powered>>

ResetUsb ==
    /\ IoGoto("reset_usb", "top") /\ usb' = FALSE
    /\ UNCHANGED <<icfg, md, car, seen, mainVars, taskVars, chanVars, reqVars, envVars, permit, powered>>

---------------------------------------------------------------------------
(* Requests: action_requested is one slot in the configuration.            *)

Request(a) ==
    /\ requests < MaxRequests /\ requests' = requests + 1
    /\ action' = a /\ stale' = FALSE
    /\ UNCHANGED <<config, reboot, mainVars, ioVars, taskVars, chanVars, envVars, permit, powered>>

\* Web /restart and /disconnect, BLE /restart, a single button press.
RequestReconnect == Request("Reconnect")
\* Web /reboot, BLE /reboot, the end of an update.
RequestReboot == Request("Reboot")
\* The phone's ByeBye(USER_SELECTION) during a session.
RequestStop == icfg.stopOnBye /\ iopc = "run" /\ Request("Stop")

\* Saving a configuration replaces the whole AppConfig; action_requested is
\* skipped by serde and comes back as None.
SaveConfig ==
    /\ requests < MaxRequests /\ requests' = requests + 1
    /\ config' \in Configs /\ action' = "none" /\ stale' = FALSE
    /\ UNCHANGED <<reboot, mainVars, ioVars, taskVars, chanVars, envVars, permit, powered>>

\* action_handler reads Reboot, and again when the program still runs a minute
\* after it has called for one ...
RebootSeen ==
    /\ reboot # "seen" /\ action = "Reboot" /\ reboot' = "seen"
    /\ UNCHANGED <<config, action, stale, requests, mainVars, ioVars, taskVars, chanVars, envVars,
                   permit, powered>>

\* ... then clears the slot and runs /sbin/reboot.
RebootNow ==
    /\ reboot = "seen" /\ reboot' = "rebooting" /\ action' = "none" /\ stale' = FALSE
    /\ UNCHANGED <<config, requests, mainVars, ioVars, taskVars, chanVars, envVars,
                   permit, powered>>

---------------------------------------------------------------------------
(* The environment (external): the phone comes and goes.                   *)

PhoneLeaves ==
    /\ phone /\ Fault /\ phone' = FALSE
    /\ UNCHANGED <<plugged, mainVars, ioVars, taskVars, chanVars, reqVars, permit, powered>>

PhoneReturns ==
    /\ ~phone /\ phone' = TRUE
    /\ UNCHANGED <<plugged, faults, mainVars, ioVars, taskVars, chanVars, reqVars, permit, powered>>

PlugOrUnplug ==
    /\ config.wired /\ Fault /\ plugged' = ~plugged
    /\ UNCHANGED <<phone, mainVars, ioVars, taskVars, chanVars, reqVars, permit, powered>>

---------------------------------------------------------------------------
Main == \/ Subscribe \/ UsbInit \/ UsbFirst \/ StartHandshake \/ SkipHandshake \/ NoBluetooth
        \/ Backoff \/ UsbLate \/ RecvRestart \/ Reread
        \/ HsPower \/ HsTimeout \/ HsDisconnect \/ \E t \in Tasks : HsSpawn(t)

Task(t) == \/ TaskStart(t) \/ QuickRecv(t) \/ QuickStop(t) \/ QuickClear(t) \/ QuickNotify(t)
           \/ KeepRecv(t) \/ KeepEnd(t) \/ KeepClear(t)

Io == \/ IoTop \/ UsbPhone \/ TcpStart \/ AcceptTimeout \/ ConnectMdError
      \/ SessionError \/ MonitorAct \/ Cleanup \/ BroadcastRestart \/ ResetUsb

\* What the phone and the car do when they cooperate.
HandshakePeer == HsDial \/ HsConnect \/ HsParams
SessionPeer   == Accept \/ OpenHu \/ ConnectMd

Failure == \/ HsError \/ OpenHuError \/ LinkError \/ PhoneLeaves \/ PlugOrUnplug
           \/ \E t \in Tasks : QuickParamsError(t)

User == RequestReconnect \/ RequestReboot \/ RequestStop \/ SaveConfig

Next == \/ Main \/ Io \/ MonitorRead \/ RebootSeen \/ RebootNow
        \/ HandshakePeer \/ SessionPeer \/ PhoneReturns
        \/ \E t \in Tasks : Task(t) \/ QuickParams(t)
        \/ Failure \/ User \/ Transfer

Spec == Init /\ [][Next]_vars

\* The runtimes poll every runnable task: each loop, each spawned task and
\* the 100 ms monitor keep stepping when they can.
CodeFairness ==
    /\ WF_vars(Main) /\ WF_vars(Io) /\ WF_vars(MonitorRead)
    /\ WF_vars(RebootSeen) /\ WF_vars(RebootNow)
    /\ \A t \in Tasks : WF_vars(Task(t))

\* The phone comes back and answers what it is asked.
PeerFairness ==
    /\ WF_vars(HandshakePeer) /\ WF_vars(SessionPeer) /\ WF_vars(PhoneReturns)
    /\ \A t \in Tasks : WF_vars(QuickParams(t))

CodeFairSpec == Spec /\ CodeFairness
FairSpec == CodeFairSpec /\ PeerFairness

---------------------------------------------------------------------------
(* Properties.                                                             *)

\* Every variable stays in its domain; the counters respect their bounds.
TypeOK ==
    /\ {config, boot, mcfg, icfg} \subseteq Configs
    /\ action \in Actions /\ mact \in Actions /\ seen \in Actions /\ chan \in Actions
    /\ stale \in BOOLEAN /\ missed \in BOOLEAN /\ gadget \in BOOLEAN
    /\ usb \in BOOLEAN /\ permit \in BOOLEAN /\ profile \in BOOLEAN
    /\ powered \in BOOLEAN /\ phone \in BOOLEAN /\ plugged \in BOOLEAN
    /\ mpc \in MainPc /\ iopc \in IoPc /\ md \in {"none", "tcp", "usb"}
    /\ car \in {"none", "open", "lost"}
    /\ munread \in 0..Lag /\ hsUnread \in 0..Lag
    /\ tpc \in [Tasks -> TaskPc] /\ tunread \in [Tasks -> 0..Lag]
    /\ toff \in [Tasks -> BOOLEAN]
    /\ reboot \in {"idle", "seen", "rebooting"}
    /\ faults \in 0..MaxFaults /\ requests \in 0..MaxRequests

\* profile_connected makes main skip the handshake, so while it is set a task
\* must be alive that will clear it (bluetooth.rs).
Holding == {"q_recv", "q_params", "q_stop", "q_clear", "k_recv", "k_end", "k_clear"}
ProfileHasTask == profile => \E t \in Tasks : tpc[t] \in Holding

\* The two loops never wait for each other: when main waits for a restart
\* and io_loop waits for the phone, the phone is plugged in, or a message, a
\* permit or a task that will produce one is on its way (main.rs, io_uring.rs).
Waking(t) == \/ tpc[t] \in {"q_params", "q_stop", "q_clear", "q_notify"}
             \/ tpc[t] \in {"q_start", "q_recv"} /\ tunread[t] > 0
NoMutualWait ==
    mpc = "wait" /\ munread = 0 /\ iopc = "wait_md" /\ ~permit
        /\ ~(icfg.wired /\ plugged)
        => \E t \in Tasks : Waking(t)

\* io_loop is past tcp_start and has yet to broadcast the restart.
Busy == iopc \in {"accept", "open_hu", "connect_md", "run", "monitor_act",
                  "cleanup", "notify"}

\* Who holds the connection, and what main does about it.
Holder == IF permit THEN "permit"
          ELSE IF Busy THEN "io_loop"
          ELSE IF munread > 0 THEN "restart" ELSE "main"
Phase  == IF mpc \in {"hs_finish", "usb_late", "wait"} THEN "waiting" ELSE "setup"
H == INSTANCE Handover WITH holder <- Holder, phase <- Phase

\* Without quick_reconnect the two loops hand the connection over in turn: no
\* permit, session or restart message exists twice (main.rs, io_uring.rs).
HandsOver == H!Spec

\* A Stop ends the session in which the user asked for it, never a later one.
StopEndsItsOwnSession ==
    [][iopc = "run" /\ iopc' = "monitor_act" /\ action = "Stop" => ~stale]_vars

\* The session the user stopped is still being torn down, its restart message
\* is yet to be received by main, or was sent before main subscribed.
Ending == iopc \in {"run", "monitor_act", "cleanup", "notify"}
StopNotHeard == Ending \/ munread > 0 \/ missed

\* Once the user has stopped the session and main has heard of it, main no
\* longer dials the phone (main.rs, bluetooth.rs).
StopPreventsDialling ==
    [][mpc # "hs_dial" /\ mpc' = "hs_dial" /\ action = "Stop" => StopNotHeard]_vars

\* Automatic reconnection: once failures and requests have run out, the
\* session comes up and stays.
Recovers == <>[](iopc = "run")

\* The last thing users ask for is carried out, whatever was asked for or saved
\* before and is still being worked on: a Reconnect ends the session it finds, or
\* else the next, and a Reboot is left to action_handler by the monitors that read
\* it too. Only the last, since every request and every save overwrites the one
\* before. Exempt is a Reboot that comes while the monitor, which has read a
\* Reconnect, is about to clear what it finds: it is lost (transfer_monitor).
Clearing == iopc = "monitor_act" /\ seen = "Reconnect"
LastRequestServed ==
    /\ requests = MaxRequests /\ action = "Reconnect" ~> action = "none"
    /\ requests = MaxRequests /\ action = "Reboot" /\ ~Clearing
           ~> action = "none" /\ reboot = "rebooting"
=============================================================================
