# Verification of aa-proxy-rs

aa-proxy-rs runs on a small board in a car. It speaks Android Auto with a phone
on one side and with the car's head unit (HU) on the other, relays the packets
of the two, and optionally decrypts, changes, drops and adds some. This
directory holds TLA+ models of the program, configurations with which TLC checks
them, and theorems about them that TLAPS checks.

To check a run: `tlc -config Pipeline.cfg MCPipeline.tla`; a proof:
`tlapm LifecycleProofs.tla`. `PROJECT.json` lists runs, theorems, hazards, the
mutants that show each property can fail, and the source lines each definition
stands for.

## 1. The system

| Component | State it keeps | Operations | Interaction |
|---|---|---|---|
| `main.rs` | its copy of the configuration, a restart receiver | USB gadget, Bluetooth handshake, wait for restart, start over; graceful exit on a signal | restart broadcast (capacity 1), `tcp_start` permit, `tx` |
| `bluetooth.rs` | adapter, `profile_connected`, tasks that outlive a handshake (quick reconnect, keepalive) | dial or wait for a phone, WiFi credential handshake | restart broadcast, `tcp_start`, shared configuration |
| `io_uring.rs` | `tx`, sensor and input channel of the running session, byte counters | wait for the phone, open the car, run the proxies, monitor, tear down | shares mutexes with web and BLE, ends the session of the proxies, broadcasts restart |
| `mitm.rs` | per proxy: TLS session, `ModifyContext`, queues | read packets, version exchange, TLS handshake, relay, rewrite | queue to the other proxy, `action_requested`, media sinks, call bridge |
| `display.rs` | phase, session, acknowledgement counter of each injected sink | plays the car on channels the car does not have; focus poll | called by the proxies; looks at the tap's clients |
| `media_tap.rs` | cached codec configuration, broadcast channel, per client a half-read picture | put fragments together, broadcast, serve clients over TCP | fed by the phone's proxy |
| `bt_sco.rs`, `bt_sco_media_bridge.rs` | generation of the call, two rings, a dozen atomics | accept call audio; START/DATA/STOP on the car's channel; microphone | threads of their own, injects into a proxy's queue |
| `ev.rs` | logger process, command channel | start, stop, battery packet | started by a proxy, stopped by the teardown |
| `web.rs`, `btle.rs` | - | inject packets, request actions, save the configuration, upload certificates | the session's mutexes, the shared configuration and its file |
| `config.rs` | the configuration, two fields of which are not saved | load, save | read by everybody, replaced by web and BLE under one lock |
| `script_wasm.rs`, `wasm_config.rs` | the registry: one engine per file, each with an instance and a mutex | reload on a change of the directory; call hooks; tick the epoch | called by the proxies, the web server and the event bus |
| `vendor_ext.rs` | subscriptions of the phone's application | answers requests of the phone, bridges the event bus, makes REST calls for it | the car-side proxy, the event bus, the web server |
| `sdr_ui.rs`, `usb_gadget.rs`, `button.rs` and others | see `components` in PROJECT.json | | in part, or not worth a model |

What is hard about it:

* **Two loops wake each other.** `main` and `io_loop` run on different
  runtimes. What one sends the other may come too late, twice, or meet another
  configuration than the one it was sent under.
* **Tasks outlive what they were started for**: Bluetooth tasks their
  connection, the bridge thread its session, a handler its session's channel.
* **A session's context is shared** under three mutexes that several parties
  take in different orders.
* **Bounded queues** between two proxies that each empty the other's.
* **Atomics without a lock** between the call's threads.
* **Slow consumers**: a tap client, a full queue, a focus message dropped.
* **Foreign code**: scripts that trap, loop, or are replaced while they run.
* **State in a file** that is written in more than one step, edited by several
  clients, and all that a crash leaves.

## 2. Modules

### Lifecycle, refining Handover

`Lifecycle` is the life of a connection: `main` (`mpc`), `io_loop` (`iopc`), the
tasks `aa_handshake` leaves behind (`tpc`), users' requests and saves, and the
environment (phone lost, car lost, USB plugged). An action is what a loop does
between two awaits that another party can see. The tokio objects are modelled
by what they do: `permit` is the one permit a `Notify` stores; `munread` counts a
broadcast receiver's unread messages, with `Lag` for "more than the capacity".
`mcfg`, `icfg` and `boot` are the copies of the configuration the
loops work with, so that a save in between is seen too late, as in the code.

`Handover` says what the loops promise: the connection is always with exactly
one of main, the permit, io_loop and the restart message.

`missed` is a history variable: the last restart was broadcast before main
subscribed. `StopNotHeard` uses it to say when main cannot know of a Stop yet.

Three delays of the code are modelled as an order of steps; each stands at its
definition. `Reread`: main sleeps a second after a restart, in which io_loop does
the one store it has left after the broadcast; with quick reconnect and the
profile held main does not sleep, and the model has no order there.
`MainReacting`: the parameters a Bluetooth task sends take several round trips
and the phone then joins the network; main, which does not sleep in that case, has passed its
restart through by then. `SpawnPending`: a task that a handshake has spawned is
polled before the phone has connected or the accept has timed out.

### Session

The context of one session, and everybody who reaches into it: the mutexes `tx`,
`sensor_channel` and `input_channel` with their owners, web and BLE requests at
the grain of one lock operation, the queue, the logger task, io_loop's teardown
(three locks taken in order and kept), the signal handler. Sessions are numbered:
a slot, a channel and a queued packet carry the number of their session, so that
"a packet of an old session" is a comparison. A session has two copies of the
configuration: io_loop takes its own before it waits for the phone (`cfg`), the
proxies take theirs when they start (`pcfg`), and a save (`Reload`) may fall between.
The proxy starts the logger by its copy, the teardown stops it by io_loop's; the history
variable `stray` says that they disagreed.

### Pipeline, refining Wire

Two ends, two readers, two proxies, four bounded queues. A proxy has a `plan`,
the steps it must still do (`send` into the other queue, `write` to its end), and
takes a new packet only when the plan is empty: this is the
await of `tx.send` inside the proxy task. Version exchange and TLS handshake are
plans too. `Wire` is the promise for one direction: order, no repetition, and,
without mitm, no loss. Its packets are numbers: the set of those on the way,
and those that arrived with the place at which they did. One session; both
proxies have the same mode. The module is composed with CallBridge in one proof
module, so its specification is called `PipelineSpec`.

### CallBridge

The SCO thread, the proxy that arms the bridge, and the bridge thread, each
load and store of a shared atomic a step (loads no other party can tell apart
are joined). Calls, sessions and epochs are numbered. A packet of the microphone is
moved as in the code: taken from the pending bytes under one lock and pushed to the
ring under another, between which a new call may empty both; `crossing` is a
history variable, the packets that were between the two then.
A START that cannot be sent is ignored by the code and by the model.

### InjectedDisplay

The phases of an injected sink (absent, Idle, SetupSeen, FocusSent, Started,
Streaming), the acknowledgements it fakes, the poll
that compares the generation of connections with the last one seen, and the phone
(external) as the messages of `display.rs` assume it: it counts unacknowledged
messages and streams within its window. `owed` is a history variable: a
notification was dropped at a full queue.

### MediaTap

The phone's messages (external) as parts of numbered pictures, reassembly, the
cached codec configuration, the broadcast channel with its capacity, a client's
task from accept to its end. `log` is a history of all items; a client's
half-read picture is a set of positions in it. The position of a slow client
falls behind by `Capacity`, and only this is lag. A write may fail at any time.

### Scripts

The directory with its files, the notifications about it, the watcher task (`wpc`:
scan, swap, and the destruction of the old list engine by engine), and the callers
of hooks, each with its copy of the list (`todo`). Engines are numbered in the order they
are made; `live` is the guest instance, `closed` the flag that it was destroyed,
`lock` the engine's mutex. A guest returns, traps, loops (`Loops`), or waits for the
program's own web server (`Asks`, in the synchronous `rest_call`). Only `Deadline` ends a
loop, and only in an engine the registry lists; nothing ends the wait in the host but the
answer. An engine makes its script's private directory before it calls on-create
(`Instantiate`), and that notifies the watcher, as the code's does: a script whose first
on-create loops has its own engine replaced, and is then out of the epoch's reach.

### Companion

The vendor channel: requests of the phone's application (external), the event
bus with its two kinds of receivers (the bridge of the session, browsers), the
hooks between, REST calls as tasks that outlive the session. `pipe` is the queue
to the phone with those that wait for room behind its capacity, since tokio's
senders are served in the order they came. Events, calls and sessions are
numbered. The code's events have no mark of what scripts did to them: the model's field
`rewrites` tells the publisher's version (0) from those that scripts put in its place,
and no guard reads it but that of the bound `MaxRewrites`. Every receiver asks the
scripts again about every event, and publishes what they answer as one more
event. `replaced` is a history variable: the events whose publisher's own scripts had
already put something else in their place.

### Settings

The configuration in memory, its file, and the lock: the form (replacement of
everything), a single entry (the file is edited, then loaded), each await inside
the lock a step; `fs::write` is two, truncate and fill, and may fail at each: the form's
save ignores that and keeps the new memory (`SaveFails`), the entry's answers with an error
and keeps the old (`WriteEntryFails`). A client may leave in
between, and then the lock is released while the write goes on (`orphan`). `adrift` is
a history variable: a write failed or was forsaken and none was completed since. A
crash may come at any step, and a file that does not parse keeps the program
from starting. Readers are the two proxies (`mode`), the monitor and the action
handler; certificates pass through one directory. A handshake ends with a mark
(`TlsFails`) or, when the peer leaves without a word, without one (`SessionFails`). A
reconnect and a reboot are cleared by who carries them out, a stop (`UserStops`) by
nobody. Two options stand for all:
`mitm`, which is always written, and `alias`, optional.

## 3. Runs

| Run | Bounds | Shows |
|---|---|---|
| LifecycleWireless | 2 tasks, 1 fault, 2 requests; USB order and keepalive vary | implements `Handover`; no mutual wait; `profile_connected` always has a task to clear it; the session comes back; the last request is carried out |
| LifecycleVaried | wired, wireless and direct TCP, `quick_reconnect`, `stop_on_disconnect`, switched by saves | no dialling after a Stop that main could hear of |
| LifecycleStopStale (violation) | 1 request | a Stop outlives its session and ends the next |
| Session | 2 clients, 2 sessions, 2 requests, 1 fault, queue 1; saves at any time | no packet injected under its guards carries another session's channel; the logger ends with its session, unless the two copies of the configuration disagree; the exit waits for the teardown |
| SessionLockOrder (violation) | 1 session, 1 request | handler and teardown lock each other out |
| Pipeline | 5 packets per end, 1 injected, queue 1 | each direction is a wire; packets move unless the proxies block each other, which the monitor ends |
| CallBridge | 2 calls, 2 sessions, ring 2, uplink 1; four configurations: microphone only, media only, paced, and paced with a jitter buffer beyond the ring | START, CONFIG, DATA and STOP in order; audio in its own call; the stream ends, audio starts, the microphone follows the call |
| InjectedDisplay | 2 clients, 2 connections, 2 frames, queue 2 | acknowledgements match the stream; clients get key frames; a stream nobody watches stops |
| MediaTap | 1 client, 4 pictures of up to 2 messages, 2 sessions, channel 2 | what is shown comes in order, with its stream's configuration or a later one; whole, but for the picture a client begins with; every key picture |
| Scripts | 2 files, 2 callers, 8 engines, 1 edit, 2 calls; every hook may loop or wait in `rest_call` | no instance of a destroyed engine; the registry catches up with the directory; calls and reloads end, unless they wait for a guest nobody can interrupt |
| Companion | 1 topic, 1 browser, 2 sessions, 2 events, 1 call of 2 chunks, 5 inputs, queue and bus 1, 1 rewrite in a row | what the phone gets belongs to its session and comes in order; the publisher's version of an event at most once, and not besides its replacement; some version of each is heard |
| Settings | 1 browser, 1 phone, 2 options, 2 certificates, 3 inputs, 1 crash; any write may fail | memory and file agree; an entry undoes no other; no reconnect or reboot twice; sessions come up |

Why the bounds are enough. Each hazard needs at most: two sessions (one that leaves something
behind, one that finds it), two clients or tasks (two that meet), one fault, and
a queue that is full with the fewest packets. In Pipeline five packets fill every place in a
direction (reader, two queues of one, two hands) so both proxies do block each other. Two
calls show a frame of the first in the second. In MediaTap four pictures of two
parts overflow a channel of two several times; clients do not influence
each other, so there is one. In Scripts a caller with an old copy of the list, one
that waits for the mutex, and a reload that meets another change are all within one
edit and two calls, since the directories that guests make are changes too; with two files
a call and a reload go on from one engine to the next, so that a script can hold up
another. In Lifecycle a second request overwrites the first, meets the first at work, or
falls between the monitor's read and its clear. In Companion a queue of one makes every
sender wait. In Settings two clients with three inputs between them load, save, edit, leave and meet; the proofs
remove the bounds for all but SessionsComeUp. SessionsComeUp is checked with the file
and its crash, as the mark of a failed set-up is not saved.

What the properties exempt, because the code behaves otherwise there:

* `Recovers` is checked without `bt_poweroff`: with it and the keepalive the
  adapter may be powered off after main has powered it on, if disconnecting takes longer
  than the second main sleeps. `NoMutualWait` is checked for wireless options:
  a wired phone that is found, fails to open and is unplugged leaves both
  loops waiting (io_uring.rs:668).
* `StopPreventsDialling` exempts a Stop that main has not heard of: one whose
  restart message main has not read yet, or that was broadcast before main
  subscribed. Both happen in a wired session, which comes up without main: the
  Stop may fall between main's reading the configuration and its handshake, or
  into the set-up of the adapter, and main then dials once.
* `PacketsMove` exempts a session with an injected packet: one that comes before
  the car's version request is taken for it.
* `LastRequestServed` speaks of the last request only: any request and any save
  overwrites `action_requested`, which is one field (web.rs:1737, and serde skips it), so an
  earlier one may be lost. It also exempts a Reboot that falls between the monitor's
  reading a Reconnect and its clearing the field, under two locks: that Reboot is cleared unread.
* `OwnChannel` is about the handlers that keep their guards while they send: those of
  sensor and input packets. A key event copies channel and sender, releases the locks
  and then sends: it may carry the channel of another session.
* `LoggerEndsWithSession` exempts a logger that a proxy started by its copy of the
  configuration while io_loop's older one had none (mitm.rs:2495 against io_uring.rs:547,
  894): `ev_battery_logger` saved while io_loop waits for the phone leaves a logger
  running past its session, which config.json:512 says ends with it.
* `AudioOfCall` exempts the first frame of a call, and the microphone's packet that was between
  the pending bytes and the ring when a new call emptied both (bt_sco.rs:636-643 against
  737-748). `AudioFlows` exempts a jitter buffer of more frames than the ring holds: no code
  compares the two settings, and the call then stays mute. `MediaStops` and `MicFollows`
  speak of what the bridge knows it has begun: arming (`init_or_update`, then the channel, then
  the microphone) forgets what the bridge thread did in between.
* `KeyFrameForClient` speaks of clients the proxy can notice in time: one that
  connects between the phone's START and the proxy's reading it waits for the
  next key frame. `StreamReleased` begins where the proxy sees the last client gone, so a
  SETUP that comes while the focus is already projected is outside it.
* `DataAcked` is for phones that do not ask for focus in mid-stream
  (`AsksStreaming = FALSE`): such a request puts the sink back to a phase in
  which media is not acknowledged.
* `Whole` exempts the picture a client begins with, after connecting or after lag: it may
  be cut. `InOrder` admits a configuration later than the picture's own: the last key picture of
  a session is complete only when the next one's first begins, and is written with the
  configuration cached then (media_tap.rs:92-96, 485-556). That it decodes is not promised.
* `KeyFrameForClient` and `StreamReleased` exempt a notification that found the
  queue full. The log announces a retry, but the connection is already recorded
  as seen (display.rs:433), so none comes.
* `ExitAfterTeardown` speaks of configurations that store the sender (mitm and
  ev): without them the wait at main.rs:225 is over before it began.
* `CallsEnd` and `ReloadsEnd` exempt who waits for ever for a guest out of the epoch's
  reach (`Unreachable`): one that loops in an engine the registry does not list any more
  (on-destroy always is there, script_wasm.rs:93), and one that waits in `rest_call`, which
  blocks in the host (vendor_ext.rs:849-857). Such a guest holds its engine's mutex
  and, in on-destroy, the watcher: no further change is served.
* `RegistryFollowsFiles` exempts changes before the directory is watched.
* `HeardOnce` counts the publisher's version. Every receiver gives every event to the
  scripts, and each may publish a replacement (vendor_ext.rs:406-412, web.rs:1800-1806): with two
  receivers a replacement is published twice. `HeardInTheEnd` asks for some version, and rests on
  scripts that stop: one that rewrites its own output does so without end, as nothing in the
  code marks it. `MaxRewrites` is that demand on the scripts.
* Companion makes no synchronous REST call that injects a packet: with
  `SyncRoutes = {"inject"}` the call blocks the thread that would empty the queue
  the handler waits for (vendor_ext.rs:693), and `HeardInTheEnd` fails.
* `FileAgrees` exempts cleared optional settings, which the file keeps
  (config.rs:826), a file that does not parse, and, with `EntryKeepsOthers`, the
  time after a write failed or a client left in the middle of one, until the next is
  completed (`adrift`; config.rs:940 ignores the result of the write). That a crash in the middle
  of a write loses all settings agrees with it: what is loaded is what is there.
* `ServedOnce` does not count a stop: nobody clears it, and it ends every session until a
  save or another request overwrites it (run LifecycleStopStale).
* `SessionsComeUp` exempts a program that cannot start for its file, a stop that is pending,
  and peers that leave one handshake after another without an alert: a car or phone that
  refuses the certificate by closing or by silence sets no mark (mitm.rs:2577, 2616, 2685,
  2689), and the next session tries the same again.

Fairness. Tasks of the program are scheduled (weak fairness per task or loop).
Lifecycle adds, for `Recovers` only, that phone and car answer and come back; both
kinds of fairness are separate (`CodeFairness`, `PeerFairness`). In Session handlers, io_loop, proxies,
logger and exit are separate tasks, each fair: a deadlock among them is not
excused by scheduling. In Pipeline the select of a proxy is random, and being
fair to the task alone says nothing about which branch it takes: `PacketsMove`
holds because what is sent is bounded. `BlockEnds` states the monitor's fairness itself.
CallBridge: the three threads run, the start time-out elapses and a call that
lasts has audible audio some time. InjectedDisplay: proxy, 100 ms poll and a
phone that answers. MediaTap: a client's task runs, but a client may be as slow as it
likes between two steps, which is how it falls behind; the
property then says nothing. Scripts: watcher, callers and the ticker run; a
guest owes nothing, nor is an answer to `rest_call`. Companion: every
task runs and the phone reads what it is sent; the phone and browsers need not send anything. Settings: the program's tasks run, clients and
crashes need not come.

Disagreements found between the code and its own words are under `findings`: each has a
violation run and quotes the line.

## 4. Proofs

The theorems of the eight `...Proofs` modules (TrafficProofs is that of Pipeline and of
CallBridge) hold for all values of the constants,
under the assumptions the modules state of them (bounds are naturals, configurations
are records of the options, owners of a lock are distinct).

* `TypeCorrect` (Lifecycle, Session, Settings).
* `ProfileHeld`: `profile_connected` never stays set without a task to clear it.
  Only steps of tasks matter (`TaskFrame`).
* `LoopsHandOver`: without quick_reconnect `Spec => H!Spec`. The step is shown from
  `TokenInv`: exactly one of permit, busy io_loop, unread message and main
  holds the connection (`Token`), and no task restarts anything (`NoQuickTasks`). Without
  it an Offer while io_loop is still busy would map to no step of Handover.
* `StoppedStaysStopped`: `StopPreventsDialling`. Main decides by a copy of the
  request, made a restart earlier. `CopyInv` says how old it may be: while a Stop is
  stored that main's copy does not have, either main is about to read it again, or
  the Stop is one main has not heard of.
* `LoopsNeverStuck`: over Bluetooth and Wi-Fi the loops never wait for
  each other, if quick_reconnect and the keepalive are not both in use.
  `NoMutualWait` is not inductive: `WaitInv` adds that whoever waits for a restart
  has its message or an attempt under way (`MainHears`, `TaskAnswered`,
  `HandshakeAnswered`), and that a message a handshake hears main hears too
  (`HandshakeHears`).
* `ChannelsAreOwn`: `OwnChannel`. Inductive with `IInv`: the control point of
  io_loop fixes what the slots hold (`StageInv`), and a handler past a lock owns it and
  holds the slot's content (`GuardInv`).
* `ExitsAfterTeardown`: from the same `IInv`.
* `LoggerStops`: `LoggerEndsWithSession`, from `LoggerInv`: what is queued leaves the
  logger stopped (`Settled`), except in a session whose teardown is still to queue the
  stop, or after a start by a copy that io_loop's disagrees with (`stray`). The
  property itself says nothing of commands under way.
* `PacketsKeepOrder`: `Carries`, the refinement of `Wire` by both directions.
  `ProxyInv` says what a plan may be (`PlanInv`), that a hand holds only what its
  plan still sends or writes (`HandInv`) and whose packets a queue holds
  (`QueueInv`); `OrderInv`, that numbers increase along the five parts of the way, and
  that all of them have been read. A step of the program is then one of the wire, or moves
  a packet from one part of the way to the next and is none.
* `BlockLasts`: once both proxies wait for each other's queue, every step leaves
  them, their queues and the byte counters as they are. The monitor's second check,
  which compares the counters, finds the block; nothing but it or a failure ends it.
* `DataComesInOrder`: `DataInOrder`. The bridge thread tests readiness long before it
  sends, and never hears of a session's end. `EpochInv` and `ReadyInv` tie the CONFIG it
  saw to the session by the number of its arming; `PlayInv` says that the car plays the call
  the bridge believes started, except while it is about to forget it.
* `AudioStaysInItsCall`: `AudioOfCall`, from `CallInv` (the call that is started is never
  younger than the one whose frame is carried) and `MicInv` (what waits for the uplink,
  also between the two locks of the push, is the call's own or `crossing`).
* `NoAckTooMany`: `AcksAreOwed`. What the proxy has counted and what lies unread in its
  queue is no more than the phone has sent (`CountInv`); while the start of another stream
  is unread, the proxy's session is an older one (`SessionInv`), so that its
  acknowledgements do not count.
* `ShowsInOrder`, `ShowsWhole`: `InOrder` and `Whole`, from one invariant in two
  parts. `LogInv` says what is broadcast: pictures in order, each non-key picture right after the
  one before it, configurations no younger than the cached one. `ClientInv` says what
  a client holds: a piece of one picture with nothing but configurations read since
  (`PlaceInv`), the piece after the last one shown once it is synchronised (`SyncInv`),
  and, when it is about to write, all of the picture (`ShowInv`).
* `MemoryIsFile`: `FileAgrees`. It says nothing of the time the lock is held, so
  `FileInv` adds what a request has in its hands: the text to write is the
  memory's (`WriteInv`), the text edited is the last one but for the entry (`EditInv`), the
  file is the last text unless it is being written (`LastInv`), and only the writes of
  clients that left happen without the lock (`OrphansAdrift`). A failed write sets `adrift`,
  which only a completed one ends.
* `EntryIsLocal`: `EntryKeepsOthers`, a step property, from `EditInv`.
* `NoneOutlivesItsEngine`: `NoOrphan`. A caller that entered an engine before the
  reload may create an instance after the engine left the list. `GuestInv` says that whoever
  runs a guest holds its mutex and that the watcher has not come to the engine yet;
  `DestroyInv` that the watcher takes the mutex to take the instance, and closes the engine
  first; `StaleInv` that an engine on somebody's list the watcher is done
  with is closed, so that no new instance is made. `ListInv` keeps the lists of the watcher apart.
* `RegistryFollows`: `RegistryFollowsFiles`, from `FollowInv`: unless the watcher has a
  notification to read or is about to scan, the list it is about to put in place is that of the
  directory, or the list in place is. The lemma for its scan shows that numbering the
  loadable files one by one gives each file one engine.
* `SessionsApart`: `OwnSession`, from `PipeInv`, `EndInv`, and from `SyncInv`: the
  session cannot end under a synchronous call, so its late reply goes to its own
  session.
* `NumbersComeFirst`: `ResultsAreKnown`. The task is spawned before the reply is
  queued; `TaskInv` says that one that may still send has its number known or in
  the queue, `OrderInv` that every queued result is behind that number.
* `EventsOnce`: `HeardOnce`. The publisher's version of an event is, for each
  client, in one place at most (receiver, hand, queue or heard), and in none
  before it is published (`OnceInv`). `PendingInv` says that an event still with its
  publisher is with one publisher, `UsedInv` which numbers are taken, `ReplacedInv` that
  no copy of the publisher's version exists of an event its own scripts have replaced.
* `QuietAfterUnsubscribing`: `QuietUnsubscribed`. The property compares the queue with
  the topics the phone wants when it reads. `QuietInv` gives every place of the queue the
  topics as they were when it was filled, ending in those of the session now; each
  place changes them as its message says, and an event stands where its topic is wanted.
* `OwedIsOnItsWay`: `NoneForgotten`, the safety side of HeardInTheEnd. What a client is
  owed is in its receiver, with the scripts, or in the queue to the phone. `OwedInv` adds
  that only topics the client has now are owed, since a receiver drops what it
  takes of other topics. What is left to liveness is that each of these places is emptied.
* `NotServedAgain`: `ServedOnce` (of reconnect and reboot), from the count that includes the request which is
  pending or about to be cleared (`ServedInv`).

Every safety property of a passing run is stated by a theorem (`HandsOver` and
`NoMutualWait` under the conditions named above). Only model-checked is liveness, which
the proof system does not reach: Recovers, LastRequestServed, PacketsMove,
BlockEnds, MediaStops, MicFollows, AudioFlows, DataAcked, KeyFrameForClient,
StreamReleased, ShowsKeys, CallsEnd, ReloadsEnd, HeardInTheEnd and SessionsComeUp.
The two violation runs are counterexamples and have nothing to prove.

## 5. Not modelled

MPEG-TS and audio headers, the bytes of packets and messages, TLS and
Bluetooth themselves, logging, HTML, the wasm runtime, echo cancellation, LEDs,
generated protocol code: data or formatting. The profile file of `sdr_ui.rs` is
read, changed and written without a lock: updates do get lost there, and there is no
promise to check. Crash handler and Bluetooth helper are input and output only.

## 6. Plan

Modules, in order of importance:

1. `Reader`: read_input_data and packet framing (short reads, header and payload
   in pieces, the extra length of first fragments) against a reference definition.
2. `Discovery`: the rewriting of service discovery, in what order channels are
   recorded for sensors, input, media and bridge, on which Session, CallBridge and
   InjectedDisplay rely.
3. `Gadget`: uevent notification and its stored permit, enable and disable.
4. Small state machines: button, known devices, key events.

Theorems to prove next, the safety side of what is only model-checked: a media message not
yet acknowledged is unread, or its acknowledgement is on its way (DataAcked); a loop
that waits has a wake-up coming (Recovers with quick_reconnect, beyond LoopsNeverStuck).
