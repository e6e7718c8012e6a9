----------------------------- MODULE CallBridge -----------------------------
(***************************************************************************)
(* The bridge of phone calls into Android Auto: three threads that share   *)
(* atomics and two rings (bt_sco.rs, bt_sco_media_bridge.rs).              *)
(*                                                                         *)
(*   - the SCO thread accepts the phone's call audio, numbers the calls    *)
(*     (SCO_GENERATION) and moves packets between the socket and the rings;*)
(*   - the proxy task of a session arms the bridge when it sees the car's  *)
(*     service discovery response, and passes on the car's media CONFIG    *)
(*     and microphone DATA;                                                *)
(*   - the bridge thread, bridge_loop, turns downlink frames into START,   *)
(*     DATA and STOP on the car's audio channel and asks for its           *)
(*     microphone. It outlives sessions and calls.                         *)
(*                                                                         *)
(* Every action of the bridge thread reads or writes one of the shared     *)
(* variables, or several that no other thread can tell apart. Calls,       *)
(* sessions and epochs are numbered from 1; 0 is none.                     *)
(***************************************************************************)
EXTENDS Naturals, Sequences, FiniteSetsExt

CONSTANTS
    Configs,        \* the configurations the program may run with
    Channels,       \* audio and microphone channels a car may announce
    RingCapacity,   \* bt_sco_media_bridge_ring_capacity
    UplinkCapacity, \* bt_sco_mic_uplink_ring_capacity
    MaxCalls, MaxSessions \* bounds

\* start, stop, firstAudio: the options start_existing,
\* stop_existing_on_disconnect and start_on_first_audio. needed: the frames a
\* fixed cadence waits for before its first DATA, 0 without one; it may be more
\* than the ring holds. The audio channel has 16 bits: frames for another are dropped.
ConfigType == [media : BOOLEAN, mic : BOOLEAN, start : BOOLEAN, stop : BOOLEAN,
               firstAudio : BOOLEAN, needed : Nat]

ASSUME ChannelsAssumption == Channels \subseteq Nat \ {0}
ASSUME CapacityAssumption == RingCapacity \in Nat \ {0} /\ UplinkCapacity \in Nat \ {0}
ASSUME ConfigsAssumption == Configs \subseteq ConfigType
ASSUME BoundsAssumption == MaxCalls \in Nat /\ MaxSessions \in Nat

VARIABLES
    cfg,      \* the configuration
    sco,      \* the SCO thread: control point, SCO_GENERATION, SCO_CONNECTED
    ring,     \* AA_PCM_RING: frames of call audio on the way to the car
    uplink,   \* SCO_UPLINK_RING: for each packet the call in which it came
    samples,  \* the samples on the way there, each as the call in which they came:
              \* taken, of the car's packet the proxy is moving; pending, in
              \* SCO_UPLINK_PENDING; packet, drained from there
    crossing, \* history: the calls of what was on the way when this one began
    aa,       \* the sessions: control point, the last and the live session
    tx,       \* Runtime.tx: the session whose queue it leads to
    target,   \* target_channel
    epoch,    \* target_epoch
    config,   \* config_channel and config_epoch
    mic,      \* mic_channel, mic_open_sco_generation, mic_open
    pc,       \* control point of the bridge thread
    look,     \* what it has loaded: channels, connected, calls, epoch
    media,    \* its state of the downlink: the epoch it serves, the call it
              \* has started and the one pending, late: the start timeout has
              \* passed, flowing: DATA was sent
    frame,    \* the frame it carries
    hu,       \* what the car was told in this session: playing, the call
              \* START was sent for; mic, whether its microphone is open
    mine      \* the epoch the live session has armed

mouth == <<uplink, samples, crossing>>
calls == <<sco, ring, mouth>>
armed == <<aa, tx, target, epoch, config, mine>>
thread == <<pc, look, media, frame>>
vars == <<cfg, calls, armed, mic, thread, hu>>

NoSamples == [taken |-> <<>>, pending |-> <<>>, packet |-> <<>>]
NoFrame == [call |-> 0, loud |-> FALSE]
Silent == [playing |-> 0, mic |-> FALSE]
NoMedia == [epoch |-> 0, started |-> 0, pending |-> 0, late |-> FALSE, flowing |-> FALSE]

Init ==
    /\ cfg \in Configs
    /\ sco = [pc |-> "idle", call |-> 0, connected |-> FALSE]
    /\ ring = <<>> /\ uplink = <<>> /\ samples = NoSamples /\ crossing = {}
    /\ aa = [pc |-> "idle", session |-> 0, live |-> 0]
    /\ tx = 0 /\ target = 0 /\ epoch = 0 /\ mine = 0
    /\ config = [channel |-> 0, epoch |-> 0]
    /\ mic = [channel |-> 0, openCall |-> 0, open |-> FALSE]
    /\ pc = "unborn"
    /\ look = [mic |-> 0, on |-> FALSE, channel |-> 0, call |-> 0, epoch |-> 0]
    /\ media = NoMedia
    /\ frame = NoFrame
    /\ hu = Silent

\* A ring that is full loses its oldest element.
Push(q, e, capacity) == Append(IF Len(q) >= capacity THEN Tail(q) ELSE q, e)

-----------------------------------------------------------------------------
(* The SCO thread. *)

\* clear_sco_uplink_queue empties the ring and then, under another lock, what is
\* pending.
ClearPending == samples' = [samples EXCEPT !.pending = <<>>]

\* A call begins: its number first, then the rings are emptied around the store
\* to SCO_CONNECTED.
Accept ==
    /\ sco.pc = "idle" /\ sco.call < MaxCalls
    /\ sco' = [sco EXCEPT !.pc = "counted", !.call = @ + 1]
    /\ UNCHANGED <<ring, mouth>>

AcceptClear ==
    /\ sco.pc = "counted"
    /\ sco' = [sco EXCEPT !.pc = "cleared"]
    /\ ring' = <<>>
    /\ UNCHANGED mouth

AcceptConnect ==
    /\ sco.pc = "cleared"
    /\ sco' = [sco EXCEPT !.pc = "connected", !.connected = TRUE]
    /\ UNCHANGED <<ring, mouth>>

\* Mutant: the uplink is left as it is.
AcceptKeepUplink ==
    /\ sco.pc = "connected"
    /\ sco' = [sco EXCEPT !.pc = "emptied"]
    /\ UNCHANGED <<ring, mouth>>

AcceptClearUplink ==
    /\ sco.pc = "connected"
    /\ sco' = [sco EXCEPT !.pc = "emptied"]
    /\ uplink' = <<>>
    /\ crossing' = Range(samples.taken) \cup Range(samples.pending) \cup Range(samples.packet)
    /\ UNCHANGED <<ring, samples>>

AcceptClearPending ==
    /\ sco.pc = "emptied"
    /\ sco' = [sco EXCEPT !.pc = "reading"]
    /\ ClearPending
    /\ UNCHANGED <<ring, uplink, crossing>>

\* One packet of the phone: it may complete a frame for the car, and is answered
\* with a microphone packet or with silence.
ScoPacket(complete, loud) ==
    /\ sco.pc = "reading"
    /\ ring' = IF cfg.media /\ complete
               THEN Push(ring, [call |-> sco.call, loud |-> loud], RingCapacity)
               ELSE ring
    /\ uplink' = IF cfg.mic /\ uplink # <<>> THEN Tail(uplink) ELSE uplink
    /\ UNCHANGED <<sco, samples, crossing>>

Hangup ==
    /\ sco.pc = "reading"
    /\ sco' = [sco EXCEPT !.pc = "hung", !.connected = FALSE]
    /\ crossing' = {}
    /\ UNCHANGED <<ring, uplink, samples>>

HangupClear ==
    /\ sco.pc = "hung"
    /\ sco' = [sco EXCEPT !.pc = "dropped"]
    /\ ring' = <<>> /\ uplink' = <<>>
    /\ UNCHANGED <<samples, crossing>>

HangupClearPending ==
    /\ sco.pc = "dropped"
    /\ sco' = [sco EXCEPT !.pc = "idle"]
    /\ ClearPending
    /\ UNCHANGED <<ring, uplink, crossing>>

ScoStep == /\ \/ AcceptClear \/ AcceptConnect \/ AcceptClearUplink \/ AcceptClearPending
              \/ HangupClear \/ HangupClearPending
           /\ UNCHANGED <<cfg, armed, mic, thread, hu>>
ScoAccept == Accept /\ UNCHANGED <<cfg, armed, mic, thread, hu>>
ScoHangup == Hangup /\ UNCHANGED <<cfg, armed, mic, thread, hu>>
ScoAudio(complete, loud) == ScoPacket(complete, loud) /\ UNCHANGED <<cfg, armed, mic, thread, hu>>

-----------------------------------------------------------------------------
(* Sessions. The stores of one arming run without an await: the session      *)
(* cannot end between them, the bridge thread can run between any two.       *)

\* A session takes seconds to begin, the bridge thread microseconds to record
\* the request it has just sent.
Recorded == pc \notin {"opened", "clear", "closed", "drop"}

BeginSession ==
    /\ aa.live = 0 /\ aa.session < MaxSessions /\ Recorded
    /\ aa' = [pc |-> "linked", session |-> aa.session + 1, live |-> aa.session + 1]
    /\ UNCHANGED <<cfg, calls, tx, target, epoch, config, mine, mic, thread, hu>>

EndSession ==
    /\ aa.pc \in {"linked", "armed"}
    /\ aa' = [aa EXCEPT !.pc = "idle", !.live = 0]
    /\ hu' = Silent /\ mine' = 0
    /\ UNCHANGED <<cfg, calls, tx, target, epoch, config, mic, thread>>

\* init_or_update, of the media or the microphone bridge, whichever comes first.
ArmTx ==
    /\ aa.pc = "linked" /\ (cfg.media \/ cfg.mic)
    /\ tx' = aa.live
    /\ pc' = IF pc = "unborn" THEN "top" ELSE pc
    /\ aa' = [aa EXCEPT !.pc = IF cfg.media THEN "channel" ELSE "mic"]
    /\ UNCHANGED <<cfg, calls, target, epoch, config, mine, mic, look, media, frame, hu>>

ArmChannel ==
    /\ aa.pc = "channel"
    /\ \E c \in Channels : target' = c
    /\ aa' = [aa EXCEPT !.pc = "epoch"]
    /\ UNCHANGED <<cfg, calls, tx, epoch, config, mine, mic, thread, hu>>

ArmEpoch ==
    /\ aa.pc = "epoch"
    /\ epoch' = epoch + 1 /\ mine' = epoch + 1
    /\ aa' = [aa EXCEPT !.pc = "config"]
    /\ UNCHANGED <<cfg, calls, tx, target, config, mic, thread, hu>>

ArmConfig ==
    /\ aa.pc = "config"
    /\ config' = [channel |-> 0, epoch |-> 0]
    /\ aa' = [aa EXCEPT !.pc = IF cfg.mic THEN "mic" ELSE "armed"]
    /\ UNCHANGED <<cfg, calls, tx, target, epoch, mine, mic, thread, hu>>

ArmMic ==
    /\ aa.pc = "mic"
    /\ \E c \in Channels : mic' = [mic EXCEPT !.channel = c]
    /\ aa' = [aa EXCEPT !.pc = "micCall"]
    /\ UNCHANGED <<cfg, calls, tx, target, epoch, config, mine, thread, hu>>

ArmMicCall ==
    /\ aa.pc = "micCall"
    /\ mic' = [mic EXCEPT !.openCall = 0]
    /\ aa' = [aa EXCEPT !.pc = "micOpen"]
    /\ UNCHANGED <<cfg, calls, tx, target, epoch, config, mine, thread, hu>>

ArmMicOpen ==
    /\ aa.pc = "micOpen"
    /\ mic' = [mic EXCEPT !.open = FALSE]
    /\ uplink' = <<>> /\ ClearPending
    /\ aa' = [aa EXCEPT !.pc = "armed"]
    /\ UNCHANGED <<cfg, sco, ring, crossing, tx, target, epoch, config, mine, thread, hu>>

Arm == ArmTx \/ ArmChannel \/ ArmEpoch \/ ArmConfig \/ ArmMic \/ ArmMicCall \/ ArmMicOpen

\* The car answers the phone's setup of the audio channel: notify_media_config.
MediaConfig ==
    /\ aa.pc = "armed" /\ cfg.media
    /\ config' = [channel |-> target, epoch |-> epoch]
    /\ UNCHANGED <<cfg, calls, aa, tx, target, epoch, mine, mic, thread, hu>>

\* The car sends a microphone packet: push_sco_uplink_pcm_from_aa_mic, which the
\* proxy runs to its end without an await.
MicData ==
    /\ aa.pc = "armed" /\ cfg.mic
    /\ samples' = [samples EXCEPT !.taken = <<sco.call>>]
    /\ aa' = [aa EXCEPT !.pc = "moving"]
    /\ UNCHANGED <<cfg, sco, ring, uplink, crossing, tx, target, epoch, config, mine, mic,
                   thread, hu>>

\* The samples join those that are pending, until a packet is complete ...
Mixed == IF samples.pending = <<>> THEN samples.taken ELSE samples.pending
MicDrain ==
    /\ aa.pc = "moving"
    /\ samples' = [samples EXCEPT !.pending = <<>>, !.packet = Mixed]
    /\ aa' = [aa EXCEPT !.pc = "pushing"]
    /\ UNCHANGED <<cfg, sco, ring, uplink, crossing, tx, target, epoch, config, mine, mic,
                   thread, hu>>

\* ... which is pushed under another lock; and so on with the rest ...
MicPush ==
    /\ aa.pc = "pushing"
    /\ uplink' = Push(uplink, samples.packet[1], UplinkCapacity)
    /\ samples' = [samples EXCEPT !.packet = <<>>]
    /\ aa' = [aa EXCEPT !.pc = "moving"]
    /\ UNCHANGED <<cfg, sco, ring, crossing, tx, target, epoch, config, mine, mic, thread, hu>>

\* ... until none is left, or less than a packet.
MicMoved ==
    /\ aa.pc = "moving"
    /\ \E rest \in {samples.pending, Mixed} :
          samples' = [samples EXCEPT !.taken = <<>>, !.pending = rest]
    /\ aa' = [aa EXCEPT !.pc = "armed"]
    /\ UNCHANGED <<cfg, sco, ring, uplink, crossing, tx, target, epoch, config, mine, mic,
                   thread, hu>>

-----------------------------------------------------------------------------
(* The bridge thread: bridge_loop.                                           *)

Shared == <<cfg, sco, armed>>

\* blocking_send returns once there is room; it fails when the session that tx
\* leads to has ended.
Sends == tx # 0 /\ tx = aa.live

\* handle_microphone_request_state.
LoadMic ==
    /\ pc = "top"
    /\ look' = [look EXCEPT !.mic = mic.channel, !.on = sco.connected]
    /\ pc' = IF mic.channel = 0 THEN "channel" ELSE "mic"
    /\ UNCHANGED <<Shared, ring, mouth, mic, media, frame, hu>>

DecideMic ==
    /\ pc = "mic"
    /\ look' = [look EXCEPT !.call = sco.call]
    /\ pc' = IF look.on /\ sco.call \notin {0, mic.openCall} THEN "open"
             ELSE IF look.on THEN "channel" ELSE "forget"
    /\ UNCHANGED <<Shared, ring, mouth, mic, media, frame, hu>>

OpenMic ==
    /\ pc = "open"
    /\ pc' = IF Sends THEN "opened" ELSE "channel"
    /\ hu' = IF Sends THEN [hu EXCEPT !.mic = TRUE] ELSE hu
    /\ UNCHANGED <<Shared, ring, mouth, mic, look, media, frame>>

MicOpened ==
    /\ pc = "opened"
    /\ mic' = [mic EXCEPT !.openCall = look.call]
    /\ pc' = "clear"
    /\ UNCHANGED <<Shared, ring, mouth, look, media, frame, hu>>

MicIsOpen ==
    /\ pc = "clear"
    /\ mic' = [mic EXCEPT !.open = TRUE]
    /\ uplink' = <<>>
    /\ pc' = "drop"
    /\ UNCHANGED <<Shared, ring, samples, crossing, look, media, frame, hu>>

\* Mutant: mic_open is read after it was cleared.
ForgetMicFirst ==
    /\ pc = "forget"
    /\ mic' = [mic EXCEPT !.open = FALSE]
    /\ pc' = "channel"
    /\ UNCHANGED <<Shared, ring, mouth, look, media, frame, hu>>

\* mic_open.swap(false): only what was opened is closed.
ForgetMic ==
    /\ pc = "forget"
    /\ mic' = [mic EXCEPT !.open = FALSE]
    /\ pc' = IF mic.open THEN "close" ELSE "channel"
    /\ UNCHANGED <<Shared, ring, mouth, look, media, frame, hu>>

CloseMic ==
    /\ pc = "close"
    /\ hu' = IF Sends THEN [hu EXCEPT !.mic = FALSE] ELSE hu
    /\ pc' = "closed"
    /\ UNCHANGED <<Shared, ring, mouth, mic, look, media, frame>>

MicClosed ==
    /\ pc = "closed"
    /\ mic' = [mic EXCEPT !.openCall = 0]
    /\ uplink' = <<>>
    /\ pc' = "drop"
    /\ UNCHANGED <<Shared, ring, samples, crossing, look, media, frame, hu>>

DropPending ==
    /\ pc = "drop" /\ ClearPending
    /\ pc' = "channel"
    /\ UNCHANGED <<Shared, ring, uplink, crossing, mic, look, media, frame, hu>>

\* Without an armed channel the frames are thrown away.
LoadChannel ==
    /\ pc = "channel"
    /\ look' = [look EXCEPT !.channel = target]
    /\ IF target = 0
       THEN pc' = "top" /\ ring' = <<>>
       ELSE pc' = "epoch" /\ UNCHANGED ring
    /\ UNCHANGED <<Shared, mouth, mic, media, frame, hu>>

\* A new epoch starts from nothing.
LoadEpoch ==
    /\ pc = "epoch"
    /\ look' = [look EXCEPT !.epoch = epoch]
    /\ media' = IF epoch # media.epoch THEN [NoMedia EXCEPT !.epoch = epoch] ELSE media
    /\ pc' = "ready"
    /\ UNCHANGED <<Shared, ring, mouth, mic, frame, hu>>

\* Mutant: the channel alone identifies the CONFIG.
ReadyByChannel ==
    /\ pc = "ready"
    /\ IF config.channel = look.channel
       THEN pc' = "connected" /\ UNCHANGED ring
       ELSE pc' = "top" /\ ring' = IF ring = <<>> THEN ring ELSE Tail(ring)
    /\ UNCHANGED <<Shared, mouth, mic, look, media, frame, hu>>

\* Until the CONFIG of this channel and epoch was seen, frames are dropped.
Ready ==
    /\ pc = "ready"
    /\ IF config = [channel |-> look.channel, epoch |-> look.epoch]
       THEN pc' = "connected" /\ UNCHANGED ring
       ELSE pc' = "top" /\ ring' = IF ring = <<>> THEN ring ELSE Tail(ring)
    /\ UNCHANGED <<Shared, mouth, mic, look, media, frame, hu>>

\* Mutant: the end of a call only resets.
ConnectedForgets ==
    /\ pc = "connected"
    /\ pc' = IF sco.connected THEN "cadence" ELSE "reset"
    /\ UNCHANGED <<Shared, ring, mouth, mic, look, media, frame, hu>>

\* handle_media_disconnected_state: a call that ended stops what it has started.
Connected ==
    /\ pc = "connected"
    /\ pc' = IF sco.connected THEN "cadence"
             ELSE IF media.started # 0 /\ cfg.stop THEN "stop" ELSE "reset"
    /\ UNCHANGED <<Shared, ring, mouth, mic, look, media, frame, hu>>

SendStop ==
    /\ pc = "stop"
    /\ hu' = IF Sends THEN [hu EXCEPT !.playing = 0] ELSE hu
    /\ pc' = "reset"
    /\ UNCHANGED <<Shared, ring, mouth, mic, look, media, frame>>

Reset ==
    /\ pc = "reset"
    /\ media' = [NoMedia EXCEPT !.epoch = media.epoch]
    /\ ring' = <<>>
    /\ pc' = "top"
    /\ UNCHANGED <<Shared, mouth, mic, look, frame, hu>>

\* should_wait_for_fixed_cadence: the first DATA waits for a filled buffer.
Cadence ==
    /\ pc = "cadence"
    /\ LET of == {i \in DOMAIN ring : ring[i].call = sco.call}
       IN  pc' = IF ~media.flowing /\ Cardinality(of) < cfg.needed THEN "top" ELSE "call"
    /\ UNCHANGED <<Shared, ring, mouth, mic, look, media, frame, hu>>

LoadCall ==
    /\ pc = "call"
    /\ look' = [look EXCEPT !.call = sco.call]
    /\ pc' = "pop"
    /\ UNCHANGED <<Shared, ring, mouth, mic, media, frame, hu>>

\* pop_aa_pcm_frame_for_generation drops the frames of other calls on its way.
Pop ==
    /\ pc = "pop"
    /\ LET of == {i \in DOMAIN ring : ring[i].call = look.call}
       IN  IF of = {}
           THEN pc' = "top" /\ ring' = <<>> /\ UNCHANGED frame
           ELSE /\ pc' = "again"
                /\ frame' = ring[Min(of)]
                /\ ring' = SubSeq(ring, Min(of) + 1, Len(ring))
    /\ UNCHANGED <<Shared, mouth, mic, look, media, hu>>

LoadAgain ==
    /\ pc = "again"
    /\ pc' = IF target = look.channel /\ epoch = look.epoch THEN "start" ELSE "top"
    /\ UNCHANGED <<Shared, ring, mouth, mic, look, media, frame, hu>>

\* ensure_media_started_for_frame loads the number of the call again. A call
\* other than the started one stops that first.
LoadStart ==
    /\ pc = "start"
    /\ look' = [look EXCEPT !.call = sco.call]
    /\ pc' = CASE media.started = sco.call -> "data"
               [] media.started # 0 /\ media.started # sco.call /\ cfg.stop -> "switch"
               [] OTHER -> "pend"
    /\ UNCHANGED <<Shared, ring, mouth, mic, media, frame, hu>>

SwitchStop ==
    /\ pc = "switch"
    /\ hu' = IF Sends THEN [hu EXCEPT !.playing = 0] ELSE hu
    /\ pc' = "pend"
    /\ UNCHANGED <<Shared, ring, mouth, mic, look, media, frame>>

\* Mutant: every frame restarts the timeout.
PendAgain ==
    /\ pc = "pend"
    /\ media' = [media EXCEPT !.started = 0, !.pending = look.call,
                              !.late = FALSE, !.flowing = FALSE]
    /\ pc' = IF cfg.firstAudio /\ ~frame.loud THEN "top" ELSE "begin"
    /\ UNCHANGED <<Shared, ring, mouth, mic, look, frame, hu>>

\* The start is pending until there is something to hear or time is up; a
\* frame that does not start the channel is dropped.
Pend ==
    /\ pc = "pend"
    /\ LET late == media.late /\ media.pending = look.call
           wait == cfg.firstAudio /\ ~frame.loud /\ ~late
       IN  /\ media' = [media EXCEPT !.started = 0, !.pending = look.call,
                                     !.late = late, !.flowing = FALSE]
           /\ pc' = IF wait THEN "top" ELSE "begin"
    /\ UNCHANGED <<Shared, ring, mouth, mic, look, frame, hu>>

StartTimeout ==
    /\ media.pending # 0 /\ ~media.late
    /\ media' = [media EXCEPT !.late = TRUE]
    /\ UNCHANGED <<Shared, ring, mouth, mic, pc, look, frame, hu>>

\* Whether START could be sent makes no difference to what follows.
SendStart ==
    /\ pc = "begin"
    /\ hu' = IF cfg.start /\ Sends THEN [hu EXCEPT !.playing = look.call] ELSE hu
    /\ media' = [media EXCEPT !.started = look.call, !.pending = 0,
                              !.late = FALSE, !.flowing = FALSE]
    /\ pc' = "data"
    /\ UNCHANGED <<Shared, ring, mouth, mic, look, frame>>

SendData ==
    /\ pc = "data"
    /\ media' = [media EXCEPT !.flowing = @ \/ Sends]
    /\ pc' = "top"
    /\ UNCHANGED <<Shared, ring, mouth, mic, look, frame, hu>>

BridgeStep ==
    \/ LoadMic \/ DecideMic \/ OpenMic \/ MicOpened \/ MicIsOpen
    \/ ForgetMic \/ CloseMic \/ MicClosed \/ DropPending
    \/ LoadChannel \/ LoadEpoch \/ Ready \/ Connected \/ SendStop \/ Reset
    \/ Cadence \/ LoadCall \/ Pop \/ LoadAgain
    \/ LoadStart \/ SwitchStop \/ Pend \/ SendStart \/ SendData

Next ==
    \/ ScoStep \/ ScoAccept \/ ScoHangup
    \/ \E complete, loud \in BOOLEAN : ScoAudio(complete, loud)
    \/ BeginSession \/ Arm \/ MediaConfig \/ EndSession
    \/ MicData \/ MicDrain \/ MicPush \/ MicMoved
    \/ BridgeStep \/ StartTimeout

Spec == Init /\ [][Next]_vars

\* The threads are scheduled, the car answers the setup, the phone sends audio
\* while a call lasts, time passes. Nobody has to call, hang up or come back.
FairSpec ==
    /\ Spec
    /\ WF_vars(ScoStep) /\ WF_vars(Arm) /\ WF_vars(BridgeStep) /\ WF_vars(StartTimeout)
    /\ WF_vars(\E loud \in BOOLEAN : ScoAudio(TRUE, loud))

-----------------------------------------------------------------------------
(* Properties.                                                               *)

\* Of the epoch the live session has armed: not left over from an earlier one.
Own == mine # 0 /\ look.epoch = mine

\* What the car is sent for the session it belongs to comes in order. With
\* start_existing the car has got START in this session, and no STOP since, before
\* any call audio of the session's own epoch, although the bridge thread never
\* learns that a session has ended and does not look at the result of START
\* (ensure_media_started_for_frame). And before the session's own audio starts,
\* the car has sent its CONFIG for the channel the session announced (the ready
\* test of bridge_loop).
DataInOrder ==
    Sends /\ Own =>
        /\ pc = "data" /\ cfg.start => hu.playing = media.started
        /\ pc \in {"begin", "data"} => config = [channel |-> target, epoch |-> mine]

\* Neither side hears another call than its own. A frame is heard in its own call
\* (pop_aa_pcm_frame_for_generation), but for the first one: a frame popped just
\* before the next call is numbered opens it, since ensure_media_started_for_frame
\* loads the number again. And what the microphone said in an earlier call waits
\* in no queue for the next (clear_sco_uplink_queue), but for what was on its way
\* into the ring when that was emptied: the packet of the car that the proxy was
\* moving, and the pending rest of the one before.
AudioOfCall ==
    /\ pc = "data" /\ media.flowing => frame.call = media.started
    /\ sco.pc = "reading" =>
          \A i \in DOMAIN uplink : uplink[i] = sco.call \/ uplink[i] \in crossing

\* When a call ends and no other follows, the car is told to stop what the
\* bridge has started in the session's own epoch, whatever the bridge thread was
\* doing when the call ended or a frame of the call arrived.
MediaStops == cfg.stop /\ hu.playing # 0 /\ media.started # 0 /\ media.epoch = mine /\ ~sco.connected
                 ~> hu.playing = 0 \/ sco.connected

\* The car's microphone follows the calls: a call opens it in a session that
\* lasts, and when the call ends, a microphone the bridge knows to be open is
\* closed. The second half holds while no session is arming the bridge:
\* set_microphone_source forgets a microphone that the bridge thread opens during
\* the arming.
MicFollows ==
    /\ cfg.mic /\ sco.connected /\ aa.pc = "armed"
           ~> hu.mic \/ ~sco.connected \/ aa.live = 0
    /\ mic.open /\ aa.pc = "armed" /\ ~sco.connected ~> ~hu.mic \/ sco.connected

\* A call on a channel that is set up is heard: neither the wait for the first
\* loud frame nor the one for a filled buffer mutes it for ever. Exempt is a fixed
\* cadence with a jitter buffer of more frames than the ring holds: nothing checks
\* the one setting against the other, and the call stays mute.
AudioFlows == mine # 0 /\ config.epoch = mine /\ sco.connected /\ cfg.needed <= RingCapacity
                 ~> media.flowing \/ ~sco.connected \/ aa.live = 0
=============================================================================
