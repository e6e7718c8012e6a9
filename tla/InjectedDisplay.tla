-------------------------- MODULE InjectedDisplay --------------------------
(***************************************************************************)
(* A display the car does not have (display.rs, and its callers in proxy,  *)
(* mitm.rs). The car's proxy adds a video sink to the service discovery    *)
(* response and then plays the car on that channel: it opens it, answers   *)
(* SETUP, acknowledges media and, every 100 ms and at every packet, looks  *)
(* whether clients of the sink's TCP tap have come or gone and tells the   *)
(* phone to project or to stop.                                            *)
(*                                                                         *)
(* toHu is what the phone's proxy hands to the car's, toMd the opposite    *)
(* queue (tx), which the phone's proxy empties into the phone. The proxies *)
(* and the tap's tasks run on one thread: a step of the proxy lasts until  *)
(* it waits for room in toMd. Notifications of focus do not wait: with a   *)
(* full queue they are dropped.                                            *)
(***************************************************************************)
EXTENDS Naturals, Sequences, FiniteSets, FiniteSetsExt

CONSTANTS
    Clients,       \* clients of the tap
    Configs,       \* configurations a session may run with
    QueueCapacity, \* MITM_QUEUE_CAPACITY
    AsksStreaming, \* the phone may ask for focus while it streams
    MaxConnects, MaxFrames, MaxAsks, MaxOther \* bounds

\* cluster: the injected display is a cluster, not an auxiliary display;
\* force: inject_force_focus_without_tap.
ConfigType == [cluster : BOOLEAN, force : BOOLEAN]

ASSUME ConfigsAssumption == Configs \subseteq ConfigType
ASSUME CapacityAssumption == QueueCapacity \in Nat \ {0}
ASSUME PhoneAssumption == AsksStreaming \in BOOLEAN
ASSUME BoundsAssumption == /\ MaxConnects \in Nat /\ MaxFrames \in Nat
                           /\ MaxAsks \in Nat /\ MaxOther \in Nat

VARIABLES
    cfg,
    known,   \* the service is announced: injected_media_display, media_channels
    phase,   \* injected_media_state[channel].phase, "absent" without an entry
    session, \* ... .session_id
    acks,    \* ... .ack_counter
    part,    \* media_fragments[channel] holds the first part of a message
    seenGen, \* injected_media_connect_gen[channel]
    hadTap,  \* injected_media_had_tap_client[channel]
    hand,    \* the packets the proxy waits to put into toMd: none or one
    taps,    \* clients subscribed to the sink
    gen,     \* client_connect_gen of the sink
    toHu, toMd,
    phone,   \* the phone
    others,  \* number of other packets put into toMd
    owed,    \* history: the last announcement found no room
    waiting  \* history: clients that came after the last key frame

sinkVars  == <<taps, gen>>
focusVars == <<seenGen, hadTap, owed>>
mediaVars == <<phase, session, acks, part>>
vars == <<cfg, known, mediaVars, focusVars, hand, sinkVars, toHu, toMd, phone, others, waiting>>

Phases  == {"absent", "Idle", "SetupSeen", "FocusSent", "Started", "Streaming"}
Begun   == {"FocusSent", "Started", "Streaming"}

\* Messages carry a focus, or a session and a number, where they have one.
Msg(k) == [kind |-> k, focus |-> "none", session |-> 0, n |-> 0]
Focus(f) == [Msg("focus") EXCEPT !.focus = f]
Ask(f) == [Msg("ask") EXCEPT !.focus = f]
Start(s) == [Msg("start") EXCEPT !.session = s]
Ack(s, n) == [Msg("ack") EXCEPT !.session = s, !.n = n]

Init ==
    /\ cfg \in Configs /\ known = FALSE
    /\ phase = "absent" /\ session = 0 /\ acks = 0 /\ part = FALSE
    /\ seenGen = 0 /\ hadTap = FALSE /\ hand = <<>>
    \* The sink outlives sessions: clients may be there already.
    /\ taps \in SUBSET Clients /\ gen = Cardinality(taps)
    /\ toHu = <<>> /\ toMd = <<>> /\ others = 0
    /\ phone = [channel |-> "closed", focus |-> "none", started |-> FALSE, part |-> FALSE,
                starts |-> 0, sent |-> 0, acked |-> 0, asks |-> 0]
    /\ owed = FALSE /\ waiting = taps

---------------------------------------------------------------------------
(* The poll: maybe_emit_pending_injected_focus.                            *)

\* Mutant: a client that comes when another is there is not noticed.
FreshAlone == gen > seenGen /\ taps # {} /\ ~hadTap

Fresh == gen > seenGen /\ taps # {}
Gone == hadTap /\ taps = {}
Toggle == Fresh /\ cfg.cluster /\ (phase \in Begun \/ (phase = "absent" /\ known))
Release == Gone /\ cfg.cluster /\ ~cfg.force /\ phase \in Begun
Ready == \/ Fresh /\ cfg.cluster /\ phase = "Idle"
         \/ (taps # {} \/ cfg.force) /\ phase = "SetupSeen"
Looks == phase # "absent" \/ (cfg.cluster /\ known)

\* Mutant: the departure of the last client goes unannounced.
AnnouncedArrivals == IF Toggle THEN <<"native", "projected">>
                     ELSE IF Ready THEN <<"projected">> ELSE <<>>

Announced == IF Release THEN <<"native">>
             ELSE IF Toggle THEN <<"native", "projected">>
             ELSE IF Ready THEN <<"projected">> ELSE <<>>

\* try_send puts as much of it into a queue q as there is room for.
TrySend(q) == [i \in 1..Min({Len(Announced), QueueCapacity - Len(q)}) |-> Focus(Announced[i])]

\* What the poll does to a queue q.
Poll(q) ==
    /\ toMd' = q \o TrySend(q)
    /\ IF Looks THEN seenGen' = gen /\ hadTap' = (taps # {}) ELSE UNCHANGED <<seenGen, hadTap>>
    /\ owed' = IF Announced = <<>> THEN owed ELSE Len(TrySend(q)) < Len(Announced)

---------------------------------------------------------------------------
(* The car's proxy.                                                        *)

ProxyFree == hand = <<>>

\* The interval of 100 ms.
FocusPoll ==
    /\ ProxyFree /\ Poll(toMd)
    /\ UNCHANGED <<cfg, known, mediaVars, hand, sinkVars, toHu, phone, others, waiting>>

\* The car's service discovery response passes: add_display_services.
Discover ==
    /\ ProxyFree /\ ~known /\ known' = TRUE /\ hand' = <<Msg("services")>>
    /\ UNCHANGED <<cfg, mediaVars, focusVars, sinkVars, toHu, toMd, phone, others, waiting>>

\* Any other packet for the phone, from the car or from outside.
Other ==
    /\ ProxyFree /\ others < MaxOther /\ others' = others + 1 /\ hand' = <<Msg("other")>>
    /\ UNCHANGED <<cfg, known, mediaVars, focusVars, sinkVars, toHu, toMd, phone, waiting>>

\* A packet of the phone on the injected channel; the poll comes first.
Receive(k) ==
    /\ ProxyFree /\ toHu # <<>> /\ Head(toHu).kind = k /\ toHu' = Tail(toHu)
    /\ Poll(toMd)
    /\ UNCHANGED <<cfg, known, sinkVars, phone, others, waiting>>

\* The channel is opened here, the car does not hear of it.
OpenRequest == Receive("open") /\ hand' = <<Msg("opened")>> /\ UNCHANGED mediaVars

SetupMessage ==
    /\ Receive("setup") /\ hand' = <<Msg("config")>>
    /\ phase' = "SetupSeen" /\ session' = 0 /\ acks' = 0 /\ UNCHANGED part

StartMessage ==
    /\ Receive("start") /\ UNCHANGED <<hand, part>>
    /\ phase' = "Started" /\ session' = Head(toHu).session /\ acks' = 0

\* Mutant: the first part is acknowledged too.
FirstPartAcked ==
    /\ Receive("first") /\ part' = TRUE
    /\ phase' = "Streaming" /\ acks' = acks + 1 /\ hand' = <<Ack(session, acks + 1)>>
    /\ UNCHANGED session

\* The first part of a message waits for the last.
FirstPart ==
    /\ Receive("first") /\ part' = TRUE /\ UNCHANGED <<phase, session, acks, hand>>

\* Mutant: only the first message of a stream is acknowledged.
DataFirstOnly ==
    /\ Receive("data") \/ Receive("last")
    /\ UNCHANGED <<session, part>>
    /\ IF phase = "Started"
       THEN phase' = "Streaming" /\ acks' = acks + 1 /\ hand' = <<Ack(session, acks + 1)>>
       ELSE UNCHANGED <<phase, acks, hand>>

\* A whole message, or its last part, is acknowledged if the stream has begun.
DataMessage ==
    /\ \/ Receive("data") /\ UNCHANGED part
       \/ Receive("last") /\ part' = FALSE
    /\ UNCHANGED session
    /\ IF phase \in {"Started", "Streaming"}
       THEN phase' = "Streaming" /\ acks' = acks + 1 /\ hand' = <<Ack(session, acks + 1)>>
       ELSE UNCHANGED <<phase, acks, hand>>

StopMessage ==
    /\ Receive("stop") /\ UNCHANGED <<hand, part>>
    /\ phase' = "Idle" /\ session' = 0 /\ acks' = 0

\* The phone gets the focus it asks for.
FocusRequest ==
    /\ Receive("ask") /\ hand' = <<Focus(Head(toHu).focus)>>
    /\ phase' = "FocusSent" /\ UNCHANGED <<session, acks, part>>

\* The proxy finds room; after a reply on the injected channel it polls again.
SendReply ==
    /\ hand # <<>> /\ Len(toMd) < QueueCapacity /\ hand' = <<>>
    /\ LET q == Append(toMd, hand[1]) IN
       IF hand[1].kind \in {"config", "ack", "focus"}
       THEN Poll(q)
       ELSE toMd' = q /\ UNCHANGED focusVars
    /\ UNCHANGED <<cfg, known, mediaVars, sinkVars, toHu, phone, others, waiting>>

---------------------------------------------------------------------------
(* The phone (external), behind its own proxy: it takes from toMd and puts *)
(* into toHu, and what it streams passes the tap on the way.               *)

\* Messages it may have sent without an acknowledgement: injected_max_unacked.
Window == IF cfg.cluster THEN 1 ELSE 2
Says(m) == toHu' = Append(toHu, m)
PhoneOnly == UNCHANGED <<cfg, known, mediaVars, focusVars, hand, sinkVars, others>>

MustStop == phone.started /\ phone.focus = "native"

\* It takes one message after the other.
PhoneReceives ==
    /\ ~MustStop /\ toMd # <<>> /\ toMd' = Tail(toMd) /\ PhoneOnly /\ UNCHANGED waiting
    /\ LET m == Head(toMd) IN
       CASE m.kind = "services" -> Says(Msg("open")) /\ UNCHANGED phone
         [] m.kind = "opened" -> Says(Msg("setup")) /\ UNCHANGED phone
         [] m.kind = "config" -> phone' = [phone EXCEPT !.channel = "ready"] /\ UNCHANGED toHu
         [] m.kind = "focus" /\ phone.channel = "ready" ->
              phone' = [phone EXCEPT !.focus = m.focus] /\ UNCHANGED toHu
         [] m.kind = "ack" /\ m.session = phone.starts ->
              phone' = [phone EXCEPT !.acked = m.n] /\ UNCHANGED toHu
         [] OTHER -> UNCHANGED <<phone, toHu>>

PhoneStarts ==
    /\ phone.focus = "projected" /\ ~phone.started /\ ~phone.part
    /\ phone' = [phone EXCEPT !.started = TRUE, !.starts = @ + 1, !.sent = 0, !.acked = 0]
    /\ Says(Start(phone.starts + 1))
    /\ PhoneOnly /\ UNCHANGED <<toMd, waiting>>

PhoneStops ==
    /\ MustStop
    /\ phone' = [phone EXCEPT !.started = FALSE] /\ Says(Msg("stop"))
    /\ PhoneOnly /\ UNCHANGED <<toMd, waiting>>

\* A stream begins with a key frame.
Completed == /\ phone' = [phone EXCEPT !.sent = @ + 1, !.part = FALSE]
             /\ waiting' = IF phone.sent = 0 THEN {} ELSE waiting

MayStream == /\ phone.started /\ ~phone.part
             /\ phone.sent < MaxFrames /\ phone.sent - phone.acked < Window

PhoneStreams ==
    /\ \/ MayStream /\ Says(Msg("data")) /\ Completed
       \/ /\ MayStream /\ Says(Msg("first"))
          /\ phone' = [phone EXCEPT !.part = TRUE] /\ UNCHANGED waiting
       \/ phone.part /\ Says(Msg("last")) /\ Completed
    /\ PhoneOnly /\ UNCHANGED toMd

PhoneAsks ==
    /\ phone.channel = "ready" /\ phone.asks < MaxAsks
    /\ phone.started => AsksStreaming
    /\ Says(Ask("projected")) /\ phone' = [phone EXCEPT !.asks = @ + 1]
    /\ PhoneOnly /\ UNCHANGED <<toMd, waiting>>

---------------------------------------------------------------------------
(* The tap: clients are counted and subscribed in one step (MediaSink).    *)

Connect(c) ==
    /\ known /\ c \notin taps /\ gen < MaxConnects
    /\ taps' = taps \cup {c} /\ gen' = gen + 1 /\ waiting' = waiting \cup {c}
    /\ UNCHANGED <<cfg, known, mediaVars, focusVars, hand, toHu, toMd, phone, others>>

Disconnect(c) ==
    /\ c \in taps /\ taps' = taps \ {c} /\ waiting' = waiting \ {c}
    /\ UNCHANGED <<cfg, known, mediaVars, focusVars, hand, gen, toHu, toMd, phone, others>>

---------------------------------------------------------------------------
Proxy == \/ OpenRequest \/ SetupMessage \/ StartMessage \/ FirstPart \/ DataMessage
         \/ StopMessage \/ FocusRequest \/ SendReply
Phone == PhoneReceives \/ PhoneStarts \/ PhoneStops \/ PhoneStreams

Next == \/ Proxy \/ FocusPoll \/ Discover \/ Other \/ Phone \/ PhoneAsks
        \/ \E c \in Clients : Connect(c) \/ Disconnect(c)

Spec == Init /\ [][Next]_vars

\* The proxy works on what it has and the interval comes; the phone reacts.
FairSpec == Spec /\ WF_vars(Proxy) /\ WF_vars(FocusPoll) /\ WF_vars(Discover)
                 /\ WF_vars(PhoneReceives) /\ WF_vars(PhoneStarts) /\ WF_vars(PhoneStops)
                 /\ WF_vars(PhoneStreams)

---------------------------------------------------------------------------
(* Properties.                                                             *)

\* The phone is never acknowledged more of a stream than it has sent of it, so
\* its window of unacknowledged messages is kept (emulate_injected_media_packet).
AcksAreOwed ==
    \A i \in DOMAIN toMd :
        toMd[i].kind = "ack" /\ toMd[i].session = phone.starts => toMd[i].n <= phone.sent

\* What the phone has sent of a stream is acknowledged, unless the stream ends
\* first (emulate_injected_media_packet).
DataAcked == phone.started /\ phone.sent > phone.acked
               ~> phone.sent = phone.acked \/ ~phone.started

\* The proxy will take note of a client and knows whether the phone streams: it
\* learns that a little after the phone has sent its key frame.
Noticed(c) == /\ c \in waiting
              /\ \/ phone.starts = 0
                 \/ gen > seenGen /\ phase \in Begun
                 \/ gen > seenGen /\ phase = "Idle" /\ ~phone.started

\* A client of a cluster's tap gets a key frame, unless it leaves or a
\* notification found no room (maybe_emit_pending_injected_focus).
KeyFrameForClient ==
    \A c \in Clients : Noticed(c) /\ cfg.cluster ~> c \notin waiting \/ owed

\* When the last client of a streaming cluster has left, the phone stops until
\* another comes (maybe_emit_pending_injected_focus).
StreamReleased ==
    Release ~> ~phone.started \/ taps # {} \/ owed

=============================================================================
