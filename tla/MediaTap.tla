------------------------------ MODULE MediaTap ------------------------------
(***************************************************************************)
(* A TCP tap of one media channel (media_tap.rs). The phone's proxy puts   *)
(* the phone's media messages together again and broadcasts them to the    *)
(* clients of the channel's port; it waits for none of them. A client that *)
(* does not read fast enough finds its oldest messages overwritten.        *)
(*                                                                         *)
(* Video is a sequence of pictures, numbered from 1 over all sessions. A   *)
(* message carries a part of one picture, all parts with the picture's     *)
(* time stamp; where the parts end shows only when the next picture        *)
(* begins. A client is shown nothing before a key picture, which it gets   *)
(* with the codec configuration in front of it. Audio goes out message by  *)
(* message.                                                                *)
(*                                                                         *)
(* log is everything ever broadcast; the channel holds the last Capacity   *)
(* items of it. Clients read it at a position and know what they have of a *)
(* picture as a set of indices into log.                                   *)
(***************************************************************************)
EXTENDS Naturals, Sequences

CONSTANTS
    Clients,
    Kinds,       \* what the channel may carry: "video", "audio"
    Capacity,    \* capacity of the broadcast channel
    MaxParts,    \* bound: messages of a picture
    MaxStreams, MaxPictures \* bounds

ASSUME KindsAssumption == Kinds \subseteq {"video", "audio"}
ASSUME CapacityAssumption == Capacity \in Nat \ {0}
ASSUME BoundsAssumption == MaxParts \in Nat /\ MaxStreams \in Nat /\ MaxPictures \in Nat

VARIABLES
    kind,     \* what the channel carries
    stream,   \* number of the phone's stream; 0 before service discovery
    config,   \* codec_cfg: the stream whose codec configuration is cached
    picture,  \* number of pictures begun
    key,      \* the current one is a key picture
    left,     \* parts of it to come
    frag,     \* media_fragments: a part has arrived in part
    log,      \* everything broadcast
    pc,       \* control points of the clients
    pos,      \* next item they read
    synced,   \* they have been shown a key picture
    pending,  \* items they have of the picture that is not complete yet
    au,       \* items they are about to write
    prefix,   \* the configuration they will put in front
    opens,    \* history: what they are about to write is the first picture
              \* since they connected or lagged
    out       \* what they have written last: the items and the configuration

phoneVars  == <<kind, stream, picture, key, left, frag>>
sinkVars   == <<config, log>>
clientVars == <<pc, pos, synced, pending, au, prefix, opens, out>>
vars == <<phoneVars, sinkVars, clientVars>>

None == 0
Nothing == [items |-> {}, config |-> None]

\* picture 0: a codec configuration, sent with time stamp 0.
Item(p, k) == [picture |-> p, key |-> k, config |-> stream]

Init ==
    /\ kind \in Kinds /\ stream = 0 /\ config = None
    /\ picture = 0 /\ key = FALSE /\ left = 0 /\ frag = FALSE /\ log = <<>>
    /\ pc = [c \in Clients |-> "off"] /\ pos = [c \in Clients |-> 1]
    /\ synced = [c \in Clients |-> FALSE]
    /\ pending = [c \in Clients |-> {}] /\ au = [c \in Clients |-> {}]
    /\ prefix = [c \in Clients |-> None] /\ opens = [c \in Clients |-> FALSE]
    /\ out = [c \in Clients |-> Nothing]

---------------------------------------------------------------------------
(* The phone and its proxy.                                                *)

Send(i) == log' = Append(log, i)

\* A session's service discovery. What the last one left unfinished stays so:
\* the fragments are the proxy's, the cached configuration is the program's.
BeginStream ==
    /\ stream < MaxStreams /\ stream' = stream + 1
    /\ left' = 0 /\ frag' = FALSE
    /\ UNCHANGED <<kind, picture, key, sinkVars, clientVars>>

\* The phone has sent the configuration of its stream.
Configured == \E i \in DOMAIN log : log[i] = Item(0, FALSE)

\* Mutant: only the first configuration is cached.
CodecConfigOnce ==
    /\ stream > 0 /\ kind = "video" /\ ~Configured
    /\ config' = (IF config = None THEN stream ELSE config) /\ Send(Item(0, FALSE))
    /\ UNCHANGED <<phoneVars, clientVars>>

\* send_codec_config: cached, then broadcast. An audio channel has none.
CodecConfig ==
    /\ stream > 0 /\ kind = "video" /\ ~Configured
    /\ config' = stream /\ Send(Item(0, FALSE))
    /\ UNCHANGED <<phoneVars, clientVars>>

\* The phone (external) begins the next picture, a stream with a key picture
\* after its configuration.
BeginPicture ==
    /\ stream > 0 /\ left = 0 /\ picture < MaxPictures
    /\ kind = "video" => Configured
    /\ picture' = picture + 1 /\ left' \in 1..MaxParts
    /\ key' \in (IF kind = "video" /\ \E i \in DOMAIN log :
                        log[i].picture > 0 /\ log[i].config = stream
                 THEN BOOLEAN ELSE {TRUE})
    /\ UNCHANGED <<kind, stream, frag, sinkVars, clientVars>>

\* A message in one packet (send_frame) ...
WholeMessage ==
    /\ left > 0 /\ ~frag /\ left' = left - 1 /\ Send(Item(picture, key))
    /\ UNCHANGED <<kind, stream, picture, key, frag, config, clientVars>>

\* ... or in several. A control packet in between changes nothing.
FirstFragment ==
    /\ left > 0 /\ ~frag /\ frag' = TRUE
    /\ UNCHANGED <<kind, stream, picture, key, left, sinkVars, clientVars>>

LastFragment ==
    /\ left > 0 /\ frag /\ frag' = FALSE /\ left' = left - 1 /\ Send(Item(picture, key))
    /\ UNCHANGED <<kind, stream, picture, key, config, clientVars>>

---------------------------------------------------------------------------
(* A client's task.                                                        *)

Goto(c, p, q) == pc[c] = p /\ pc' = [pc EXCEPT ![c] = q]
Client == UNCHANGED <<phoneVars, sinkVars>>

Accept(c) == Goto(c, "off", "info") /\ Client
             /\ UNCHANGED <<pos, synced, pending, au, prefix, opens, out>>

\* No service discovery for 30 seconds.
InfoTimeout(c) ==
    /\ Goto(c, "info", "off") /\ stream = 0
    /\ Client /\ UNCHANGED <<pos, synced, pending, au, prefix, opens, out>>

Subscribe(c) ==
    /\ Goto(c, "info", "recv") /\ stream > 0
    /\ pos' = [pos EXCEPT ![c] = Len(log) + 1]
    /\ Client /\ UNCHANGED <<synced, pending, au, prefix, opens, out>>

Behind(c) == pos[c] + Capacity <= Len(log)

\* The receiver has lagged: it goes on with the oldest item there is, a video
\* client with the next key picture.
Lagged(c) ==
    /\ pc[c] = "recv" /\ Behind(c) /\ pos' = [pos EXCEPT ![c] = Len(log) - Capacity + 1]
    /\ IF kind = "video"
       THEN synced' = [synced EXCEPT ![c] = FALSE] /\ pending' = [pending EXCEPT ![c] = {}]
       ELSE UNCHANGED <<synced, pending>>
    /\ Client /\ UNCHANGED <<pc, au, prefix, opens, out>>

Picture(s) == IF s = {} THEN 0 ELSE log[CHOOSE i \in s : TRUE].picture
IsKey(s) == \E i \in s : log[i].key

Recv(c) == /\ pc[c] = "recv" /\ ~Behind(c) /\ pos[c] <= Len(log)
           /\ pos' = [pos EXCEPT ![c] = @ + 1] /\ Client /\ UNCHANGED <<prefix, out>>
Heard(c) == log[pos[c]]

SkipConfig(c) == Recv(c) /\ Heard(c).picture = 0 /\ UNCHANGED <<pc, synced, pending, au, opens>>

RecvAudio(c) ==
    /\ Recv(c) /\ kind = "audio" /\ Goto(c, "recv", "pes")
    /\ au' = [au EXCEPT ![c] = {pos[c]}] /\ UNCHANGED <<synced, pending, opens>>

\* Mutant: a further part replaces those before it.
RecvPartAlone(c) ==
    /\ Recv(c) /\ kind = "video" /\ Heard(c).picture > 0
    /\ pending[c] = {} \/ Picture(pending[c]) = Heard(c).picture
    /\ pending' = [pending EXCEPT ![c] = {pos[c]}] /\ UNCHANGED <<pc, synced, au, opens>>

\* The first part of a picture, or another one of the same.
RecvPart(c) ==
    /\ Recv(c) /\ kind = "video" /\ Heard(c).picture > 0
    /\ pending[c] = {} \/ Picture(pending[c]) = Heard(c).picture
    /\ pending' = [pending EXCEPT ![c] = @ \cup {pos[c]}] /\ UNCHANGED <<pc, synced, au, opens>>

\* The first part of the next: the one before is complete.
Complete(c) ==
    /\ Recv(c) /\ kind = "video" /\ Heard(c).picture > 0
    /\ pending[c] # {} /\ Picture(pending[c]) # Heard(c).picture
    /\ pending' = [pending EXCEPT ![c] = {pos[c]}]

Withhold(c) ==
    /\ Complete(c) /\ ~synced[c] /\ ~IsKey(pending[c]) /\ UNCHANGED <<pc, synced, au, opens>>

\* Mutant: the key picture that opens the gate is not shown itself.
ShowKeyAfter(c) ==
    /\ Complete(c) /\ IsKey(pending[c]) /\ synced' = [synced EXCEPT ![c] = TRUE]
    /\ IF synced[c] THEN Goto(c, "recv", "psi") /\ au' = [au EXCEPT ![c] = pending[c]]
                     ELSE UNCHANGED <<pc, au>>
    /\ UNCHANGED opens

ShowKey(c) ==
    /\ Complete(c) /\ IsKey(pending[c]) /\ Goto(c, "recv", "psi")
    /\ synced' = [synced EXCEPT ![c] = TRUE] /\ au' = [au EXCEPT ![c] = pending[c]]
    /\ opens' = [opens EXCEPT ![c] = ~synced[c]]

ShowOther(c) ==
    /\ Complete(c) /\ synced[c] /\ ~IsKey(pending[c]) /\ Goto(c, "recv", "pes")
    /\ au' = [au EXCEPT ![c] = pending[c]] /\ UNCHANGED <<synced, opens>>

\* The tables are written; only then the configuration is looked up.
WritePsi(c) ==
    /\ Goto(c, "psi", "pes") /\ prefix' = [prefix EXCEPT ![c] = config]
    /\ Client /\ UNCHANGED <<pos, synced, pending, au, opens, out>>

WritePes(c) ==
    /\ Goto(c, "pes", "recv")
    /\ out' = [out EXCEPT ![c] = [items |-> au[c], config |-> prefix[c]]]
    /\ prefix' = [prefix EXCEPT ![c] = None] /\ au' = [au EXCEPT ![c] = {}]
    /\ opens' = [opens EXCEPT ![c] = FALSE]
    /\ Client /\ UNCHANGED <<pos, synced, pending>>

\* Any write may fail.
Leave(c) ==
    /\ pc[c] # "off" /\ pc' = [pc EXCEPT ![c] = "off"] /\ pos' = [pos EXCEPT ![c] = 1]
    /\ synced' = [synced EXCEPT ![c] = FALSE] /\ pending' = [pending EXCEPT ![c] = {}]
    /\ au' = [au EXCEPT ![c] = {}] /\ prefix' = [prefix EXCEPT ![c] = None]
    /\ opens' = [opens EXCEPT ![c] = FALSE]
    /\ out' = [out EXCEPT ![c] = Nothing] /\ Client

---------------------------------------------------------------------------
Reading(c) == \/ Lagged(c) \/ SkipConfig(c) \/ RecvAudio(c) \/ RecvPart(c)
              \/ Withhold(c) \/ ShowKey(c) \/ ShowOther(c)
Task(c) == Subscribe(c) \/ Reading(c) \/ WritePsi(c) \/ WritePes(c)

Phone == \/ BeginStream \/ CodecConfig \/ BeginPicture
         \/ WholeMessage \/ FirstFragment \/ LastFragment

Next == Phone \/ \E c \in Clients : Accept(c) \/ InfoTimeout(c) \/ Task(c) \/ Leave(c)

Spec == Init /\ [][Next]_vars

\* A client reads what it is sent.
FairSpec == Spec /\ \A c \in Clients : WF_vars(Task(c))

---------------------------------------------------------------------------
(* Properties.                                                             *)

Shows(c) == out'[c] # out[c] /\ out'[c] # Nothing
\* The pictures of the items before the step: log only grows.
Shown(c) == Picture(out'[c].items)

\* What a client is shown it can follow. A key picture comes with a codec
\* configuration no older than itself, over all streams: with its own stream's, as
\* long as no later one is cached when it is looked up (send_codec_config). Each
\* other picture comes right after the one it builds on (media_tcp_server). Not
\* promised is that it decodes when the phone has come back: the last key picture
\* of a session is complete only when the next one's first begins, and is written
\* with the next one's configuration.
InOrder ==
    [][\A c \in Clients : Shows(c) =>
        IF IsKey(out'[c].items)
        THEN kind = "video" => \A i \in out'[c].items : out'[c].config \in log[i].config..config
        ELSE Shown(c) = Picture(out[c].items) + 1]_vars

\* A client is shown a picture, key or not, with all that was broadcast of it.
\* Only the one it begins with, when it has connected or lagged in the middle of
\* a key picture, may be cut (media_tcp_server).
Whole ==
    [][\A c \in Clients : Shows(c) /\ kind = "video" /\ ~opens[c] =>
            \A i \in DOMAIN log : log[i].picture = Shown(c) => i \in out'[c].items]_vars

\* The pictures client c has ahead of it.
Ahead(c, n) == \E i \in DOMAIN log : i >= pos[c] /\ log[i].picture = n /\ log[i].key

\* A client that keeps up is shown every key picture ahead of it, or a later
\* one, once another picture follows (media_tcp_server).
ShowsKeys ==
    \A c \in Clients : \A n \in 1..MaxPictures :
        pc[c] = "recv" /\ Ahead(c, n) /\ (\E i \in DOMAIN log : log[i].picture > n)
            ~> Picture(out[c].items) >= n \/ Behind(c) \/ pc[c] = "off"
=============================================================================
